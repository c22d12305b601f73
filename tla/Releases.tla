------------------------------ MODULE Releases ------------------------------
(***************************************************************************)
(* Releases as a check sees them: version order and manifest verification  *)
(* (internal/releasemanifest) and the three requests of a fetch            *)
(* (internal/update/fetch.go), between which the release host may change.  *)
(*                                                                         *)
(* A manifest is its version and whether it is well formed; a signature is *)
(* the manifest it was made over and its key.  A file that is not served   *)
(* (another status, a body over its limit, a broken transfer) is an error, *)
(* but for a manifest that is not found.                                   *)
(***************************************************************************)
EXTENDS Notifications

CONSTANTS
    Running,     \* the running release
    Tags         \* the versions the host may publish, oldest first: the order they are meant to have

VARIABLE site    \* the release host: [latest, files]

----------------------------------------------------------------------------
(* Versions: [core, pre], the identifiers of pre being [num, v] *)

FirstDifference(s, t) == Min({i \in 1 .. Min({Len(s), Len(t)}) : s[i] # t[i]})

Differ(s, t) == \E i \in 1 .. Min({Len(s), Len(t)}) : s[i] # t[i]

\* comparePrerelease: a number sorts before a word.
IdentAfter(a, b) == IF a.num = b.num THEN a.v > b.v ELSE b.num

\* CompareVersions: by the core, then a prerelease before the release it leads to.
After(a, b) ==
    IF a.core # b.core THEN LET i == FirstDifference(a.core, b.core) IN a.core[i] > b.core[i]
    ELSE IF a.pre = <<>> \/ b.pre = <<>> THEN a.pre = <<>> /\ b.pre # <<>>
    ELSE IF Differ(a.pre, b.pre) THEN LET i == FirstDifference(a.pre, b.pre) IN IdentAfter(a.pre[i], b.pre[i])
    ELSE Len(a.pre) > Len(b.pre)

\* Checked by TLC on the tags of a run: the order is the one they are meant to have.
ASSUME TagsOrdered == \A i, j \in DOMAIN Tags : After(Tags[j], Tags[i]) <=> i < j

\* The running release has a place in that order.
ASSUME RunningOrdered == Running \in Range(Tags)

\* Newer: never a prerelease, never the running release or an older one.
Newer(latest) == latest.pre = <<>> /\ After(latest, Running)

----------------------------------------------------------------------------
(* Manifests *)

TrustedKeys == {"release"}

Manifest(version) == [version |-> version, whole |-> TRUE]

Sign(manifest, key) == [over |-> manifest, key |-> key]

\* Validate: the schema this build reads, every field there and well formed,
\* nothing required that it does not know.
ValidManifest(m) == m.whole

\* Verify: a trusted key's signature over these bytes, then what they say.
Verify(raw, sig) == sig.key \in TrustedKeys /\ sig.over = raw /\ ValidManifest(raw)

----------------------------------------------------------------------------
(* The release host *)

Published == Range(Tags)

NoFiles == [manifest |-> None, sig |-> None]

\* What a tag may carry: a release's pair, one signed by another key, another
\* release's pair, a manifest that is not well formed, or a manifest alone.
Assets(tag) ==
    {[manifest |-> Manifest(v), sig |-> Sign(Manifest(v), "release")] : v \in Published}
    \cup {[manifest |-> Manifest(tag), sig |-> Sign(Manifest(tag), "other")],
          [manifest |-> [Manifest(tag) EXCEPT !.whole = FALSE], sig |-> Sign([Manifest(tag) EXCEPT !.whole = FALSE], "release")],
          [manifest |-> Manifest(tag), sig |-> None]}

SiteChanges ==
    /\ "updates" \in parts /\ Spend("site")
    /\ \/ \E l \in Published \cup {None} : l # site.latest /\ site' = [site EXCEPT !.latest = l]
       \/ /\ site.latest # None
          /\ \E u \in Assets(site.latest) : u # site.files[site.latest] /\ site' = [site EXCEPT !.files[site.latest] = u]
    /\ UNCHANGED center

----------------------------------------------------------------------------
(* A fetch: [at, tag, raw], then its answer *)

Answer(kind, rel) == [at |-> "answer", kind |-> kind, rel |-> rel]

Failed == Answer("error", None)

FetchBegins == [at |-> "tag"]

\* latestTag: the release list in place of a tag is no stable release.
LatestTag == IF site.latest = None THEN Answer("noRelease", None) ELSE [at |-> "manifest", tag |-> site.latest]

\* The manifest of that tag.
DownloadManifest(f) ==
    LET raw == site.files[f.tag].manifest
    IN  IF raw = None THEN Answer("noManifest", None) ELSE [at |-> "sig", tag |-> f.tag, raw |-> raw]

\* Mutant of DownloadSignature: a manifest moved from another release is taken.
DownloadSignatureOfAny(f) ==
    LET sig == site.files[f.tag].sig
    IN  IF sig # None /\ Verify(f.raw, sig)
        THEN Answer("release", [version |-> f.raw.version, raw |-> f.raw, sig |-> sig, tag |-> f.tag]) ELSE Failed

\* Its signature; the pair has to verify, and to be of that tag.
DownloadSignature(f) ==
    LET sig == site.files[f.tag].sig
    IN  IF sig # None /\ Verify(f.raw, sig) /\ f.raw.version = f.tag
        THEN Answer("release", [version |-> f.raw.version, raw |-> f.raw, sig |-> sig, tag |-> f.tag]) ELSE Failed

\* The next answer of the host, or any request failing.
FetchStep(f) ==
    {Failed} \cup {IF f.at = "tag" THEN LatestTag ELSE IF f.at = "manifest" THEN DownloadManifest(f) ELSE DownloadSignature(f)}

SiteInit == site = [latest |-> None, files |-> [t \in Published |-> NoFiles]]

=============================================================================
