---------------------------- MODULE Certificates ----------------------------
(***************************************************************************)
(* The management certificate: the pair on disk and its pin marker         *)
(* (internal/mgmtcert), the snapshot the listener serves (the provider in  *)
(* cmd/remotemic/management.go), and the requests that rotate it           *)
(* (internal/mgmtserver/certificate.go).                                   *)
(*                                                                         *)
(* A file holds a whole pair's half, so the two files match when they hold *)
(* the same pair.  left is what a power cut may leave of each file: renames*)
(* reach the disk in any order until the directory is synced.  Staged files*)
(* are not told apart from none.                                           *)
(***************************************************************************)
EXTENDS Notifications

CONSTANTS
    Names,       \* the sets of names the host may have
    ExtraNames   \* names an operator may add

VARIABLE certs   \* see CertInit

Files == {"cert", "key", "pin"}

\* A pair: when it was made, by whom, and the names it covers.
Pairs == [id : Nat, own : {"self", "operator"}, sans : SUBSET ((UNION Names) \cup ExtraNames)]

ASSUME NamesAssumption == Names # {} /\ None \notin Pairs

----------------------------------------------------------------------------
(* Pairs *)

\* What an operator may upload, by what Validate tells apart.
Uploads ==
    [cert : {"pem", "garbage", "long"}, key : {"pem", "garbage", "encrypted", "other"},
     window : {"early", "now", "late"}, sans : SUBSET ExtraNames, usage : {"any", "server", "client"}]

\* firstPrivateKeyBlock and X509KeyPair: a key in clear, of that certificate.
KeyMatches(u) == u.key = "pem"

UsableForServerAuth(u) == u.usage \in {"any", "server"}

Validate(u) == u.cert = "pem" /\ KeyMatches(u) /\ u.window = "now" /\ u.sans # {} /\ UsableForServerAuth(u)

\* ValidateHosts: an entry that is no name is refused.
ValidateHosts(extra) == "not a name" \notin extra

Pair(own, sans) == [id |-> certs.ids + 1, own |-> own, sans |-> sans]

Generate(hosts) == Pair("self", hosts)

CurrentlyValid(p) == p.id > certs.expired

Covers(p) == certs.names \subseteq p.sans

\* Only a marker known to be absent counts as unpinned.
Pinned == certs.disk["pin"] \/ "pin" \in certs.fault

\* readFault: a pinned file that is there and cannot be read.
ReadFault == Pinned /\ certs.fault \cap {"cert", "key"} # {}

\* parsePair: both files read, and match.
Loads == certs.fault \cap {"cert", "key"} = {} /\ certs.disk["cert"] # None /\ certs.disk["cert"] = certs.disk["key"]

\* carryForward: an address that changed keeps the names an operator added.
CarryForward == certs.names \cup IF Loads /\ ~Pinned /\ CurrentlyValid(certs.disk["cert"]) THEN certs.disk["cert"].sans ELSE {}

----------------------------------------------------------------------------
(* Starting an operation; certMu keeps them apart *)

Begins(do, step, pair) ==
    certs' = [certs EXCEPT !.op = [do |-> do, step |-> step, pair |-> pair], !.ids = @ + 1]

\* setCertificate: the snapshot is swapped whole, Managed read from the marker.
SetCertificate(c, pair) == [c EXCEPT !.live = pair, !.managed = ~Pinned, !.op = None, !.torn = FALSE]

\* prepareCertificate with Ensure: a pinned pair is used as it is, a pair in
\* date that covers the host's names too; another is generated, a broken
\* pinned one included.  A pinned file that cannot be read fails the attempt.
Ensure ==
    /\ certs.op = None /\ certs.live = None /\ ~ReadFault
    /\ IF Loads /\ (Pinned \/ (CurrentlyValid(certs.disk["cert"]) /\ Covers(certs.disk["cert"])))
       THEN certs' = SetCertificate(certs, certs.disk["cert"])
       ELSE Begins("ensure", IF Pinned THEN "mark" ELSE "stage", Generate(CarryForward))
    /\ UNCHANGED <<center, budget>>

\* The supervisor brings the API up again in the same process.
ApiRestarts ==
    /\ certs.op = None /\ certs.live # None /\ Spend("apis")
    /\ certs' = [certs EXCEPT !.live = None]
    /\ UNCHANGED center

\* PUT /system/certificate; an upload that is refused changes nothing.
Install ==
    /\ certs.op = None /\ certs.live # None /\ Spend("rotations")
    /\ \E u \in Uploads : Validate(u) /\ Begins("install", "stage", Pair("operator", u.sans))
    /\ UNCHANGED center

\* POST /system/certificate/regenerate.
Regenerate ==
    /\ certs.op = None /\ certs.live # None /\ Spend("rotations")
    /\ \E extra \in SUBSET (ExtraNames \cup {"not a name"}) :
          ValidateHosts(extra) /\ Begins("regenerate", "stage", Generate(certs.names \cup extra))
    /\ UNCHANGED center

----------------------------------------------------------------------------
(* Its steps *)

At(step) == certs.op # None /\ certs.op.step = step

Fails(c) == [c EXCEPT !.op = None]

\* writePair stages both files: a failure leaves what is there.
Stage ==
    /\ At("stage")
    /\ \/ certs' = [certs EXCEPT !.op.step = "cert"] /\ UNCHANGED budget
       \/ Spend("fails") /\ certs' = Fails(certs)
    /\ UNCHANGED center

\* The renames, one after the other; a failed second one leaves the files apart.
Commit(file) ==
    /\ At(file)
    /\ \/ /\ certs' = [certs EXCEPT !.disk[file] = certs.op.pair, !.left[file] = @ \cup {certs.op.pair},
                                    !.fault = @ \ {file}, !.torn = TRUE,
                                    !.kept = IF certs.op.do = "ensure" THEN @ ELSE None,
                                    !.op.step = IF file = "cert" THEN "key" ELSE "sync"]
          /\ UNCHANGED budget
       \/ Spend("fails") /\ certs' = Fails(certs)
    /\ UNCHANGED center

\* Mutant of SyncPair: the directory is not synced.
SyncPairSkipped ==
    /\ At("sync")
    /\ certs' = [certs EXCEPT !.op.step = IF certs.op.do = "ensure" THEN "live" ELSE "mark"]
    /\ UNCHANGED <<center, budget>>

\* SyncDir, then the marker, which Ensure has dealt with already.
SyncPair ==
    /\ At("sync")
    /\ certs' = [certs EXCEPT !.left = [f \in Files |-> {certs.disk[f]}],
                              !.op.step = IF certs.op.do = "ensure" THEN "live" ELSE "mark"]
    /\ UNCHANGED <<center, budget>>

\* The marker is written or removed, and the directory synced.  A failed
\* removal does not stop Ensure.
Mark ==
    /\ At("mark")
    /\ LET next == IF certs.op.do = "ensure" THEN "stage" ELSE "live"
           pin == certs.op.do = "install"
       IN  \/ /\ certs' = [certs EXCEPT !.disk["pin"] = pin, !.left["pin"] = {pin}, !.fault = @ \ {"pin"}, !.op.step = next]
              /\ UNCHANGED budget
           \/ /\ Spend("fails")
              /\ certs' = IF certs.op.do = "ensure" THEN [certs EXCEPT !.op.step = next] ELSE Fails(certs)
    /\ UNCHANGED center

\* The snapshot is published, the request answered, the operator told.
Live ==
    /\ At("live")
    /\ certs' = [SetCertificate(certs, certs.op.pair) EXCEPT !.kept = IF certs.op.do = "install" THEN certs.op.pair.id ELSE @]
    /\ center' = IF certs.op.do = "ensure" THEN center ELSE Publish(center)
    /\ UNCHANGED budget

----------------------------------------------------------------------------
(* What happens around it *)

\* The process ends, by itself or with the power; what was on its way is lost.
Ends(cut) ==
    /\ certs.live # None \/ certs.op # None
    /\ Spend("crashes")
    /\ LET Left(f) == IF cut THEN certs.left[f] ELSE {certs.disk[f]} IN
       \E cert \in Left("cert"), key \in Left("key"), pin \in Left("pin") :
          LET disk == [cert |-> cert, key |-> key, pin |-> pin] IN
          certs' = [certs EXCEPT !.live = None, !.managed = FALSE, !.op = None, !.disk = disk,
                                 !.left = IF cut THEN [f \in Files |-> {disk[f]}] ELSE @]
    /\ center' = Publish(NewCenter(center.boot + 1))

\* A file cannot be read for a while: a permission, an I/O error, a volume mounted late.
FileFaults ==
    /\ \/ certs.fault = {} /\ Spend("faults") /\ \E f \in Files : certs' = [certs EXCEPT !.fault = {f}]
       \/ certs.fault # {} /\ certs' = [certs EXCEPT !.fault = {}] /\ UNCHANGED budget
    /\ UNCHANGED center

\* The host gets another name or address; years pass.
HostMoves ==
    /\ Spend("moves")
    /\ \/ \E n \in Names \ {certs.names} : certs' = [certs EXCEPT !.names = n]
       \/ certs.expired < certs.ids /\ certs' = [certs EXCEPT !.expired = certs.ids]
    /\ UNCHANGED center

CertInit ==
    certs = [disk |-> [f \in Files |-> IF f = "pin" THEN FALSE ELSE None],
             left |-> [f \in Files |-> {IF f = "pin" THEN FALSE ELSE None}],
             fault |-> {}, names |-> CHOOSE n \in Names : TRUE, expired |-> 0, ids |-> 0,
             live |-> None, managed |-> FALSE, op |-> None, torn |-> FALSE, kept |-> None]

CertStep ==
    /\ "certs" \in parts
    /\ \/ Ensure \/ ApiRestarts \/ Install \/ Regenerate
       \/ Stage \/ Commit("cert") \/ Commit("key") \/ SyncPair \/ Mark \/ Live
       \/ Ends(FALSE) \/ Ends(TRUE) \/ FileFaults \/ HostMoves

=============================================================================
