----------------------------- MODULE EventsProofs -----------------------------
(***************************************************************************)
(* Theorems of Events: the certificate an operator installs, the channel   *)
(* probe of a request, the entries a unit has in the device list, the      *)
(* switch of the release checks, and the release the manager offers.  Each *)
(* part has an inductive invariant of its own, over the variables of its   *)
(* component alone.  The last part is what the center's methods, the       *)
(* stream and the page do to what the page is to show; AlertsProofs puts   *)
(* it together.                                                            *)
(***************************************************************************)
EXTENDS Events, FiniteSetTheorems, SequenceTheorems, WellFoundedInduction, TLAPS

-----------------------------------------------------------------------------
(* The certificate *)

\* What may be in each of the three files.
Holdable(f) == IF f = "pin" THEN BOOLEAN ELSE Pairs \cup {None}

Steps == {"stage", "cert", "key", "sync", "mark", "live"}

\* A rotation under way.
Ops == [do : {"ensure", "install", "regenerate"}, step : Steps, pair : Pairs]

\* The types of the store.
CertType ==
    /\ certs \in [disk : [Files -> Pairs \cup {None} \cup BOOLEAN], left : [Files -> SUBSET (Pairs \cup {None} \cup BOOLEAN)],
                  fault : SUBSET Files, names : SUBSET (UNION Names), expired : Nat, ids : Nat,
                  live : Pairs \cup {None}, managed : BOOLEAN,
                  op : Ops \cup {None},
                  torn : BOOLEAN, kept : Nat \cup {None}]
    /\ \A f \in Files : certs.disk[f] \in Holdable(f) /\ certs.left[f] \subseteq Holdable(f)

\* A pair an operator was promised is whole, pinned and synced, and what is
\* served; a rotation breaks the promise with its first rename.
KeptInv ==
    certs.kept # None =>
        /\ certs.disk["cert"] = certs.disk["key"]
        /\ certs.disk["cert"] # None /\ certs.disk["cert"].id = certs.kept
        /\ certs.disk["pin"] = TRUE
        /\ \A f \in Files : certs.left[f] = {certs.disk[f]}
        /\ certs.live # None => certs.live.id = certs.kept

\* Until a rotation's first rename the files hold what is served.
ServedInv ==
    certs.live # None /\ ~certs.torn =>
        /\ certs.disk["cert"] = certs.live /\ certs.disk["key"] = certs.live
        /\ certs.managed => ~certs.disk["pin"]

\* How far a rotation has come.
OpInv ==
    certs.op # None =>
        /\ certs.op.do = "ensure" => certs.live = None /\ certs.kept = None
        /\ certs.op.do # "ensure" /\ certs.op.step \notin {"stage", "cert"} => certs.torn /\ certs.kept = None
        /\ certs.op.step \in {"key", "sync", "live"} => certs.disk["cert"] = certs.op.pair
        /\ certs.op.step \in {"sync", "live"} => certs.disk["key"] = certs.op.pair
        /\ certs.op.do # "ensure" /\ certs.op.step = "mark" =>
              certs.disk["cert"] = certs.op.pair /\ certs.disk["key"] = certs.op.pair
        /\ certs.op.do = "install" /\ certs.op.step \in {"mark", "live"} =>
              \A f \in {"cert", "key"} : certs.left[f] = {certs.disk[f]}
        /\ certs.op.do = "install" /\ certs.op.step = "live" =>
              certs.disk["pin"] = TRUE /\ certs.left["pin"] = {TRUE}

CertInv == CertType /\ KeptInv /\ ServedInv /\ OpInv

\* The store's record by its fields.
LEMMA CertParts ==
    ASSUME CertType
    PROVE  /\ certs.disk \in [Files -> Pairs \cup {None} \cup BOOLEAN]
           /\ certs.left \in [Files -> SUBSET (Pairs \cup {None} \cup BOOLEAN)]
           /\ certs.fault \subseteq Files /\ certs.names \subseteq UNION Names
           /\ certs.expired \in Nat /\ certs.ids \in Nat /\ certs.live \in Pairs \cup {None}
           /\ certs.managed \in BOOLEAN /\ certs.torn \in BOOLEAN /\ certs.kept \in Nat \cup {None}
           /\ certs.op # None => /\ certs.op.do \in {"ensure", "install", "regenerate"}
                                 /\ certs.op.step \in Steps /\ certs.op.pair \in Pairs
           /\ certs.disk["cert"] \in Pairs \cup {None} /\ certs.disk["key"] \in Pairs \cup {None}
           /\ certs.disk["pin"] \in BOOLEAN
           /\ certs.left["cert"] \subseteq Pairs \cup {None} /\ certs.left["key"] \subseteq Pairs \cup {None}
           /\ certs.left["pin"] \subseteq BOOLEAN
BY DEF CertType, Holdable, Files, Ops

\* A rotation that goes on to another step.
LEMMA NextStep ==
    ASSUME CertType, certs.op # None, NEW st \in Steps
    PROVE  LET op == [certs.op EXCEPT !.step = st]
           IN  op \in Ops /\ op.step = st /\ op.do = certs.op.do /\ op.pair = certs.op.pair
<1>1. certs.op \in Ops
  BY DEF CertType
<1> QED
  BY <1>1 DEF Ops

\* What generate and an upload make.
LEMMA PairMade ==
    ASSUME CertType, NEW own \in {"self", "operator"}, NEW sans \in SUBSET ((UNION Names) \cup ExtraNames)
    PROVE  Pair(own, sans) \in Pairs
<1>1. certs.ids + 1 \in Nat
  BY CertParts
<1> QED
  BY <1>1 DEF Pair, Pairs

\* Every step of the certificate store keeps its invariant.
LEMMA CertStepInv ==
    ASSUME CertInv, CertStep
    PROVE  CertInv'
<1>0. /\ CertType /\ KeptInv /\ ServedInv /\ OpInv
      /\ "cert" \in Files /\ "key" \in Files /\ "pin" \in Files
  BY DEF CertInv, Files
<1>1. CASE ApiRestarts
  <2>1. certs.op = None
    BY <1>1 DEF ApiRestarts
  <2>2. CASE certs' = [certs EXCEPT !.live = None]
    <3>1. /\ certs'.disk = certs.disk /\ certs'.left = certs.left /\ certs'.live = None
              /\ certs'.managed = certs.managed /\ certs'.op = certs.op /\ certs'.torn = certs.torn /\ certs'.kept = certs.kept
      BY <1>0, <2>2 DEF CertType
    <3>2. CertType'
      BY <1>0, <2>2, <3>1 DEF CertType
    <3> QED
      BY <1>0, <2>1, <3>1, <3>2 DEF CertInv, KeptInv, ServedInv, OpInv
  <2> QED
    BY <1>1, <2>2 DEF ApiRestarts
<1>2. CASE Stage
  <2>1. certs.op # None /\ certs.op.step = "stage"
    BY <1>2 DEF Stage, At
  <2>2. CASE certs' = [certs EXCEPT !.op = None]
    <3>1. /\ certs'.disk = certs.disk /\ certs'.left = certs.left /\ certs'.live = certs.live
              /\ certs'.managed = certs.managed /\ certs'.op = None /\ certs'.torn = certs.torn /\ certs'.kept = certs.kept
      BY <1>0, <2>2 DEF CertType
    <3>2. CertType'
      BY <1>0, <2>2, <3>1 DEF CertType
    <3> QED
      BY <1>0, <2>1, <3>1, <3>2 DEF CertInv, KeptInv, ServedInv, OpInv
  <2>3. CASE certs' = [certs EXCEPT !.op.step = "cert"]
    <3>1. /\ certs'.disk = certs.disk /\ certs'.left = certs.left /\ certs'.live = certs.live
              /\ certs'.managed = certs.managed /\ certs'.op = [certs.op EXCEPT !.step = "cert"] /\ certs'.torn = certs.torn /\ certs'.kept = certs.kept
      BY <1>0, <2>3 DEF CertType
    <3>2. certs'.op.step = "cert" /\ certs'.op.do = certs.op.do /\ certs'.op.pair = certs.op.pair
          /\ certs'.op \in Ops
      BY <1>0, <2>1, <3>1, NextStep DEF Steps
    <3>3. CertType'
      BY <1>0, <2>3, <3>1, <3>2 DEF CertType, Steps
    <3> QED
      BY <1>0, <2>1, <3>1, <3>2, <3>3 DEF CertInv, KeptInv, ServedInv, OpInv
  <2> QED
    BY <1>2, <2>2, <2>3 DEF Stage, Fails
<1>3. CASE Commit("cert")
  <2>1. certs.op # None /\ certs.op.step = "cert" /\ certs.op.pair \in Pairs
        /\ certs.op.do \in {"ensure", "install", "regenerate"}
    BY <1>0, <1>3 DEF Commit, At, CertType, Ops
  <2>2. CASE certs' = [certs EXCEPT !.op = None]
    <3>1. /\ certs'.disk = certs.disk /\ certs'.left = certs.left /\ certs'.live = certs.live
              /\ certs'.managed = certs.managed /\ certs'.op = None /\ certs'.torn = certs.torn /\ certs'.kept = certs.kept
      BY <1>0, <2>2 DEF CertType
    <3>2. CertType'
      BY <1>0, <2>2, <3>1 DEF CertType
    <3> QED
      BY <1>0, <2>1, <3>1, <3>2 DEF CertInv, KeptInv, ServedInv, OpInv
  <2>3. CASE certs' = [certs EXCEPT !.disk["cert"] = certs.op.pair, !.left["cert"] = @ \cup {certs.op.pair},
                               !.fault = @ \ {"cert"}, !.torn = TRUE,
                               !.kept = IF certs.op.do = "ensure" THEN @ ELSE None, !.op.step = "key"]
    <3>1. /\ certs'.disk = [certs.disk EXCEPT !["cert"] = certs.op.pair]
          /\ certs'.left = [certs.left EXCEPT !["cert"] = @ \cup {certs.op.pair}]
          /\ certs'.op = [certs.op EXCEPT !.step = "key"]
          /\ certs'.live = certs.live /\ certs'.managed = certs.managed /\ certs'.torn = TRUE
          /\ certs'.kept = IF certs.op.do = "ensure" THEN certs.kept ELSE None
          /\ certs'.fault = certs.fault \ {"cert"} /\ certs'.names = certs.names
          /\ certs'.expired = certs.expired /\ certs'.ids = certs.ids
      BY <1>0, <2>3 DEF CertType
    <3>2. certs'.op.step = "key" /\ certs'.op.do = certs.op.do /\ certs'.op.pair = certs.op.pair
          /\ certs'.op \in Ops
      BY <1>0, <2>1, <3>1, NextStep DEF Steps
    <3>3. certs'.kept = None
      BY <1>0, <2>1, <3>1 DEF OpInv
    <3>4. /\ certs'.disk["cert"] = certs.op.pair
          /\ \A f \in Files \ {"cert"} : certs'.disk[f] = certs.disk[f] /\ certs'.left[f] = certs.left[f]
      BY <1>0, <3>1 DEF CertType
    <3>5. CertType'
      <4>3. /\ certs'.disk \in [Files -> Pairs \cup {None} \cup BOOLEAN]
            /\ certs'.left \in [Files -> SUBSET (Pairs \cup {None} \cup BOOLEAN)]
        BY <1>0, <2>1, <3>1 DEF CertType
      <4>4. \A f \in Files : certs'.disk[f] \in Holdable(f) /\ certs'.left[f] \subseteq Holdable(f)
        BY <1>0, <2>1, <3>1, <3>4 DEF CertType, Holdable
      <4> QED
        BY <1>0, <2>3, <3>1, <3>2, <3>3, <4>3, <4>4 DEF CertType
    <3>6. "cert" # "cert" => certs'.disk["cert"] = certs.disk["cert"]
      BY <1>0, <3>4
    <3> QED
      BY <1>0, <2>1, <3>1, <3>2, <3>3, <3>4, <3>5, <3>6 DEF CertInv, KeptInv, ServedInv, OpInv
  <2> QED
    BY <1>3, <2>2, <2>3 DEF Commit, Fails
<1>4. CASE Commit("key")
  <2>1. certs.op # None /\ certs.op.step = "key" /\ certs.op.pair \in Pairs
        /\ certs.op.do \in {"ensure", "install", "regenerate"}
    BY <1>0, <1>4 DEF Commit, At, CertType, Ops
  <2>2. CASE certs' = [certs EXCEPT !.op = None]
    <3>1. /\ certs'.disk = certs.disk /\ certs'.left = certs.left /\ certs'.live = certs.live
              /\ certs'.managed = certs.managed /\ certs'.op = None /\ certs'.torn = certs.torn /\ certs'.kept = certs.kept
      BY <1>0, <2>2 DEF CertType
    <3>2. CertType'
      BY <1>0, <2>2, <3>1 DEF CertType
    <3> QED
      BY <1>0, <2>1, <3>1, <3>2 DEF CertInv, KeptInv, ServedInv, OpInv
  <2>3. CASE certs' = [certs EXCEPT !.disk["key"] = certs.op.pair, !.left["key"] = @ \cup {certs.op.pair},
                               !.fault = @ \ {"key"}, !.torn = TRUE,
                               !.kept = IF certs.op.do = "ensure" THEN @ ELSE None, !.op.step = "sync"]
    <3>1. /\ certs'.disk = [certs.disk EXCEPT !["key"] = certs.op.pair]
          /\ certs'.left = [certs.left EXCEPT !["key"] = @ \cup {certs.op.pair}]
          /\ certs'.op = [certs.op EXCEPT !.step = "sync"]
          /\ certs'.live = certs.live /\ certs'.managed = certs.managed /\ certs'.torn = TRUE
          /\ certs'.kept = IF certs.op.do = "ensure" THEN certs.kept ELSE None
          /\ certs'.fault = certs.fault \ {"key"} /\ certs'.names = certs.names
          /\ certs'.expired = certs.expired /\ certs'.ids = certs.ids
      BY <1>0, <2>3 DEF CertType
    <3>2. certs'.op.step = "sync" /\ certs'.op.do = certs.op.do /\ certs'.op.pair = certs.op.pair
          /\ certs'.op \in Ops
      BY <1>0, <2>1, <3>1, NextStep DEF Steps
    <3>3. certs'.kept = None
      BY <1>0, <2>1, <3>1 DEF OpInv
    <3>4. /\ certs'.disk["key"] = certs.op.pair
          /\ \A f \in Files \ {"key"} : certs'.disk[f] = certs.disk[f] /\ certs'.left[f] = certs.left[f]
      BY <1>0, <3>1 DEF CertType
    <3>5. CertType'
      <4>3. /\ certs'.disk \in [Files -> Pairs \cup {None} \cup BOOLEAN]
            /\ certs'.left \in [Files -> SUBSET (Pairs \cup {None} \cup BOOLEAN)]
        BY <1>0, <2>1, <3>1 DEF CertType
      <4>4. \A f \in Files : certs'.disk[f] \in Holdable(f) /\ certs'.left[f] \subseteq Holdable(f)
        BY <1>0, <2>1, <3>1, <3>4 DEF CertType, Holdable
      <4> QED
        BY <1>0, <2>3, <3>1, <3>2, <3>3, <4>3, <4>4 DEF CertType
    <3>6. "key" # "cert" => certs'.disk["cert"] = certs.disk["cert"]
      BY <1>0, <3>4
    <3> QED
      BY <1>0, <2>1, <3>1, <3>2, <3>3, <3>4, <3>5, <3>6 DEF CertInv, KeptInv, ServedInv, OpInv
  <2> QED
    BY <1>4, <2>2, <2>3 DEF Commit, Fails
<1>5. CASE SyncPair
  <2> DEFINE next == IF certs.op.do = "ensure" THEN "live" ELSE "mark"
  <2>1. certs.op # None /\ certs.op.step = "sync" /\ next \in Steps
        /\ certs.op.do \in {"ensure", "install", "regenerate"}
        /\ next = IF certs.op.do = "ensure" THEN "live" ELSE "mark"
    BY <1>0, <1>5 DEF SyncPair, At, CertType, Ops, Steps
  <2> HIDE DEF next
  <2>2. CASE certs' = [certs EXCEPT !.left = [f \in Files |-> {certs.disk[f]}], !.op.step = next]
    <3>1. /\ certs'.disk = certs.disk /\ certs'.left = [f \in Files |-> {certs.disk[f]}] /\ certs'.live = certs.live
              /\ certs'.managed = certs.managed /\ certs'.op = [certs.op EXCEPT !.step = next] /\ certs'.torn = certs.torn /\ certs'.kept = certs.kept
      BY <1>0, <2>2 DEF CertType
    <3>2. certs'.op.step = next /\ certs'.op.do = certs.op.do /\ certs'.op.pair = certs.op.pair
          /\ certs'.op \in Ops
      BY <1>0, <2>1, <3>1, NextStep DEF Steps
    <3>3. \A f \in Files : certs'.left[f] = {certs'.disk[f]}
      BY <1>0, <3>1
    <3>4. CertType'
      <4>1. /\ certs'.left \in [Files -> SUBSET (Pairs \cup {None} \cup BOOLEAN)]
            /\ \A f \in Files : certs'.disk[f] \in Holdable(f) /\ certs'.left[f] \subseteq Holdable(f)
        BY <1>0, <3>1, <3>3 DEF CertType
      <4> QED
        BY <1>0, <2>2, <3>1, <3>2, <4>1 DEF CertType
    <3> QED
      BY ZenonT(60), <1>0, <2>1, <3>1, <3>2, <3>3, <3>4 DEF CertInv, KeptInv, ServedInv, OpInv
  <2> QED
    BY <1>5, <2>2 DEF SyncPair, next
<1>6. CASE Mark
  <2> DEFINE next == IF certs.op.do = "ensure" THEN "stage" ELSE "live"
             pin == certs.op.do = "install"
  <2>0. pin \in BOOLEAN /\ (certs.op.do = "install" => pin = TRUE)
    OBVIOUS
  <2>1. certs.op # None /\ certs.op.step = "mark" /\ next \in Steps
        /\ certs.op.do \in {"ensure", "install", "regenerate"}
        /\ next = IF certs.op.do = "ensure" THEN "stage" ELSE "live"
    BY <1>0, <1>6 DEF Mark, At, CertType, Ops, Steps
  <2> HIDE DEF next, pin
  <2>2. CASE certs' = [certs EXCEPT !.op = None]
    <3>1. /\ certs'.disk = certs.disk /\ certs'.left = certs.left /\ certs'.live = certs.live
              /\ certs'.managed = certs.managed /\ certs'.op = None /\ certs'.torn = certs.torn /\ certs'.kept = certs.kept
      BY <1>0, <2>2 DEF CertType
    <3>2. CertType'
      BY <1>0, <2>2, <3>1 DEF CertType
    <3> QED
      BY <1>0, <2>1, <3>1, <3>2 DEF CertInv, KeptInv, ServedInv, OpInv
  <2>3. CASE certs.op.do = "ensure" /\ certs' = [certs EXCEPT !.op.step = next]
    <3>1. /\ certs'.disk = certs.disk /\ certs'.left = certs.left /\ certs'.live = certs.live
              /\ certs'.managed = certs.managed /\ certs'.op = [certs.op EXCEPT !.step = next] /\ certs'.torn = certs.torn /\ certs'.kept = certs.kept
      BY <1>0, <2>3 DEF CertType
    <3>2. certs'.op.step = next /\ certs'.op.do = certs.op.do /\ certs'.op.pair = certs.op.pair
          /\ certs'.op \in Ops
      BY <1>0, <2>1, <3>1, NextStep DEF Steps
    <3>3. CertType'
      BY <1>0, <2>3, <3>1, <3>2 DEF CertType
    <3>4. KeptInv' /\ ServedInv'
      BY <1>0, <3>1 DEF KeptInv, ServedInv
    <3>5. certs'.op.do = "ensure" /\ certs'.op.step = "stage"
      BY <2>1, <2>3, <3>2
    <3>6. OpInv'
      BY <1>0, <2>1, <2>3, <3>1, <3>5 DEF OpInv
    <3> QED
      BY <3>3, <3>4, <3>6 DEF CertInv
  <2>4. CASE certs' = [certs EXCEPT !.disk["pin"] = pin, !.left["pin"] = {pin}, !.fault = @ \ {"pin"}, !.op.step = next]
    <3>1. /\ certs'.disk = [certs.disk EXCEPT !["pin"] = pin] /\ certs'.left = [certs.left EXCEPT !["pin"] = {pin}] /\ certs'.live = certs.live
              /\ certs'.managed = certs.managed /\ certs'.op = [certs.op EXCEPT !.step = next] /\ certs'.torn = certs.torn /\ certs'.kept = certs.kept
      BY <1>0, <2>4 DEF CertType
    <3>2. certs'.op.step = next /\ certs'.op.do = certs.op.do /\ certs'.op.pair = certs.op.pair
          /\ certs'.op \in Ops
      BY <1>0, <2>1, <3>1, NextStep DEF Steps
    <3>3. /\ certs'.disk["pin"] = pin /\ certs'.left["pin"] = {pin}
          /\ \A f \in {"cert", "key"} : certs'.disk[f] = certs.disk[f] /\ certs'.left[f] = certs.left[f]
      BY <1>0, <3>1 DEF CertType
    <3>4. CertType'
      <4>1. /\ certs'.disk \in [Files -> Pairs \cup {None} \cup BOOLEAN]
            /\ certs'.left \in [Files -> SUBSET (Pairs \cup {None} \cup BOOLEAN)]
        BY <1>0, <2>0, <3>1 DEF CertType
      <4>2. \A f \in Files : certs'.disk[f] \in Holdable(f) /\ certs'.left[f] \subseteq Holdable(f)
        BY <1>0, <2>0, <3>3 DEF CertType, Holdable, Files
      <4> QED
        BY <1>0, <2>4, <3>1, <3>2, <4>1, <4>2 DEF CertType
    <3>5. certs.kept = None /\ (certs.live = None \/ certs.torn)
      BY <1>0, <2>1 DEF OpInv
    <3>6. KeptInv' /\ ServedInv'
      BY <3>1, <3>5 DEF KeptInv, ServedInv
    <3>7. OpInv'
      <4>1. CASE certs.op.do = "ensure"
        BY <1>0, <2>1, <3>1, <3>2, <4>1 DEF OpInv
      <4>2. CASE certs.op.do # "ensure"
        <5>1. /\ certs'.op.step = "live" /\ certs.torn
              /\ certs.disk["cert"] = certs.op.pair /\ certs.disk["key"] = certs.op.pair
              /\ certs.op.do = "install" => \A f \in {"cert", "key"} : certs.left[f] = {certs.disk[f]}
          BY <1>0, <2>1, <3>2, <4>2 DEF OpInv
        <5>2. certs.op.do = "install" => pin = TRUE
          BY <2>0
        <5>3. certs.op.do = "install" => certs'.disk["pin"] = TRUE /\ certs'.left["pin"] = {TRUE}
          BY <3>3, <5>2
        <5>4. /\ certs'.torn /\ certs'.kept = None
              /\ certs'.disk["cert"] = certs'.op.pair /\ certs'.disk["key"] = certs'.op.pair
              /\ certs.op.do = "install" => \A f \in {"cert", "key"} : certs'.left[f] = {certs'.disk[f]}
          BY <3>1, <3>2, <3>3, <3>5, <5>1
        <5> QED
          BY <3>2, <4>2, <5>1, <5>3, <5>4 DEF OpInv
      <4> QED
        BY <4>1, <4>2
    <3> QED
      BY <3>4, <3>6, <3>7 DEF CertInv
  <2> QED
    BY <1>6, <2>2, <2>3, <2>4 DEF Mark, Fails, next, pin
<1>7. CASE Live
  <2> DEFINE kept == IF certs.op.do = "install" THEN certs.op.pair.id ELSE certs.kept
  <2>1. /\ certs.op # None /\ certs.op.step = "live" /\ certs.op.pair \in Pairs /\ certs.op.pair # None
        /\ certs.op.pair.id \in Nat
        /\ certs.op.do \in {"ensure", "install", "regenerate"}
    BY <1>0, <1>7, NamesAssumption DEF Live, At, CertType, Ops, Pairs
  <2>2. certs.kept = None
    BY <1>0, <2>1 DEF OpInv
  <2>3. certs' = [certs EXCEPT !.live = certs.op.pair, !.managed = ~Pinned, !.op = None, !.torn = FALSE, !.kept = kept]
    BY <1>0, <1>7 DEF Live, SetCertificate, CertType
  <2>4. Pinned \in BOOLEAN /\ (~Pinned => ~certs.disk["pin"]) /\ kept \in Nat \cup {None}
        /\ (kept # None => certs.op.do = "install" /\ kept = certs.op.pair.id)
    BY <1>0, <2>1, <2>2 DEF Pinned
  <2> HIDE DEF kept
  <2> DEFINE managed == ~Pinned
  <2>5. managed \in BOOLEAN /\ (managed => ~certs.disk["pin"])
    BY <2>4
  <2>6. certs' = [certs EXCEPT !.live = certs.op.pair, !.managed = managed, !.op = None, !.torn = FALSE, !.kept = kept]
    BY <2>3
  <2> HIDE DEF managed
  <2>7. /\ certs'.disk = certs.disk /\ certs'.left = certs.left /\ certs'.live = certs.op.pair
        /\ certs'.managed = managed /\ certs'.op = None /\ certs'.torn = FALSE /\ certs'.kept = kept
    BY <1>0, <2>6 DEF CertType
  <2>8. CertType'
    BY <1>0, <2>1, <2>4, <2>5, <2>6, <2>7 DEF CertType
  <2>9. certs.disk["cert"] = certs.op.pair /\ certs.disk["key"] = certs.op.pair
    BY <1>0, <2>1 DEF OpInv
  <2>10. KeptInv'
    <3>1. kept # None => /\ certs.disk["pin"] = TRUE /\ certs.left["pin"] = {TRUE}
                         /\ \A f \in {"cert", "key"} : certs.left[f] = {certs.disk[f]}
      BY <1>0, <2>1, <2>4 DEF OpInv
    <3> QED
      BY <2>1, <2>4, <2>7, <2>9, <3>1 DEF KeptInv, Files
  <2>11. ServedInv' /\ OpInv'
    BY <2>5, <2>7, <2>9 DEF ServedInv, OpInv
  <2> QED
    BY <2>8, <2>10, <2>11 DEF CertInv
<1>8. ASSUME certs.op = None, NEW do \in {"ensure", "install", "regenerate"}, NEW step \in {"mark", "stage"},
             NEW pair \in Pairs, Begins(do, step, pair),
             do = "ensure" => certs.live = None /\ certs.kept = None,
             do # "ensure" => step = "stage"
      PROVE  CertInv'
  <2> DEFINE op == [do |-> do, step |-> step, pair |-> pair]
  <2>1. op \in Ops /\ op.do = do /\ op.step = step /\ op.pair = pair
    BY DEF Ops, Steps
  <2>2. certs' = [certs EXCEPT !.op = op, !.ids = @ + 1]
    BY <1>8 DEF Begins
  <2> HIDE DEF op
  <2>3. /\ certs'.disk = certs.disk /\ certs'.left = certs.left /\ certs'.live = certs.live
        /\ certs'.managed = certs.managed /\ certs'.op = op /\ certs'.torn = certs.torn /\ certs'.kept = certs.kept
    BY <1>0, <2>2 DEF CertType
  <2>4. CertType'
    <3>1. certs.ids + 1 \in Nat
      BY <1>0, CertParts
    <3> QED
      BY <1>0, <2>1, <2>2, <2>3, <3>1 DEF CertType
  <2>5. KeptInv' /\ ServedInv'
    BY <1>0, <2>3 DEF KeptInv, ServedInv
  <2>6. OpInv'
    BY <1>8, <2>1, <2>3 DEF OpInv
  <2> QED
    BY <2>4, <2>5, <2>6 DEF CertInv
<1>9. CASE Ensure
  <2>1. certs.op = None /\ certs.live = None /\ ~ReadFault
    BY <1>9 DEF Ensure
  <2>2. certs.kept # None => Loads /\ Pinned
    BY <1>0, <2>1 DEF KeptInv, Loads, Pinned, ReadFault
  <2>3. CASE certs' = SetCertificate(certs, certs.disk["cert"]) /\ Loads
    <3> DEFINE managed == ~Pinned
    <3>1. certs' = [certs EXCEPT !.live = certs.disk["cert"], !.managed = managed, !.op = None, !.torn = FALSE]
      BY <2>3 DEF SetCertificate
    <3>2. managed \in BOOLEAN /\ (managed => ~certs.disk["pin"])
      BY <1>0 DEF Pinned
    <3> HIDE DEF managed
    <3>3. /\ certs'.disk = certs.disk /\ certs'.left = certs.left /\ certs'.live = certs.disk["cert"]
          /\ certs'.managed = managed /\ certs'.op = None /\ certs'.torn = FALSE /\ certs'.kept = certs.kept
      BY <1>0, <3>1 DEF CertType
    <3>4. certs.disk["cert"] = certs.disk["key"] /\ certs.disk["cert"] \in Pairs \cup {None}
      BY <1>0, <2>3, CertParts DEF Loads
    <3>5. CertType'
      BY <1>0, <3>1, <3>2, <3>3, <3>4 DEF CertType
    <3>6. KeptInv'
      BY <1>0, <3>3 DEF KeptInv
    <3>7. ServedInv' /\ OpInv'
      BY <3>2, <3>3, <3>4 DEF ServedInv, OpInv
    <3> QED
      BY <3>5, <3>6, <3>7 DEF CertInv
  <2>4. CASE Begins("ensure", IF Pinned THEN "mark" ELSE "stage", Generate(CarryForward)) /\ ~(Loads /\ Pinned)
    <3>1. CarryForward \in SUBSET ((UNION Names) \cup ExtraNames)
      <4>1. certs.names \in SUBSET (UNION Names)
        BY <1>0, CertParts
      <4>2. CASE Loads
        <5>1. certs.disk["cert"] \in Pairs
          BY <1>0, <4>2, CertParts DEF Loads
        <5> QED
          BY <4>1, <5>1 DEF CarryForward, Pairs
      <4>3. CASE ~Loads
        BY <4>1, <4>3 DEF CarryForward
      <4> QED
        BY <4>2, <4>3
    <3>2. Generate(CarryForward) \in Pairs
      BY <1>0, <3>1, PairMade DEF Generate
    <3>3. (IF Pinned THEN "mark" ELSE "stage") \in {"mark", "stage"}
      OBVIOUS
    <3> QED
      BY <1>8, <2>1, <2>2, <2>4, <3>2, <3>3
  <2> QED
    BY <1>9, <2>3, <2>4 DEF Ensure
<1>10. CASE Install
  <2>1. certs.op = None
    BY <1>10 DEF Install
  <2>2. PICK u \in Uploads : Begins("install", "stage", Pair("operator", u.sans))
    BY <1>10 DEF Install
  <2>3. Pair("operator", u.sans) \in Pairs
    <3>1. u.sans \in SUBSET ExtraNames
      BY DEF Uploads
    <3>2. u.sans \in SUBSET ((UNION Names) \cup ExtraNames)
      BY <3>1
    <3> QED
      BY <1>0, <3>2, PairMade
  <2> QED
    BY <1>8, <2>1, <2>2, <2>3
<1>11. CASE Regenerate
  <2>1. certs.op = None
    BY <1>11 DEF Regenerate
  <2>2. PICK extra \in SUBSET (ExtraNames \cup {"not a name"}) :
            ValidateHosts(extra) /\ Begins("regenerate", "stage", Generate(certs.names \cup extra))
    BY <1>11 DEF Regenerate
  <2>3. certs.names \cup extra \in SUBSET ((UNION Names) \cup ExtraNames)
    <3>1. extra \in SUBSET ExtraNames
      BY <2>2 DEF ValidateHosts
    <3>2. certs.names \in SUBSET (UNION Names)
      BY <1>0, CertParts
    <3> QED
      BY <3>1, <3>2
  <2>4. Generate(certs.names \cup extra) \in Pairs
    BY <1>0, <2>3, PairMade DEF Generate
  <2> QED
    BY <1>8, <2>1, <2>2, <2>4
<1>12. ASSUME NEW cut \in BOOLEAN, Ends(cut) PROVE CertInv'
  <2> DEFINE Left(f) == IF cut THEN certs.left[f] ELSE {certs.disk[f]}
  <2>1. PICK cert \in Left("cert"), key \in Left("key"), pin \in Left("pin") :
            LET disk == [cert |-> cert, key |-> key, pin |-> pin] IN
            certs' = [certs EXCEPT !.live = None, !.managed = FALSE, !.op = None, !.disk = disk,
                                   !.left = IF cut THEN [f \in Files |-> {disk[f]}] ELSE @]
    BY <1>12 DEF Ends
  <2> DEFINE disk == [cert |-> cert, key |-> key, pin |-> pin]
             leftNow == IF cut THEN [f \in Files |-> {disk[f]}] ELSE certs.left
  <2>2. certs' = [certs EXCEPT !.live = None, !.managed = FALSE, !.op = None, !.disk = disk, !.left = leftNow]
    BY <1>0, <2>1 DEF CertType
  <2>3. cert \in Holdable("cert") /\ key \in Holdable("key") /\ pin \in Holdable("pin")
    BY <1>0 DEF CertType
  <2>4. /\ disk["cert"] = cert /\ disk["key"] = key /\ disk["pin"] = pin
        /\ disk \in [Files -> Pairs \cup {None} \cup BOOLEAN]
        /\ \A f \in Files : disk[f] \in Holdable(f)
    BY <2>3 DEF Files, Holdable
  <2>5. certs.kept # None => cert = certs.disk["cert"] /\ key = certs.disk["key"] /\ pin = certs.disk["pin"]
    BY <1>0 DEF KeptInv
  <2> HIDE DEF disk
  <2>6. /\ leftNow \in [Files -> SUBSET (Pairs \cup {None} \cup BOOLEAN)]
        /\ \A f \in Files : leftNow[f] \subseteq Holdable(f)
        /\ certs.kept # None => \A f \in Files : leftNow[f] = {disk[f]}
    <3>1. CASE cut
      BY <2>4, <3>1
    <3>2. CASE ~cut
      <4>1. leftNow = certs.left
        BY <3>2
      <4>2. certs.kept # None => \A f \in Files : disk[f] = certs.disk[f]
        BY <2>4, <2>5 DEF Files
      <4> QED
        BY <1>0, <4>1, <4>2 DEF CertType, KeptInv
    <3> QED
      BY <3>1, <3>2
  <2> HIDE DEF leftNow
  <2>7. /\ certs'.disk = disk /\ certs'.left = leftNow /\ certs'.live = None
        /\ certs'.managed = FALSE /\ certs'.op = None /\ certs'.torn = certs.torn /\ certs'.kept = certs.kept
    BY <1>0, <2>2 DEF CertType
  <2>8. CertType'
    BY <1>0, <2>2, <2>4, <2>6, <2>7 DEF CertType
  <2>9. KeptInv'
    BY <1>0, <2>4, <2>5, <2>6, <2>7 DEF KeptInv
  <2>10. ServedInv' /\ OpInv'
    BY <2>7 DEF ServedInv, OpInv
  <2> QED
    BY <2>8, <2>9, <2>10 DEF CertInv
<1>13. ASSUME NEW fault \in SUBSET Files, NEW names \in SUBSET (UNION Names), NEW expired \in Nat,
              certs' = [certs EXCEPT !.fault = fault, !.names = names, !.expired = expired]
       PROVE  CertInv'
  <2>1. /\ certs'.disk = certs.disk /\ certs'.left = certs.left /\ certs'.live = certs.live
        /\ certs'.managed = certs.managed /\ certs'.op = certs.op /\ certs'.torn = certs.torn /\ certs'.kept = certs.kept
    BY <1>0, <1>13 DEF CertType
  <2>2. CertType'
    BY <1>0, <1>13, <2>1 DEF CertType
  <2> QED
    BY ZenonT(60), <1>0, <2>1, <2>2 DEF CertInv, KeptInv, ServedInv, OpInv
<1>14. CASE FileFaults
  <2>1. PICK fault \in SUBSET Files : certs' = [certs EXCEPT !.fault = fault]
    BY <1>14 DEF FileFaults
  <2>2. certs' = [certs EXCEPT !.fault = fault, !.names = certs.names, !.expired = certs.expired]
    BY <1>0, <2>1 DEF CertType
  <2> QED
    BY <1>0, <1>13, <2>2, CertParts
<1>15. CASE HostMoves
  <2>1. \/ \E names \in Names : certs' = [certs EXCEPT !.names = names]
        \/ certs' = [certs EXCEPT !.expired = certs.ids]
    BY <1>15 DEF HostMoves
  <2>2. CASE \E names \in Names : certs' = [certs EXCEPT !.names = names]
    <3>1. PICK names \in Names : certs' = [certs EXCEPT !.names = names]
      BY <2>2
    <3>2. certs' = [certs EXCEPT !.fault = certs.fault, !.names = names, !.expired = certs.expired]
      BY <1>0, <3>1 DEF CertType
    <3>3. names \in SUBSET (UNION Names)
      OBVIOUS
    <3> QED
      BY <1>0, <1>13, <3>2, <3>3, CertParts
  <2>3. CASE certs' = [certs EXCEPT !.expired = certs.ids]
    <3>1. certs' = [certs EXCEPT !.fault = certs.fault, !.names = certs.names, !.expired = certs.ids]
      BY <1>0, <2>3 DEF CertType
    <3> QED
      BY <1>0, <1>13, <3>1, CertParts
  <2> QED
    BY <2>1, <2>2, <2>3
<1> QED
  BY <1>1, <1>2, <1>3, <1>4, <1>5, <1>6, <1>7, <1>9, <1>10, <1>11, <1>12, <1>14, <1>15 DEF CertStep

\* The empty store.
LEMMA CertStart == CertInit => CertInv
<1> SUFFICES ASSUME CertInit PROVE CertInv
  OBVIOUS
<1>1. /\ certs.kept = None /\ certs.live = None /\ certs.op = None
      /\ certs.disk = [f \in Files |-> IF f = "pin" THEN FALSE ELSE None]
      /\ certs.left = [f \in Files |-> {IF f = "pin" THEN FALSE ELSE None}]
  BY DEF CertInit
<1>2. CertType
  <2>1. (CHOOSE n \in Names : TRUE) \in Names
    BY NamesAssumption
  <2>2. \A f \in Files : certs.disk[f] \in Holdable(f) /\ certs.left[f] \subseteq Holdable(f)
    <3> TAKE f \in Files
    <3>1. CASE f = "pin"
      <4>1. certs.disk[f] = FALSE /\ certs.left[f] = {FALSE} /\ Holdable(f) = BOOLEAN
        BY <1>1, <3>1 DEF Holdable
      <4> QED
        BY <4>1
    <3>2. CASE f # "pin"
      <4>1. certs.disk[f] = None /\ certs.left[f] = {None} /\ Holdable(f) = Pairs \cup {None}
        BY <1>1, <3>2 DEF Holdable
      <4> QED
        BY <4>1
    <3> QED
      BY <3>1, <3>2
  <2>3. /\ certs.disk \in [Files -> Pairs \cup {None} \cup BOOLEAN]
        /\ certs.left \in [Files -> SUBSET (Pairs \cup {None} \cup BOOLEAN)]
    BY <1>1
  <2>4. (CHOOSE n \in Names : TRUE) \in SUBSET (UNION Names)
    BY <2>1
  <2>5. certs \in [disk : [Files -> Pairs \cup {None} \cup BOOLEAN], left : [Files -> SUBSET (Pairs \cup {None} \cup BOOLEAN)],
                   fault : SUBSET Files, names : SUBSET (UNION Names), expired : Nat, ids : Nat,
                   live : Pairs \cup {None}, managed : BOOLEAN, op : Ops \cup {None},
                   torn : BOOLEAN, kept : Nat \cup {None}]
    <3> DEFINE n == CHOOSE n \in Names : TRUE
               D == certs.disk
               L == certs.left
    <3>1. certs = [disk |-> D, left |-> L, fault |-> {}, names |-> n, expired |-> 0, ids |-> 0, live |-> None,
                   managed |-> FALSE, op |-> None, torn |-> FALSE, kept |-> None]
      BY <1>1 DEF CertInit
    <3>2. n \in SUBSET (UNION Names) /\ D \in [Files -> Pairs \cup {None} \cup BOOLEAN]
          /\ L \in [Files -> SUBSET (Pairs \cup {None} \cup BOOLEAN)]
      BY <2>3, <2>4
    <3> HIDE DEF n, D, L
    <3> QED
      BY <3>1, <3>2
  <2> QED
    BY <2>2, <2>5 DEF CertType
<1> QED
  BY <1>1, <1>2 DEF CertInv, KeptInv, ServedInv, OpInv

\* A certificate an operator installed, once the request was answered, is on
\* disk and served after every restart, power cut, read fault, failed request,
\* address change and expiry, until a later rotation reaches the files
\* (internal/mgmtcert writePair and Ensure).
THEOREM InstalledIsKept == Spec => []CertificateKept
<1>1. Init => CertInv
  BY CertStart DEF Init
<1>2. CertInv /\ [Next]_vars => CertInv'
  <2> SUFFICES ASSUME CertInv, [Next]_vars PROVE CertInv'
    OBVIOUS
  <2>1. CASE CertStep
    BY <2>1, CertStepInv
  <2>2. CASE UNCHANGED certs
    BY <2>2 DEF CertInv, CertType, KeptInv, ServedInv, OpInv
  <2> QED
    BY <2>1, <2>2 DEF Next, vars, NotPage
<1>3. CertInv => CertificateKept
  <2> SUFFICES ASSUME CertInv PROVE CertificateKept
    OBVIOUS
  <2>1. "cert" \in Files /\ "key" \in Files
    BY DEF Files
  <2> QED
    BY <2>1 DEF CertInv, KeptInv, ServedInv, CertificateKept
<1> QED
  BY <1>1, <1>2, <1>3, PTL DEF Spec

-----------------------------------------------------------------------------
(* The channel probe *)

\* A goroutine has its capture's result on its way to the request.
Occupied(p) == p.st \in {"reading", "levels", "failed"}

\* The records a probe and a request are read and written by field.
ProbeType ==
    /\ DOMAIN job = Requesters /\ DOMAIN probe = Requesters
    /\ \A r \in Requesters : /\ "pc" \in DOMAIN job[r]
                             /\ {"st", "unit", "done"} \subseteq DOMAIN probe[r]

\* A goroutine that may still report has its request waiting for it, one that
\* holds a unit is past its open, and one goroutine at most is in an open.
ProbeInv ==
    /\ ProbeType
    /\ \A r \in Requesters :
          /\ (probe[r].st = "opening" /\ ~probe[r].done) \/ Occupied(probe[r]) => job[r].pc = "probing"
          /\ probe[r].unit # None => Occupied(probe[r])
    /\ \A q, r \in Requesters : probe[q].st = "opening" /\ probe[r].st = "opening" => q = r

\* A step that leaves the probes alone and no request that waits for one.
LEMMA JobsMove ==
    ASSUME ProbeInv, probe' = probe, DOMAIN job' = Requesters,
           \A r \in Requesters : /\ "pc" \in DOMAIN job'[r]
                                 /\ job[r].pc = "probing" => job'[r].pc = "probing"
    PROVE  ProbeInv'
<1>1. ProbeType'
  BY DEF ProbeInv, ProbeType
<1>2. \A r \in Requesters : probe'[r] = probe[r]
  OBVIOUS
<1> QED
  BY <1>1, <1>2 DEF ProbeInv, Occupied

\* One request that does not wait for a probe moves on.
LEMMA JobMoves ==
    ASSUME ProbeInv, probe' = probe, NEW r \in Requesters, job[r].pc # "probing",
           DOMAIN job' = Requesters, "pc" \in DOMAIN job'[r],
           \A q \in Requesters \ {r} : job'[q] = job[q]
    PROVE  ProbeInv'
<1>1. \A q \in Requesters : /\ "pc" \in DOMAIN job'[q]
                            /\ job[q].pc = "probing" => job'[q].pc = "probing"
  <2> TAKE q \in Requesters
  <2>1. CASE q = r
    BY <2>1
  <2>2. CASE q # r
    <3>1. job'[q] = job[q]
      BY <2>2
    <3> QED
      BY <3>1 DEF ProbeInv, ProbeType
  <2> QED
    BY <2>1, <2>2
<1> QED
  BY <1>1, JobsMove

\* An answered request is a record with its counter.
LEMMA ReplyMoves ==
    ASSUME ProbeInv, probe' = probe, NEW r \in Requesters, job[r].pc # "probing",
           NEW answer, Reply(r, answer)
    PROVE  ProbeInv'
<1>1. DOMAIN job' = Requesters /\ \A q \in Requesters \ {r} : job'[q] = job[q]
  BY DEF Reply, ProbeInv, ProbeType
<1>2. job'[r] = [NoJob EXCEPT !.answer = answer]
  BY DEF Reply, ProbeInv, ProbeType
<1>3. "pc" \in DOMAIN job'[r]
  BY <1>2 DEF NoJob
<1> QED
  BY <1>1, <1>3, JobMoves

\* A request that goes on, whatever it keeps of its record.
LEMMA GoesOn ==
    ASSUME ProbeInv, probe' = probe, NEW r \in Requesters, job[r].pc # "probing",
           NEW j, "pc" \in DOMAIN j, job' = [job EXCEPT ![r] = j]
    PROVE  ProbeInv'
<1>1. DOMAIN job' = Requesters /\ \A q \in Requesters \ {r} : job'[q] = job[q]
  BY DEF ProbeInv, ProbeType
<1>2. job'[r] = j
  BY DEF ProbeInv, ProbeType
<1> QED
  BY <1>1, <1>2, JobMoves

\* A step on the probe of one request alone.
LEMMA ProbeMoves ==
    ASSUME ProbeInv, NEW r \in Requesters, NEW j, NEW p, "pc" \in DOMAIN j,
           {"st", "unit", "done"} \subseteq DOMAIN p,
           job' = [job EXCEPT ![r] = j] \/ (job' = job /\ j = job[r]),
           probe' = [probe EXCEPT ![r] = p],
           (p.st = "opening" /\ ~p.done) \/ Occupied(p) => j.pc = "probing",
           p.unit # None => Occupied(p),
           p.st = "opening" => \A q \in Requesters \ {r} : probe[q].st # "opening"
    PROVE  ProbeInv'
<1>1. /\ DOMAIN job' = Requesters /\ DOMAIN probe' = Requesters
      /\ job'[r] = j /\ probe'[r] = p
      /\ \A q \in Requesters \ {r} : job'[q] = job[q] /\ probe'[q] = probe[q]
  BY DEF ProbeInv, ProbeType
<1>2. ProbeType'
  <2>1. \A q \in Requesters : "pc" \in DOMAIN job'[q] /\ {"st", "unit", "done"} \subseteq DOMAIN probe'[q]
    <3> TAKE q \in Requesters
    <3>1. CASE q = r
      BY <1>1, <3>1
    <3>2. CASE q # r
      <4>1. job'[q] = job[q] /\ probe'[q] = probe[q]
        BY <1>1, <3>2
      <4> QED
        BY <4>1 DEF ProbeInv, ProbeType
    <3> QED
      BY <3>1, <3>2
  <2> QED
    BY <1>1, <2>1 DEF ProbeType
<1>3. \A q \in Requesters :
         /\ (probe'[q].st = "opening" /\ ~probe'[q].done) \/ Occupied(probe'[q]) => job'[q].pc = "probing"
         /\ probe'[q].unit # None => Occupied(probe'[q])
  <2> TAKE q \in Requesters
  <2>1. CASE q = r
    BY <1>1, <2>1
  <2>2. CASE q # r
    <3>1. job'[q] = job[q] /\ probe'[q] = probe[q]
      BY <1>1, <2>2
    <3> QED
      BY <3>1 DEF ProbeInv
  <2> QED
    BY <2>1, <2>2
<1>4. \A q, s \in Requesters : probe'[q].st = "opening" /\ probe'[s].st = "opening" => q = s
  <2>1. \A q \in Requesters \ {r} : probe'[q].st = "opening" => p.st # "opening" /\ probe[q].st = "opening"
    BY <1>1
  <2> QED
    BY <1>1, <2>1 DEF ProbeInv
<1> QED
  BY <1>2, <1>3, <1>4 DEF ProbeInv, Occupied

\* Every step of the device list and its requests keeps the probes' invariant.
LEMMA ProbeStepInv ==
    ASSUME ProbeInv, ProvisioningStep
    PROVE  ProbeInv'
<1>0. ProbeType
  BY DEF ProbeInv
<1>1. ASSUME NEW r \in Requesters, AskProvision(r) PROVE ProbeInv'
  <2>1. job[r].pc # "probing" /\ probe' = probe
    BY <1>1 DEF AskProvision
  <2>2. CASE \E answer : Reply(r, answer)
    BY <2>1, <2>2, ReplyMoves
  <2>3. CASE \E j : job' = [job EXCEPT ![r] = j] /\ "pc" \in DOMAIN j
    BY <2>1, <2>3, GoesOn
  <2>4. (\E answer : Reply(r, answer)) \/ (\E j : job' = [job EXCEPT ![r] = j] /\ "pc" \in DOMAIN j)
    <3>1. PICK id \in Detected \cup {CardId(u) : u \in Here}, over \in Overrides :
            IF DetectedDevice(id) = {} THEN Reply(r, "gone")
            ELSE IF \E i \in DOMAIN saved : saved[i].id = id THEN Reply(r, "exists")
            ELSE IF Unavailable(id) # None THEN Reply(r, Unavailable(id))
            ELSE \E d \in DetectedDevice(id) :
                   job' = [job EXCEPT ![r] =
                    [NoJob EXCEPT !.pc = IF WantsProbe(d, over) THEN "probe" ELSE "lock", !.op = "provision",
                                  !.req = over, !.found = d, !.widths = ProbeWidths(d.channels), !.steady = ViewsCurrent]]
      BY <1>1 DEF AskProvision
    <3>2. ASSUME NEW d, NEW pc,
                 job' = [job EXCEPT ![r] =
                    [NoJob EXCEPT !.pc = pc, !.op = "provision",
                                  !.req = over, !.found = d, !.widths = ProbeWidths(d.channels), !.steady = ViewsCurrent]]
          PROVE  \E j : job' = [job EXCEPT ![r] = j] /\ "pc" \in DOMAIN j
      <4> DEFINE j == [NoJob EXCEPT !.pc = pc, !.op = "provision",
                                  !.req = over, !.found = d, !.widths = ProbeWidths(d.channels), !.steady = ViewsCurrent]
      <4>1. "pc" \in DOMAIN j
        <5>1. DOMAIN j = DOMAIN NoJob
          OBVIOUS
        <5> QED
          BY <5>1 DEF NoJob
      <4>2. job' = [job EXCEPT ![r] = j]
        BY <3>2
      <4> HIDE DEF j
      <4> QED
        BY <4>1, <4>2
    <3> QED
      BY <3>1, <3>2
  <2> QED
    BY <2>2, <2>3, <2>4
<1>2. ASSUME NEW r \in Requesters, AskPatch(r) \/ AskDelete(r) PROVE ProbeInv'
  <2>1. job[r].pc # "probing" /\ probe' = probe
    BY <1>2 DEF AskPatch, AskDelete
  <2>2. \E op, req : job' = [job EXCEPT ![r] = [NoJob EXCEPT !.pc = "lock", !.op = op, !.req = req]]
    BY <1>2 DEF AskPatch, AskDelete
  <2>3. PICK op, req : job' = [job EXCEPT ![r] = [NoJob EXCEPT !.pc = "lock", !.op = op, !.req = req]]
    BY <2>2
  <2>4. "pc" \in DOMAIN [NoJob EXCEPT !.pc = "lock", !.op = op, !.req = req]
    BY DEF NoJob
  <2> QED
    BY <2>1, <2>3, <2>4, GoesOn
<1>3. ASSUME NEW r \in Requesters, StartProbe(r) PROVE ProbeInv'
  <2>1. job[r].pc = "probe"
    BY <1>3 DEF StartProbe
  <2>2. CASE job[r].widths = {} \/ SlotTaken
    <3>1. job' = [job EXCEPT ![r].pc = "lock"] /\ probe' = probe
      BY <1>3, <2>2 DEF StartProbe
    <3>2. job' = [job EXCEPT ![r] = [job[r] EXCEPT !.pc = "lock"]]
      BY <3>1
    <3>3. "pc" \in DOMAIN [job[r] EXCEPT !.pc = "lock"]
      BY <1>0 DEF ProbeType
    <3> QED
      BY <2>1, <3>1, <3>2, <3>3, GoesOn
  <2>3. CASE ~(job[r].widths = {} \/ SlotTaken)
    <3> DEFINE p == OpenProbe(job[r].found, job[r].req, Max(job[r].widths))
               j == [job[r] EXCEPT !.pc = "probing", !.widths = job[r].widths \ {Max(job[r].widths)}]
    <3>1. probe' = [probe EXCEPT ![r] = p]
      BY <1>3, <2>3 DEF StartProbe
    <3>2. job' = [job EXCEPT ![r] = j]
      BY <1>3, <2>3 DEF StartProbe
    <3>3. "pc" \in DOMAIN j /\ j.pc = "probing"
      BY <1>0 DEF ProbeType
    <3>4. {"st", "unit", "done"} \subseteq DOMAIN p /\ p.st = "opening" /\ p.unit = None
      BY DEF OpenProbe, NoProbe
    <3>5. \A q \in Requesters : probe[q].st # "opening"
      BY <2>3 DEF SlotTaken
    <3> HIDE DEF p, j
    <3> QED
      BY <3>1, <3>2, <3>3, <3>4, <3>5, ProbeMoves
  <2> QED
    BY <2>2, <2>3
<1>4. ASSUME NEW r \in Requesters, NEW p, job' = job, probe' = [probe EXCEPT ![r] = p],
             {"st", "unit", "done"} \subseteq DOMAIN p, p.st # "opening",
             Occupied(p) => job[r].pc = "probing", p.unit # None => Occupied(p)
      PROVE  ProbeInv'
  <2>1. "pc" \in DOMAIN job[r]
    BY <1>0 DEF ProbeType
  <2> QED
    BY <1>4, <2>1, ProbeMoves
<1>5. {"st", "unit", "done"} \subseteq DOMAIN NoProbe /\ NoProbe.st = "none" /\ NoProbe.unit = None /\ ~Occupied(NoProbe)
  BY DEF NoProbe, Occupied
<1>6. ASSUME NEW r \in Requesters, OpenReturns(r) PROVE ProbeInv'
  <2>1. probe[r].st = "opening" /\ job' = job /\ {"st", "unit", "done"} \subseteq DOMAIN probe[r]
        /\ probe[r].unit = None
    BY <1>0, <1>6 DEF OpenReturns, ProbeType, ProbeInv, Occupied
  <2>2. CASE \E u \in Here : probe' = [probe EXCEPT ![r] = Opened(probe[r], u)]
    <3>1. PICK u \in Here : probe' = [probe EXCEPT ![r] = Opened(probe[r], u)]
      BY <2>2
    <3>2. CASE probe[r].done
      BY <1>4, <1>5, <2>1, <3>1, <3>2 DEF Opened
    <3>3. CASE ~probe[r].done
      <4> DEFINE p == [probe[r] EXCEPT !.st = "reading", !.unit = u]
      <4>1. {"st", "unit", "done"} \subseteq DOMAIN p /\ p.st = "reading" /\ Occupied(p)
        BY <2>1 DEF Occupied
      <4>2. job[r].pc = "probing"
        BY <2>1, <3>3 DEF ProbeInv
      <4>3. probe' = [probe EXCEPT ![r] = p]
        BY <3>1, <3>3 DEF Opened
      <4> HIDE DEF p
      <4> QED
        BY <1>4, <2>1, <4>1, <4>2, <4>3
    <3> QED
      BY <3>2, <3>3
  <2>3. CASE probe' = [probe EXCEPT ![r] = IF probe[r].done THEN NoProbe ELSE [probe[r] EXCEPT !.st = "failed"]]
    <3>2. CASE probe[r].done
      BY <1>4, <1>5, <2>1, <2>3, <3>2
    <3>3. CASE ~probe[r].done
      <4> DEFINE p == [probe[r] EXCEPT !.st = "failed"]
      <4>1. {"st", "unit", "done"} \subseteq DOMAIN p /\ p.st = "failed" /\ Occupied(p)
        BY <2>1 DEF Occupied
      <4>2. job[r].pc = "probing"
        BY <2>1, <3>3 DEF ProbeInv
      <4>3. probe' = [probe EXCEPT ![r] = p]
        BY <2>3, <3>3
      <4> HIDE DEF p
      <4> QED
        BY <1>4, <2>1, <4>1, <4>2, <4>3
    <3> QED
      BY <3>2, <3>3
  <2> QED
    BY <1>6, <2>2, <2>3 DEF OpenReturns
<1>7. ASSUME NEW r \in Requesters, ProbeReads(r) PROVE ProbeInv'
  <2>1. PICK st \in {"levels", "failed"} : probe' = [probe EXCEPT ![r].st = st]
    BY <1>7 DEF ProbeReads
  <2> DEFINE p == [probe[r] EXCEPT !.st = st]
  <2>2. {"st", "unit", "done"} \subseteq DOMAIN p /\ p.st = st /\ Occupied(p)
    BY <1>0 DEF ProbeType, Occupied
  <2>3. job[r].pc = "probing" /\ job' = job
    BY <1>7 DEF ProbeReads, ProbeInv, Occupied
  <2>4. probe' = [probe EXCEPT ![r] = p]
    BY <2>1
  <2> HIDE DEF p
  <2> QED
    BY <1>4, <2>2, <2>3, <2>4
<1>8. ASSUME NEW r \in Requesters, ProbeResult(r) PROVE ProbeInv'
  <2>1. probe' = [probe EXCEPT ![r] = NoProbe]
    BY <1>8 DEF ProbeResult
  <2>2. CASE probe[r].st = "failed"
    <3>1. PICK pc \in {"probe", "lock"} : job' = [job EXCEPT ![r].pc = pc]
      BY <1>8, <2>2 DEF ProbeResult
    <3>2. job' = [job EXCEPT ![r] = [job[r] EXCEPT !.pc = pc]] /\ "pc" \in DOMAIN [job[r] EXCEPT !.pc = pc]
      BY <1>0, <3>1 DEF ProbeType
    <3> QED
      BY <1>5, <2>1, <3>2, ProbeMoves
  <2>3. CASE probe[r].st # "failed"
    <3>1. PICK levels \in [1..probe[r].width -> MeasuredLevels] :
            job' = [job EXCEPT ![r].pc = "lock", ![r].preferred = LoudestChannel(levels)]
      BY <1>8, <2>3 DEF ProbeResult
    <3> DEFINE j == [job[r] EXCEPT !.pc = "lock", !.preferred = LoudestChannel(levels)]
    <3>2. job' = [job EXCEPT ![r] = j]
      BY <3>1
    <3>3. "pc" \in DOMAIN j
      BY <1>0 DEF ProbeType
    <3> HIDE DEF j
    <3> QED
      BY <1>5, <2>1, <3>2, <3>3, ProbeMoves
  <2> QED
    BY <2>2, <2>3
<1>9. ASSUME NEW r \in Requesters, ProbeCancelled(r) PROVE ProbeInv'
  <2>1. /\ probe' = [probe EXCEPT ![r] = IF probe[r].st = "opening" THEN [probe[r] EXCEPT !.done = TRUE] ELSE NoProbe]
        /\ job' = [job EXCEPT ![r] = [job[r] EXCEPT !.pc = "lock"]]
        /\ "pc" \in DOMAIN [job[r] EXCEPT !.pc = "lock"]
    BY <1>0, <1>9 DEF ProbeCancelled, ProbeType
  <2>2. CASE probe[r].st = "opening"
    <3> DEFINE p == [probe[r] EXCEPT !.done = TRUE]
    <3>1. /\ {"st", "unit", "done"} \subseteq DOMAIN p /\ p.st = "opening" /\ p.done /\ p.unit = probe[r].unit
      BY <1>0, <2>2 DEF ProbeType
    <3>2. ~Occupied(p) /\ p.unit = None
      BY <2>2, <3>1 DEF ProbeInv, Occupied
    <3>3. \A q \in Requesters \ {r} : probe[q].st # "opening"
      BY <2>2 DEF ProbeInv
    <3>4. probe' = [probe EXCEPT ![r] = p]
      BY <2>1, <2>2
    <3> HIDE DEF p
    <3> QED
      BY <2>1, <3>1, <3>2, <3>3, <3>4, ProbeMoves
  <2>3. CASE probe[r].st # "opening"
    <3>1. probe' = [probe EXCEPT ![r] = NoProbe]
      BY <2>1, <2>3
    <3> QED
      BY <1>5, <2>1, <3>1, ProbeMoves
  <2> QED
    BY <2>2, <2>3
<1>10. ASSUME NEW r \in Requesters, job[r].pc # "probing", probe' = probe, NEW pc, NEW steady,
              job' = [job EXCEPT ![r].pc = pc, ![r].steady = steady]
       PROVE  ProbeInv'
  <2> DEFINE j == [job[r] EXCEPT !.pc = pc, !.steady = steady]
  <2>1. job' = [job EXCEPT ![r] = j] /\ "pc" \in DOMAIN j
    BY <1>0, <1>10 DEF ProbeType
  <2> HIDE DEF j
  <2> QED
    BY <1>10, <2>1, GoesOn
<1>11. ASSUME NEW r \in Requesters, job[r].pc # "probing", probe' = probe, NEW pc,
              job' = [job EXCEPT ![r].pc = pc]
       PROVE  ProbeInv'
  <2>1. job' = [job EXCEPT ![r] = [job[r] EXCEPT !.pc = pc]] /\ "pc" \in DOMAIN [job[r] EXCEPT !.pc = pc]
    BY <1>0, <1>11 DEF ProbeType
  <2> QED
    BY <1>11, <2>1, GoesOn
<1>12. ASSUME NEW r \in Requesters, Lock(r) PROVE ProbeInv'
  <2>1. job[r].pc # "probing" /\ probe' = probe
    BY <1>12 DEF Lock
  <2>2. (\E pc : job' = [job EXCEPT ![r].pc = pc]) \/ Reply(r, "cancelled")
    BY <1>12 DEF Lock
  <2> QED
    BY <1>11, <2>1, <2>2, ReplyMoves
<1>13. ASSUME NEW r \in Requesters, Recheck(r) PROVE ProbeInv'
  <2>1. job[r].pc # "probing" /\ probe' = probe
    BY <1>13 DEF Recheck
  <2>2. CASE Unavailable(job[r].found.id) # None
    <3>1. Reply(r, Unavailable(job[r].found.id))
      BY <1>13, <2>2 DEF Recheck
    <3> QED
      BY <2>1, <3>1, ReplyMoves
  <2>3. CASE Unavailable(job[r].found.id) = None
    <3>1. job' = [job EXCEPT ![r].pc = "update", ![r].steady = job[r].steady /\ ViewsCurrent /\ ~left]
      BY <1>13, <2>3 DEF Recheck
    <3> QED
      BY <1>10, <2>1, <3>1
  <2> QED
    BY <2>2, <2>3
<1>14. ASSUME NEW r \in Requesters, UpdateStore(r) PROVE ProbeInv'
  <2>1. job[r].pc # "probing" /\ probe' = probe
    BY <1>14 DEF UpdateStore
  <2>2. ASSUME NEW devs, NEW valid, Persist(r, devs, valid)
        PROVE  (\E answer : Reply(r, answer)) \/ job' = [job EXCEPT ![r].pc = "reload"]
    BY <2>2 DEF Persist
  <2>3. (\E answer : Reply(r, answer)) \/ job' = [job EXCEPT ![r].pc = "reload"]
    <3>1. CASE UpdateProvision(r)
      BY <2>2, <3>1 DEF UpdateProvision
    <3>2. CASE UpdatePatch(r)
      BY <2>2, <3>2 DEF UpdatePatch
    <3>3. CASE UpdateDelete(r)
      BY <2>2, <3>3 DEF UpdateDelete
    <3> QED
      BY <1>14, <3>1, <3>2, <3>3 DEF UpdateStore
  <2> QED
    BY <1>11, <2>1, <2>3, ReplyMoves
<1>15. ASSUME NEW r \in Requesters, HandOver(r) PROVE ProbeInv'
  <2>1. job[r].pc # "probing" /\ probe' = probe /\ job' = [job EXCEPT ![r].pc = "wait"]
    BY <1>15 DEF HandOver
  <2> QED
    BY <1>11, <2>1
<1>16. ASSUME NEW r \in Requesters, ClientLeaves(r) PROVE ProbeInv'
  <2>1. probe' = probe /\ job' = [job EXCEPT ![r] = [job[r] EXCEPT !.gone = TRUE]]
    BY <1>16 DEF ClientLeaves
  <2>2. [job[r] EXCEPT !.gone = TRUE].pc = job[r].pc /\ "pc" \in DOMAIN [job[r] EXCEPT !.gone = TRUE]
    BY <1>0 DEF ProbeType
  <2>3. DOMAIN job' = Requesters /\ \A q \in Requesters : "pc" \in DOMAIN job'[q] /\ job'[q].pc = job[q].pc
    BY <1>0, <2>1, <2>2 DEF ProbeType
  <2> QED
    BY <2>1, <2>3, JobsMove
<1>17. ASSUME NEW r \in Requesters, GivesUp(r) PROVE ProbeInv'
  <2>1. job[r].pc # "probing" /\ probe' = probe /\ Reply(r, "left")
    BY <1>17 DEF GivesUp
  <2> QED
    BY <2>1, ReplyMoves
<1>18. CASE ReconcileDone
  <2>1. /\ probe' = probe
        /\ job' = [r \in Requesters |-> IF r = running.todo.for /\ job[r].pc = "wait" THEN [NoJob EXCEPT !.answer = "ok"] ELSE job[r]]
    BY <1>18 DEF ReconcileDone
  <2>2. "pc" \in DOMAIN [NoJob EXCEPT !.answer = "ok"]
    BY DEF NoJob
  <2>3. DOMAIN job' = Requesters
        /\ \A r \in Requesters : /\ "pc" \in DOMAIN job'[r]
                                 /\ job[r].pc = "probing" => job'[r].pc = "probing"
    BY <1>0, <2>1, <2>2 DEF ProbeType
  <2> QED
    BY <2>1, <2>3, JobsMove
<1>19. CASE PlugIn \/ PullOut
  <2>1. probe' = probe /\ job' = Unsteady
    BY <1>19 DEF PlugIn, PullOut
  <2>2. \A r \in Requesters : /\ "pc" \in DOMAIN [job[r] EXCEPT !.steady = FALSE]
                              /\ [job[r] EXCEPT !.steady = FALSE].pc = job[r].pc
    BY <1>0 DEF ProbeType
  <2>3. DOMAIN job' = Requesters
        /\ \A r \in Requesters : "pc" \in DOMAIN job'[r] /\ job'[r].pc = job[r].pc
    BY <2>1, <2>2 DEF Unsteady
  <2> QED
    BY <2>1, <2>3, JobsMove
<1>20. CASE RetryRefreshes \/ Detect \/ SetDetected
  <2>1. probe' = probe /\ job' = job
    BY <1>20 DEF RetryRefreshes, Detect, SetDetected
  <2> QED
    BY <1>0, <2>1, JobsMove DEF ProbeType
<1> QED
  BY <1>1, <1>2, <1>3, <1>6, <1>7, <1>8, <1>9, <1>12, <1>13, <1>14, <1>15, <1>16, <1>17, <1>18, <1>19, <1>20
  DEF ProvisioningStep

\* A request past its probe has no capture open that would keep the appliance
\* from the device, whichever of the open, the read, the budget and the client
\* ended first; one goroutine at most is stuck in an open (probeOpenSlot and
\* probeChannelLevels in cmd/remotemic/channel_probe.go).
THEOREM NoCaptureLeftOpen == Spec => []ProbeOutOfTheWay
<1>1. Init => ProbeInv
  <2> SUFFICES ASSUME Init PROVE ProbeInv
    OBVIOUS
  <2>1. job = [r \in Requesters |-> NoJob] /\ probe = [r \in Requesters |-> NoProbe]
    BY DEF Init, ProvisioningInit
  <2>2. "pc" \in DOMAIN NoJob /\ {"st", "unit", "done"} \subseteq DOMAIN NoProbe /\ NoProbe.st = "none" /\ NoProbe.unit = None
    BY DEF NoJob, NoProbe
  <2> QED
    BY <2>1, <2>2 DEF ProbeInv, ProbeType, Occupied
<1>2. ProbeInv /\ [Next]_vars => ProbeInv'
  <2> SUFFICES ASSUME ProbeInv, [Next]_vars PROVE ProbeInv'
    OBVIOUS
  <2>1. CASE ProvisioningStep
    BY <2>1, ProbeStepInv
  <2>2. CASE UNCHANGED provisioningVars
    <3>1. job' = job /\ probe' = probe
      BY <2>2 DEF provisioningVars
    <3> QED
      BY <3>1 DEF ProbeInv, ProbeType, Occupied
  <2> QED
    BY <2>1, <2>2 DEF Next, vars, NotPage
<1>3. ProbeInv => ProbeOutOfTheWay
  <2> SUFFICES ASSUME ProbeInv PROVE ProbeOutOfTheWay
    OBVIOUS
  <2> DEFINE S == {r \in Requesters : probe[r].st = "opening"}
  <2>1. \A r \in Requesters : job[r].pc # "probing" => probe[r].unit = None
    BY DEF ProbeInv
  <2>2. Cardinality(S) <= 1
    <3>1. CASE S = {}
      BY <3>1, FS_EmptySet
    <3>2. CASE S # {}
      <4>1. PICK r : r \in S
        BY <3>2
      <4>2. S = {r}
        <5>1. \A q \in S : q = r
          BY <4>1 DEF ProbeInv
        <5> HIDE DEF S
        <5> QED
          BY <4>1, <5>1
      <4>3. Cardinality({r}) = 1
        BY FS_Singleton
      <4> HIDE DEF S
      <4> QED
        BY <4>2, <4>3
    <3> QED
      BY <3>1, <3>2
  <2> QED
    BY <2>1, <2>2 DEF ProbeOutOfTheWay
<1> QED
  BY <1>1, <1>2, <1>3, PTL DEF Spec

-----------------------------------------------------------------------------
(* The device list *)

\* No two units are at one card index or in one place.
Sockets(p) ==
    /\ p \in [DOMAIN Unit -> [port : Ports, card : Range(Cards)] \cup {None}]
    /\ \A u, v \in DOMAIN Unit :
          p[u] # None /\ p[v] # None /\ u # v =>
              /\ p[u].card # p[v].card
              /\ p[u].port = p[v].port => p[u].port = None

\* A list of entries that each name a device.
Listed(devs) == devs \in Seq(Range(devs)) /\ \A i \in DOMAIN devs : devs[i].id # None

\* The records a request and the run loop are read and written by field.
JobType ==
    /\ DOMAIN job = Requesters /\ {"cfg", "todo"} \subseteq DOMAIN running
    /\ \A r \in Requesters : {"pc", "op", "req", "found", "steady"} \subseteq DOMAIN job[r]

\* One request at most has the lock; what it waits for is what was saved last;
\* and unless a client left in between, what runs is what is saved before the
\* lock is free again.
ReloadInv ==
    /\ \A q, r \in Requesters : Holding(q) /\ Holding(r) => q = r
    /\ \A r \in Requesters : job[r].pc = "wait" => running.todo.for = r /\ running.todo.cfg = saved
    /\ ~left /\ (\A r \in Requesters : job[r].pc # "wait") => running.todo = None
    /\ ~left /\ (\A r \in Requesters : job[r].pc \notin {"reload", "wait"}) => running.cfg = saved

\* A unit that is there is offered under an id the saved list does not own.
Unowned(id) == id \notin RefreshHardware(saved) /\ \E u \in Here : id = OfferedId(u)

PatchInv == \A r \in Requesters : job[r].op = "patch" => job[r].req \in Wires

\* What a provision saw at its last check holds until it writes.
CheckedInv ==
    \A r \in Requesters :
        job[r].pc = "update" /\ job[r].op = "provision" /\ job[r].steady => Unowned(job[r].found.id)

DevicesInv == Sockets(plugged) /\ Listed(saved) /\ JobType /\ ReloadInv /\ PatchInv /\ CheckedInv

\* An entry that does not own the id a unit is offered under names none of the
\* units that id names, whatever form the entry's own id has.
LEMMA OneUnit ==
    ASSUME Sockets(plugged), NEW e, e # None, NEW id, NEW u \in Here, id = OfferedId(u), id \notin Claims(e)
    PROVE  Named(e) \cap Named(id) = {}
<1>1. SUFFICES ASSUME NEW w \in Named(e), w \in Named(id)
               PROVE  FALSE
  OBVIOUS
<1>2. u \in DOMAIN Unit /\ w \in DOMAIN Unit /\ w \in Here /\ plugged[u] # None /\ plugged[w] # None
  BY <1>1 DEF Here, Named
<1>3. \A v \in Here : /\ plugged[v].card \in Range(Cards)
                      /\ None # CardId(v)
                      /\ CardId(v).form = "card"
                      /\ PortId(v) # None => PortId(v).form = "port"
                      /\ DeviceId(v) # None
                      /\ DeviceId(v) \in {PortId(v), CardId(v)} \/ DeviceId(v).form = "serial"
  <2> TAKE v \in Here
  <2>1. v \in DOMAIN Unit /\ plugged[v] \in [port : Ports, card : Range(Cards)]
    BY DEF Here, Sockets
  <2>2. PICK i \in DOMAIN Cards : plugged[v].card = Cards[i]
    BY <2>1 DEF Range
  <2>3. None # CardId(v)
    BY <2>2, IdAssumption DEF CardId
  <2>4. CardId(v).form = "card" /\ (PortId(v) # None => PortId(v).form = "port")
    BY DEF CardId, PortId
  <2>5. DeviceId(v) # None
    BY <2>1, <2>3, IdAssumption DEF DeviceId
  <2>6. DeviceId(v) \in {PortId(v), CardId(v)} \/ DeviceId(v).form = "serial"
    BY DEF DeviceId
  <2> QED
    BY <2>1, <2>3, <2>4, <2>5, <2>6
<1>4. \A v, x \in Here : CardId(v) = CardId(x) => v = x
  <2> TAKE v, x \in Here
  <2>1. CardId(v).at = plugged[v].card /\ CardId(x).at = plugged[x].card
    BY DEF CardId
  <2> QED
    BY <2>1 DEF Here, Sockets
<1>5. \A v, x \in Here : PortId(v) = PortId(x) /\ PortId(v) # None => v = x
  <2> TAKE v, x \in Here
  <2>1. PortId(v) # None => PortId(v).at = plugged[v].port /\ plugged[v].port # None
    BY DEF PortId
  <2>2. PortId(x) # None => PortId(x).at = plugged[x].port
    BY DEF PortId
  <2> QED
    BY <2>1, <2>2 DEF Here, Sockets
<1>6. id # None /\ id \in {DeviceId(u), PortId(u)}
  BY <1>3 DEF OfferedId
<1>7. id # e /\ (\A v \in Named(e) : PortId(v) # id) /\ (Named(e) = {w} => DeviceId(w) # id)
  <2>1. Claims(e) = ({e} \cup {PortId(v) : v \in Named(e)} \cup {DeviceId(v) : v \in {x \in Named(e) : Named(e) = {x}}}) \ {None}
    BY DEF Claims
  <2> QED
    BY <1>1, <1>6, <2>1
<1>8. e \in {DeviceId(w), PortId(w), CardId(w)} /\ id \in {DeviceId(w), PortId(w), CardId(w)}
  BY <1>1 DEF Named
<1>9. id \in {DeviceId(w), CardId(w)}
  BY <1>1, <1>7, <1>8
<1>10. id = DeviceId(w)
  <2>1. CASE id = CardId(w)
    <3>1. id.form = "card"
      BY <1>2, <1>3, <2>1
    <3>2. id # PortId(u) \/ PortId(u) = None
      BY <1>3, <3>1
    <3>3. id = DeviceId(u) /\ DeviceId(u) = CardId(u)
      BY <1>3, <1>6, <3>1, <3>2
    <3>4. u = w
      BY <1>2, <1>4, <2>1, <3>3
    <3> QED
      BY <3>3, <3>4
  <2> QED
    BY <1>9, <2>1
<1>11. e \in {PortId(w), CardId(w)}
  BY <1>7, <1>8, <1>10
<1>12. \A v \in Named(e) : v = w
  <2> TAKE v \in Named(e)
  <2>1. v \in Here /\ e \in {DeviceId(v), PortId(v), CardId(v)}
    BY DEF Named
  <2>2. CASE e = CardId(w)
    BY <1>2, <1>3, <1>4, <2>1, <2>2
  <2>3. CASE e = PortId(w)
    BY <1>2, <1>3, <1>5, <2>1, <2>3
  <2> QED
    BY <1>11, <2>2, <2>3
<1>13. Named(e) = {w}
  BY <1>1, <1>12
<1> QED
  BY <1>7, <1>10, <1>13

\* A set of numbers that is not empty has a least one.
LEMMA LeastNat ==
    ASSUME NEW T, T \subseteq Nat, T # {}
    PROVE  \E x \in T : \A y \in T : x <= y
<1> DEFINE R == OpToRel(<, Nat)
<1>1. IsWellFoundedOn(R, Nat)
  BY NatLessThanWellFounded
<1>2. \A x, y \in Nat : <<y, x>> \in R <=> y < x
  BY DEF OpToRel
<1> HIDE DEF R
<1>3. PICK x \in T : \A y \in T : ~(<<y, x>> \in R)
  BY <1>1, WFMin
<1>4. \A y \in T : ~(y < x)
  BY <1>2, <1>3
<1> QED
  BY <1>3, <1>4

\* There is a card index left for a unit that is not plugged in.
LEMMA CardLeft ==
    ASSUME Sockets(plugged), NEW u \in DOMAIN Unit \ Here
    PROVE  LET n == Min({i \in DOMAIN Cards : \A v \in Here : plugged[v].card # Cards[i]})
           IN  n \in DOMAIN Cards /\ \A v \in Here : plugged[v].card # Cards[n]
<1> DEFINE T == {i \in DOMAIN Cards : \A v \in Here : plugged[v].card # Cards[i]}
<1>1. Cards \in Seq(Range(Cards)) /\ DOMAIN Cards = 1..Len(Cards) /\ Len(Cards) \in Nat
  BY CardsAssumption
<1>2. T # {}
  <2> SUFFICES ASSUME \A i \in 1..Len(Cards) : \E v \in Here : plugged[v].card = Cards[i]
               PROVE  FALSE
    BY <1>1
  <2> DEFINE f == [i \in 1..Len(Cards) |-> CHOOSE v \in Here : plugged[v].card = Cards[i]]
  <2>1. \A i \in 1..Len(Cards) : f[i] \in Here /\ plugged[f[i]].card = Cards[i]
    OBVIOUS
  <2> HIDE DEF f
  <2>2. f \in Injection(1..Len(Cards), Here)
    <3>1. f \in [1..Len(Cards) -> Here]
      BY <2>1 DEF f
    <3>2. \A i, j \in 1..Len(Cards) : f[i] = f[j] => i = j
      BY <1>1, <2>1, CardsAssumption
    <3> QED
      BY <3>1, <3>2 DEF Injection, IsInjective
  <2>3. IsFiniteSet(DOMAIN Unit) /\ Here \in SUBSET (DOMAIN Unit) /\ u \notin Here
    BY CardsAssumption DEF Here
  <2>4. IsFiniteSet(Here) /\ Cardinality(Here) <= Cardinality(DOMAIN Unit) /\ Cardinality(Here) # Cardinality(DOMAIN Unit)
    BY <2>3, FS_Subset
  <2>5. Cardinality(1..Len(Cards)) <= Cardinality(Here)
    BY <2>2, <2>4, FS_Injection
  <2>6. Cardinality(1..Len(Cards)) = Len(Cards)
    BY <1>1, FS_Interval
  <2>7. Cardinality(Here) \in Nat /\ Cardinality(DOMAIN Unit) \in Nat
    BY <2>3, <2>4, FS_CardinalityType
  <2> QED
    BY <1>1, <2>4, <2>5, <2>6, <2>7, CardsAssumption
<1>3. T \subseteq Nat
  BY <1>1
<1>4. Min(T) \in T
  <2>1. \E x \in T : \A y \in T : x <= y
    BY <1>2, <1>3, LeastNat
  <2> HIDE DEF T
  <2> QED
    BY <2>1 DEF Min
<1> QED
  BY <1>4


\* Plugging and unplugging keep the sockets apart.
LEMMA PlugsKeep ==
    ASSUME Sockets(plugged), PlugIn \/ PullOut
    PROVE  Sockets(plugged)'
<1>1. CASE PlugIn
  <2>1. PICK u \in DOMAIN Unit \ Here, port \in Ports :
          /\ port # None => \A v \in Here : plugged[v].port # port
          /\ plugged' = [plugged EXCEPT ![u] =
              [port |-> port, card |-> Cards[Min({i \in DOMAIN Cards : \A v \in Here : plugged[v].card # Cards[i]})]]]
    BY <1>1 DEF PlugIn
  <2>2. PICK n : n = Min({i \in DOMAIN Cards : \A v \in Here : plugged[v].card # Cards[i]})
    OBVIOUS
  <2>3. n \in DOMAIN Cards /\ \A v \in Here : plugged[v].card # Cards[n]
    BY <2>2, CardLeft
  <2>4. PICK p : p = [port |-> port, card |-> Cards[n]]
    OBVIOUS
  <2>5. plugged' = [plugged EXCEPT ![u] = p]
    BY <2>1, <2>2, <2>4
  <2>6. p.port = port /\ p.card = Cards[n] /\ p \in [port : Ports, card : Range(Cards)]
    BY <2>3, <2>4 DEF Range
  <2>7. plugged' \in [DOMAIN Unit -> [port : Ports, card : Range(Cards)] \cup {None}]
    BY <2>5, <2>6 DEF Sockets
  <2>8. ASSUME NEW v \in DOMAIN Unit, NEW w \in DOMAIN Unit, plugged'[v] # None, plugged'[w] # None, v # w
        PROVE  /\ plugged'[v].card # plugged'[w].card
               /\ plugged'[v].port = plugged'[w].port => plugged'[v].port = None
    <3>1. plugged'[u] = p /\ \A x \in DOMAIN Unit \ {u} : plugged'[x] = plugged[x]
      BY <2>5 DEF Sockets
    <3>2. \A x \in DOMAIN Unit \ {u} : plugged'[x] # None => x \in Here
      BY <3>1 DEF Here
    <3>3. CASE v = u
      BY <2>1, <2>3, <2>6, <2>8, <3>1, <3>2, <3>3
    <3>4. CASE w = u
      BY <2>1, <2>3, <2>6, <2>8, <3>1, <3>2, <3>4
    <3>5. CASE v # u /\ w # u
      BY <2>8, <3>1, <3>5 DEF Sockets
    <3> QED
      BY <3>3, <3>4, <3>5
  <2> QED
    BY <2>7, <2>8 DEF Sockets
<1>2. CASE PullOut
  <2>1. PICK u \in Here : plugged' = [plugged EXCEPT ![u] = None]
    BY <1>2 DEF PullOut
  <2>2. plugged' \in [DOMAIN Unit -> [port : Ports, card : Range(Cards)] \cup {None}]
    BY <2>1 DEF Sockets
  <2>3. \A v \in DOMAIN Unit : plugged'[v] # None => plugged'[v] = plugged[v]
    BY <2>1 DEF Sockets
  <2> QED
    BY <2>2, <2>3 DEF Sockets
<1> QED
  BY <1>1, <1>2

\* What ApplyDefaults makes of an entry.
WithDefaults(d) == [d EXCEPT !.streams = [j \in DOMAIN @ |-> DefaultStream(@[j], Len(@) = 1)]]

\* Defaults change no id, and no length.
LEMMA DefaultsListed ==
    ASSUME NEW devs, NEW S, devs \in Seq(S), NEW d, d = ApplyDefaults(devs)
    PROVE  /\ d \in Seq(Range(d)) /\ Len(d) = Len(devs)
           /\ \A i \in DOMAIN devs : d[i] = WithDefaults(devs[i])
<1>2. d = [i \in DOMAIN devs |-> WithDefaults(devs[i])]
  BY Zenon DEF ApplyDefaults, WithDefaults
<1>3. Len(devs) \in Nat /\ DOMAIN devs = 1..Len(devs)
  OBVIOUS
<1>4. DOMAIN d = 1..Len(devs)
  BY <1>2, <1>3
<1>5. d \in [1..Len(devs) -> Range(d)]
  <2>1. d = [i \in 1..Len(devs) |-> d[i]]
    BY <1>2, <1>3
  <2>2. \A i \in 1..Len(devs) : d[i] \in Range(d)
    BY <1>4 DEF Range
  <2> QED
    BY <2>1, <2>2
<1>6. d \in Seq(Range(d)) /\ Len(d) = Len(devs)
  BY <1>3, <1>5
<1> QED
  BY <1>2, <1>6

LEMMA DefaultsKeepId ==
    ASSUME NEW d, "id" \in DOMAIN d
    PROVE  WithDefaults(d).id = d.id
<1>1. PICK x : x = [j \in DOMAIN d.streams |-> DefaultStream(d.streams[j], Len(d.streams) = 1)]
  BY Zenon
<1>2. WithDefaults(d) = [d EXCEPT !.streams = x]
  BY <1>1, Zenon DEF WithDefaults
<1> QED
  BY <1>2

\* A valid sequence is what a store may hold.
LEMMA ValidIsListed ==
    ASSUME NEW devs, NEW S, devs \in Seq(S), NEW d, d = ApplyDefaults(devs), ValidConfig(d)
    PROVE  Listed(d)
<1>1. d \in Seq(Range(d))
  BY DefaultsListed, Zenon
<1>2. \A i \in DOMAIN d : d[i].id # None
  <2>1. \A i \in DOMAIN d : ValidDevice(d[i])
    BY Zenon DEF ValidConfig
  <2>2. ASSUME NEW x, ValidDevice(x)
        PROVE  x.id # None
    BY <2>2, SMT DEF ValidDevice
  <2> QED
    BY <2>1, <2>2, Zenon
<1> QED
  BY <1>1, <1>2, Zenon DEF Listed

\* A step that leaves the hardware and the saved list alone leaves alone what is owned.
LEMMA UnownedStays ==
    ASSUME NEW id, Unowned(id), plugged' = plugged, saved' = saved
    PROVE  Unowned(id)'
<1>1. Here' = Here
  BY DEF Here
<1>2. ASSUME NEW u
      PROVE  PortId(u)' = PortId(u) /\ CardId(u)' = CardId(u) /\ DeviceId(u)' = DeviceId(u)
  BY Zenon DEF PortId, CardId, DeviceId
<1>3. ASSUME NEW u
      PROVE  OfferedId(u)' = OfferedId(u)
  <2>1. (\E v \in Here \ {u} : DeviceId(v) = DeviceId(u))' <=> \E v \in Here \ {u} : DeviceId(v) = DeviceId(u)
    BY <1>1, <1>2
  <2> QED
    BY <1>2, <2>1, Zenon DEF OfferedId
<1>4. ASSUME NEW e
      PROVE  Claims(e)' = Claims(e)
  <2>1. Named(e)' = Named(e)
    BY <1>1, <1>2 DEF Named
  <2>2. \A x : x \in Claims(e)' <=> x \in Claims(e)
    BY <1>2, <2>1 DEF Claims
  <2> QED
    BY <2>2
<1>5. id \notin RefreshHardware(saved)'
  <2>1. ASSUME NEW i \in DOMAIN saved, id \in Claims(saved[i].id)'
        PROVE  id \in RefreshHardware(saved)
    <3>1. PICK e : e = saved[i].id
      OBVIOUS
    <3>2. id \in Claims(e)'
      BY <2>1, <3>1
    <3>3. id \in Claims(saved[i].id)
      BY <1>4, <3>1, <3>2
    <3> QED
      BY <3>3 DEF RefreshHardware
  <2>2. \A i \in DOMAIN saved : id \notin Claims(saved[i].id)'
    BY <2>1 DEF Unowned
  <2> QED
    BY <2>2 DEF RefreshHardware
<1> QED
  BY <1>1, <1>3, <1>5, Zenon DEF Unowned

\* A step that changes nothing the invariant reads but what was seen of the
\* hardware, which it may have changed.
LEMMA JobsStay ==
    ASSUME DevicesInv, JobType', Sockets(plugged)', saved' = saved, running' = running, left' = left,
           \A r \in Requesters : /\ job'[r].pc = job[r].pc /\ job'[r].op = job[r].op
                                 /\ job'[r].req = job[r].req /\ job'[r].found = job[r].found,
           \/ \A r \in Requesters : ~job'[r].steady
           \/ plugged' = plugged /\ \A r \in Requesters : job'[r].steady => job[r].steady
    PROVE  DevicesInv'
<1>1. Listed(saved)'
  BY DEF DevicesInv, Listed
<1>2. ReloadInv'
  BY DEF DevicesInv, ReloadInv, Holding
<1>3. PatchInv'
  BY DEF DevicesInv, PatchInv
<1>4. CheckedInv'
  <2> SUFFICES ASSUME NEW r \in Requesters, job'[r].pc = "update", job'[r].op = "provision", job'[r].steady
               PROVE  Unowned(job[r].found.id)'
    BY DEF CheckedInv
  <2>1. plugged' = plugged /\ Unowned(job[r].found.id)
    BY DEF DevicesInv, CheckedInv
  <2>2. PICK id : id = job[r].found.id
    OBVIOUS
  <2>3. Unowned(id)'
    BY <2>1, <2>2, UnownedStays
  <2>4. id = job'[r].found.id
    BY <2>2
  <2> QED
    BY <2>3, <2>4
<1> QED
  BY <1>1, <1>2, <1>3, <1>4 DEF DevicesInv

\* What a request is moved to is a record with its fields.
JobFields(j) == {"pc", "op", "req", "found", "steady"} \subseteq DOMAIN j

\* One request takes a step without the store or the run loop; it has the lock
\* only if it had it, or if it was free.
LEMMA OneMoves ==
    ASSUME DevicesInv, NEW r \in Requesters, NEW j, job' = [job EXCEPT ![r] = j], JobFields(j),
           plugged' = plugged, saved' = saved, running' = running, left' = left,
           job[r].pc \notin {"reload", "wait"}, j.pc \notin {"reload", "wait"},
           j.pc \in {"recheck", "update"} =>
               job[r].pc \in {"recheck", "update"} \/ \A q \in Requesters : ~Holding(q),
           j.op = "patch" => j.req \in Wires,
           j.pc = "update" /\ j.op = "provision" /\ j.steady => Unowned(j.found.id)
    PROVE  DevicesInv'
<1>1. DOMAIN job' = Requesters /\ job'[r] = j /\ \A q \in Requesters \ {r} : job'[q] = job[q]
  BY DEF DevicesInv, JobType
<1>2. JobType'
  <2>1. \A q \in Requesters : {"pc", "op", "req", "found", "steady"} \subseteq DOMAIN job'[q]
    <3> TAKE q \in Requesters
    <3>1. CASE q = r
      BY <1>1, <3>1 DEF JobFields
    <3>2. CASE q # r
      <4>1. job'[q] = job[q]
        BY <1>1, <3>2
      <4> QED
        BY <4>1 DEF DevicesInv, JobType
    <3> QED
      BY <3>1, <3>2
  <2> QED
    BY <1>1, <2>1 DEF DevicesInv, JobType
<1>3. Sockets(plugged)' /\ Listed(saved)'
  BY DEF DevicesInv, Sockets, Listed
<1>4. ReloadInv'
  <2>1. \A q \in Requesters : /\ job'[q].pc = "wait" <=> job[q].pc = "wait"
                              /\ job'[q].pc = "reload" <=> job[q].pc = "reload"
    <3> TAKE q \in Requesters
    <3>1. CASE q = r
      BY <1>1, <3>1
    <3>2. CASE q # r
      BY <1>1, <3>2
    <3> QED
      BY <3>1, <3>2
  <2>2. \A q, s \in Requesters : Holding(q)' /\ Holding(s)' => q = s
    <3>1. \A q \in Requesters \ {r} : Holding(q)' <=> Holding(q)
      BY <1>1 DEF Holding
    <3>2. Holding(r)' => Holding(r) \/ \A q \in Requesters : ~Holding(q)
      BY <1>1 DEF Holding
    <3> QED
      BY <3>1, <3>2 DEF DevicesInv, ReloadInv
  <2> QED
    BY <2>1, <2>2 DEF DevicesInv, ReloadInv
<1>5. PatchInv'
  <2> SUFFICES ASSUME NEW q \in Requesters, job'[q].op = "patch" PROVE job'[q].req \in Wires
    BY DEF PatchInv
  <2>1. CASE q = r
    BY <1>1, <2>1
  <2>2. CASE q # r
    <3>1. job'[q] = job[q]
      BY <1>1, <2>2
    <3> QED
      BY <3>1 DEF DevicesInv, PatchInv
  <2> QED
    BY <2>1, <2>2
<1>6. CheckedInv'
  <2> SUFFICES ASSUME NEW q \in Requesters, job'[q].pc = "update", job'[q].op = "provision", job'[q].steady
               PROVE  Unowned(job[q].found.id)'
    BY DEF CheckedInv
  <2>1. Unowned(job'[q].found.id)
    <3>1. CASE q = r
      BY <1>1, <3>1
    <3>2. CASE q # r
      <4>1. job'[q] = job[q]
        BY <1>1, <3>2
      <4>2. job[q].pc = "update" /\ job[q].op = "provision" /\ job[q].steady
        BY <4>1
      <4> QED
        BY <4>1, <4>2 DEF DevicesInv, CheckedInv
    <3> QED
      BY <3>1, <3>2
  <2>2. PICK id : id = job'[q].found.id
    OBVIOUS
  <2>3. Unowned(id)'
    BY <2>1, <2>2, UnownedStays
  <2> QED
    BY <2>2, <2>3
<1> QED
  BY <1>2, <1>3, <1>4, <1>5, <1>6 DEF DevicesInv

\* An answered request holds nothing.
LEMMA OneReplies ==
    ASSUME DevicesInv, NEW r \in Requesters, NEW answer, Reply(r, answer),
           plugged' = plugged, saved' = saved, running' = running, left' = left,
           job[r].pc \notin {"reload", "wait"}
    PROVE  DevicesInv'
<1>1. PICK j : j = [NoJob EXCEPT !.answer = answer]
  OBVIOUS
<1>2. JobFields(j) /\ j.pc = "idle" /\ j.op = None
  BY <1>1 DEF JobFields, NoJob
<1>3. job' = [job EXCEPT ![r] = j]
  BY <1>1 DEF Reply
<1>4. j.op # "patch"
  BY <1>2, IdAssumption
<1> QED
  BY <1>2, <1>3, <1>4, OneMoves

\* A request on its way to the lock.
LEMMA OneGoesOn ==
    ASSUME DevicesInv, NEW r \in Requesters, NEW j, job' = [job EXCEPT ![r] = j], JobFields(j),
           plugged' = plugged, saved' = saved, running' = running, left' = left,
           job[r].pc \notin {"reload", "wait"}, j.pc \notin {"recheck", "update", "reload", "wait"},
           j.op = "patch" => j.req \in Wires
    PROVE  DevicesInv'
BY OneMoves

\* What the request that has the lock does next, but for a write: no other one
\* has it.
LEMMA HolderMoves ==
    ASSUME DevicesInv, NEW r \in Requesters, Holding(r), NEW j, job' = [job EXCEPT ![r] = j], JobFields(j),
           j.op = "patch" => j.req \in Wires, j.pc # "update", {"cfg", "todo"} \subseteq DOMAIN running'
    PROVE  /\ JobType' /\ PatchInv' /\ CheckedInv'
           /\ job'[r] = j
           /\ \A q \in Requesters \ {r} : /\ job'[q] = job[q]
                                          /\ job[q].pc \notin {"recheck", "update", "reload", "wait"}
<1>1. DOMAIN job' = Requesters /\ job'[r] = j /\ \A q \in Requesters \ {r} : job'[q] = job[q]
  BY DEF DevicesInv, JobType
<1>2. \A q \in Requesters \ {r} : job[q].pc \notin {"recheck", "update", "reload", "wait"}
  <2>1. \A q \in Requesters \ {r} : ~Holding(q)
    BY DEF DevicesInv, ReloadInv
  <2> QED
    BY <2>1 DEF Holding
<1>3. JobType'
  <2>1. \A q \in Requesters : {"pc", "op", "req", "found", "steady"} \subseteq DOMAIN job'[q]
    <3> TAKE q \in Requesters
    <3>1. CASE q = r
      BY <1>1, <3>1 DEF JobFields
    <3>2. CASE q # r
      <4>1. job'[q] = job[q]
        BY <1>1, <3>2
      <4> QED
        BY <4>1 DEF DevicesInv, JobType
    <3> QED
      BY <3>1, <3>2
  <2> QED
    BY <1>1, <2>1 DEF JobType
<1>4. PatchInv'
  <2> SUFFICES ASSUME NEW q \in Requesters, job'[q].op = "patch" PROVE job'[q].req \in Wires
    BY DEF PatchInv
  <2>1. CASE q = r
    BY <1>1, <2>1
  <2>2. CASE q # r
    <3>1. job'[q] = job[q]
      BY <1>1, <2>2
    <3> QED
      BY <3>1 DEF DevicesInv, PatchInv
  <2> QED
    BY <2>1, <2>2
<1>5. CheckedInv'
  <2>1. \A q \in Requesters : job'[q].pc # "update"
    BY <1>1, <1>2
  <2> QED
    BY <2>1 DEF CheckedInv
<1> QED
  BY <1>1, <1>2, <1>3, <1>4, <1>5

\* What an Update saves is a list, and its request goes on to the reload.
LEMMA SavedKeeps ==
    ASSUME DevicesInv, NEW r \in Requesters, job[r].pc = "update", job' = [job EXCEPT ![r].pc = "reload"],
           Listed(saved)', plugged' = plugged, running' = running, left' = left
    PROVE  DevicesInv'
<1>1. PICK j : j = [job[r] EXCEPT !.pc = "reload"]
  OBVIOUS
<1>2. JobFields(j) /\ j.pc = "reload" /\ (j.op = "patch" => j.req \in Wires)
  BY <1>1 DEF DevicesInv, JobType, JobFields, PatchInv
<1>3. job' = [job EXCEPT ![r] = j] /\ Holding(r) /\ {"cfg", "todo"} \subseteq DOMAIN running'
  BY <1>1 DEF DevicesInv, JobType, Holding
<1>4. /\ JobType' /\ PatchInv' /\ CheckedInv'
      /\ job'[r] = j
      /\ \A q \in Requesters \ {r} : /\ job'[q] = job[q]
                                     /\ job[q].pc \notin {"recheck", "update", "reload", "wait"}
  BY <1>2, <1>3, HolderMoves
<1>5. ReloadInv'
  <2>1. \A q \in Requesters : job[q].pc # "wait" /\ job'[q].pc # "wait"
    BY <1>2, <1>4
  <2>2. \A q, s \in Requesters : Holding(q)' /\ Holding(s)' => q = s
    BY <1>4 DEF Holding
  <2>3. ~left => running.todo = None
    BY <2>1 DEF DevicesInv, ReloadInv
  <2> QED
    BY <1>2, <1>4, <2>1, <2>2, <2>3 DEF ReloadInv
<1>6. Sockets(plugged)'
  BY DEF DevicesInv, Sockets
<1> QED
  BY <1>4, <1>5, <1>6 DEF DevicesInv

LEMMA PersistKeeps ==
    ASSUME DevicesInv, NEW r \in Requesters, job[r].pc = "update", NEW devs, NEW valid, Persist(r, devs, valid),
           valid => Listed(devs), plugged' = plugged, running' = running, left' = left
    PROVE  DevicesInv'
<1>1. CASE valid /\ saved' = devs /\ job' = [job EXCEPT ![r].pc = "reload"]
  <2>1. Listed(saved)'
    BY <1>1 DEF Listed
  <2> QED
    BY <1>1, <2>1, SavedKeeps
<1>2. CASE saved' = saved /\ \E answer : Reply(r, answer)
  BY <1>2, OneReplies
<1> QED
  BY <1>1, <1>2 DEF Persist

LEMMA UpdateKeeps ==
    ASSUME DevicesInv, NEW r \in Requesters, UpdateStore(r)
    PROVE  DevicesInv'
<1>1. /\ job[r].pc = "update" /\ plugged' = plugged /\ running' = running /\ left' = left
      /\ saved \in Seq(Range(saved))
  BY DEF UpdateStore, DevicesInv, Listed
<1>2. ASSUME NEW answer, Reply(r, answer), saved' = saved
      PROVE  DevicesInv'
  BY <1>1, <1>2, OneReplies
<1>3. CASE UpdateProvision(r)
  <2>1. CASE \E devs \in Provisioned(r) : Persist(r, devs, ValidateWrite(devs, saved))
    <3>1. PICK devs \in Provisioned(r) : Persist(r, devs, ValidateWrite(devs, saved))
      BY <2>1
    <3>2. PICK b : devs = ApplyDefaults(Append(saved, b))
      BY DEF Provisioned
    <3>3. Append(saved, b) \in Seq(Range(saved) \cup {b})
      BY <1>1
    <3>4. ValidateWrite(devs, saved) => Listed(devs)
      BY <3>2, <3>3, ValidIsListed DEF ValidateWrite
    <3> QED
      BY <1>1, <3>1, <3>4, PersistKeeps
  <2>2. CASE Reply(r, "exists") /\ saved' = saved
    BY <1>2, <2>2
  <2> QED
    BY <1>3, <2>1, <2>2 DEF UpdateProvision
<1>4. CASE UpdatePatch(r)
  <2>1. PICK wire : wire = job[r].req
    OBVIOUS
  <2>2. PICK devs : devs = ApplyDefaults(PatchedDevices(wire))
    OBVIOUS
  <2>3. wire \in Seq(Range(wire))
    BY <1>4, <2>1, WiresAssumption DEF UpdatePatch, DevicesInv, PatchInv
  <2>4. PatchedDevices(wire) \in Seq({WireToDevice(w) : w \in Range(wire)})
    <3>1. PatchedDevices(wire) = [i \in 1..Len(wire) |-> WireToDevice(wire[i])] /\ Len(wire) \in Nat
      BY <2>3 DEF PatchedDevices
    <3>2. \A i \in 1..Len(wire) : wire[i] \in Range(wire)
      BY <2>3
    <3> QED
      BY <3>1, <3>2
  <2>5. ValidConfig(devs) => Listed(devs)
    BY <2>2, <2>4, ValidIsListed
  <2>6. Persist(r, devs, ValidateWrite(devs, saved) /\ ~\E w \in Range(wire) : Collapses(w, wire))
    BY <1>4, <2>1, <2>2 DEF UpdatePatch
  <2>7. (ValidateWrite(devs, saved) /\ ~\E w \in Range(wire) : Collapses(w, wire)) => Listed(devs)
    BY <2>5 DEF ValidateWrite
  <2> QED
    BY <1>1, <2>6, <2>7, PersistKeeps
<1>5. CASE UpdateDelete(r)
  <2>1. CASE \E i \in DOMAIN saved : Persist(r, ApplyDefaults(RemoveAt(saved, i)), ValidConfig(ApplyDefaults(RemoveAt(saved, i))))
    <3>1. PICK i \in DOMAIN saved : Persist(r, ApplyDefaults(RemoveAt(saved, i)), ValidConfig(ApplyDefaults(RemoveAt(saved, i))))
      BY <2>1
    <3>2. PICK devs : devs = ApplyDefaults(RemoveAt(saved, i))
      OBVIOUS
    <3>3. RemoveAt(saved, i) \in Seq(Range(saved))
      BY <1>1 DEF RemoveAt
    <3>4. ValidConfig(devs) => Listed(devs)
      BY <3>2, <3>3, ValidIsListed
    <3>5. Persist(r, devs, ValidConfig(devs))
      BY <3>1, <3>2
    <3> QED
      BY <1>1, <3>4, <3>5, PersistKeeps
  <2>2. CASE Reply(r, "gone") /\ saved' = saved
    BY <1>2, <2>2
  <2> QED
    BY <1>5, <2>1, <2>2 DEF UpdateDelete
<1> QED
  BY <1>3, <1>4, <1>5 DEF UpdateStore

LEMMA HandOverKeeps ==
    ASSUME DevicesInv, NEW r \in Requesters, HandOver(r)
    PROVE  DevicesInv'
<1>1. PICK j : j = [job[r] EXCEPT !.pc = "wait"]
  OBVIOUS
<1>2. JobFields(j) /\ j.pc = "wait" /\ (j.op = "patch" => j.req \in Wires)
  BY <1>1 DEF DevicesInv, JobType, JobFields, PatchInv
<1>3. PICK todo : todo = [cfg |-> saved, for |-> r]
  OBVIOUS
<1>4. /\ running' = [running EXCEPT !.todo = todo]
      /\ plugged' = plugged /\ saved' = saved /\ left' = left /\ job[r].pc = "reload"
  BY <1>3 DEF HandOver
<1>5. running'.todo = todo /\ todo.for = r /\ todo.cfg = saved
  BY <1>3, <1>4 DEF DevicesInv, JobType
<1>6. {"cfg", "todo"} \subseteq DOMAIN running'
  BY <1>4 DEF DevicesInv, JobType
<1>7. job' = [job EXCEPT ![r] = j] /\ Holding(r)
  BY <1>1 DEF HandOver, Holding
<1>8. /\ JobType' /\ PatchInv' /\ CheckedInv'
      /\ job'[r] = j
      /\ \A q \in Requesters \ {r} : /\ job'[q] = job[q]
                                     /\ job[q].pc \notin {"recheck", "update", "reload", "wait"}
  BY <1>2, <1>6, <1>7, HolderMoves
<1>9. ReloadInv'
  <2>1. \A q, s \in Requesters : Holding(q)' /\ Holding(s)' => q = s
    BY <1>8 DEF Holding
  <2>2. \A q \in Requesters : job'[q].pc = "wait" => q = r
    BY <1>8
  <2> QED
    BY <1>2, <1>4, <1>5, <1>8, <2>1, <2>2 DEF ReloadInv
<1>10. Sockets(plugged)' /\ Listed(saved)'
  BY <1>4 DEF DevicesInv, Sockets, Listed
<1> QED
  BY <1>8, <1>9, <1>10 DEF DevicesInv

LEMMA GivesUpKeeps ==
    ASSUME DevicesInv, NEW r \in Requesters, GivesUp(r)
    PROVE  DevicesInv'
<1>1. PICK j : j = [NoJob EXCEPT !.answer = "left"]
  OBVIOUS
<1>2. JobFields(j) /\ j.pc = "idle" /\ j.op # "patch"
  BY <1>1, IdAssumption DEF JobFields, NoJob
<1>3. /\ job' = [job EXCEPT ![r] = j] /\ Holding(r)
      /\ plugged' = plugged /\ saved' = saved /\ running' = running /\ left' = TRUE
  BY <1>1 DEF GivesUp, Reply, Holding
<1>4. {"cfg", "todo"} \subseteq DOMAIN running'
  BY <1>3 DEF DevicesInv, JobType
<1>5. /\ JobType' /\ PatchInv' /\ CheckedInv'
      /\ job'[r] = j
      /\ \A q \in Requesters \ {r} : /\ job'[q] = job[q]
                                     /\ job[q].pc \notin {"recheck", "update", "reload", "wait"}
  BY <1>2, <1>3, <1>4, HolderMoves
<1>6. ReloadInv'
  <2>1. \A q \in Requesters : job'[q].pc # "wait" /\ ~Holding(q)'
    BY <1>2, <1>5 DEF Holding
  <2> QED
    BY <1>3, <2>1 DEF ReloadInv
<1>7. Sockets(plugged)' /\ Listed(saved)'
  BY <1>3 DEF DevicesInv, Sockets, Listed
<1> QED
  BY <1>5, <1>6, <1>7 DEF DevicesInv

LEMMA ReconcileKeeps ==
    ASSUME DevicesInv, ReconcileDone
    PROVE  DevicesInv'
<1>1. PICK j : j = [NoJob EXCEPT !.answer = "ok"]
  OBVIOUS
<1>2. JobFields(j) /\ j.pc = "idle" /\ j.op # "patch"
  BY <1>1, IdAssumption DEF JobFields, NoJob
<1>3. /\ job' = [r \in Requesters |-> IF r = running.todo.for /\ job[r].pc = "wait" THEN j ELSE job[r]]
      /\ running.todo # None /\ running' = [cfg |-> running.todo.cfg, todo |-> None]
      /\ plugged' = plugged /\ saved' = saved
  BY <1>1 DEF ReconcileDone
<1>4. \A r \in Requesters : job'[r] = job[r] \/ (job'[r] = j /\ job[r].pc = "wait")
  BY <1>3
<1>5. JobType'
  <2>1. \A r \in Requesters : {"pc", "op", "req", "found", "steady"} \subseteq DOMAIN job'[r]
    BY <1>2, <1>4 DEF DevicesInv, JobType, JobFields
  <2> QED
    BY <1>3, <2>1 DEF JobType
<1>6. ReloadInv'
  <2>1. \A q, s \in Requesters : Holding(q)' /\ Holding(s)' => q = s
    <3>1. \A q \in Requesters : Holding(q)' => Holding(q)
      BY <1>2, <1>4 DEF Holding
    <3> QED
      BY <3>1 DEF DevicesInv, ReloadInv
  <2>2. \A q \in Requesters : job'[q].pc # "wait"
    <3> TAKE q \in Requesters
    <3>1. CASE job[q].pc = "wait"
      <4>1. running.todo.for = q
        BY <3>1 DEF DevicesInv, ReloadInv
      <4> QED
        BY <1>2, <1>3, <3>1, <4>1
    <3>2. CASE job[q].pc # "wait"
      BY <1>4, <3>2
    <3> QED
      BY <3>1, <3>2
  <2>3. ~left' => running.todo.cfg = saved
    <3>1. CASE running.todo.cfg = saved
      BY <3>1
    <3>2. CASE running.todo.cfg # saved
      <4>1. \A q \in Requesters : job[q].pc # "wait"
        BY <3>2 DEF DevicesInv, ReloadInv
      <4>2. left
        BY <1>3, <4>1 DEF DevicesInv, ReloadInv
      <4> QED
        BY <3>2, <4>2 DEF ReconcileDone
    <3> QED
      BY <3>1, <3>2
  <2>4. running'.todo = None /\ running'.cfg = running.todo.cfg
    BY <1>3
  <2> QED
    BY <1>3, <2>1, <2>2, <2>3, <2>4 DEF ReloadInv
<1>7. PatchInv'
  BY <1>2, <1>4 DEF DevicesInv, PatchInv
<1>8. CheckedInv'
  <2> SUFFICES ASSUME NEW q \in Requesters, job'[q].pc = "update", job'[q].op = "provision", job'[q].steady
               PROVE  Unowned(job[q].found.id)'
    BY DEF CheckedInv
  <2>1. job'[q] = job[q]
    BY <1>2, <1>4
  <2>2. job[q].pc = "update" /\ job[q].op = "provision" /\ job[q].steady
    BY <2>1
  <2>3. Unowned(job[q].found.id)
    BY <2>2 DEF DevicesInv, CheckedInv
  <2>4. PICK id : id = job[q].found.id
    OBVIOUS
  <2>5. Unowned(id)'
    BY <1>3, <2>3, <2>4, UnownedStays
  <2>6. id = job'[q].found.id
    BY <2>1, <2>4
  <2> QED
    BY <2>5, <2>6
<1>9. Sockets(plugged)' /\ Listed(saved)'
  BY <1>3 DEF DevicesInv, Sockets, Listed
<1> QED
  BY <1>5, <1>6, <1>7, <1>8, <1>9 DEF DevicesInv

LEMMA RecheckKeeps ==
    ASSUME DevicesInv, NEW r \in Requesters, Recheck(r)
    PROVE  DevicesInv'
<1>1. /\ job[r].pc = "recheck" /\ plugged' = plugged /\ saved' = saved /\ running' = running /\ left' = left
  BY DEF Recheck
<1>2. CASE Unavailable(job[r].found.id) # None
  <2>1. Reply(r, Unavailable(job[r].found.id))
    BY <1>2 DEF Recheck
  <2> QED
    BY <1>1, <2>1, OneReplies
<1>3. CASE Unavailable(job[r].found.id) = None
  <2>1. PICK j : j = [job[r] EXCEPT !.pc = "update", !.steady = @ /\ ViewsCurrent /\ ~left]
    BY Zenon
  <2>2. job' = [job EXCEPT ![r] = j]
    BY <1>3, <2>1, Zenon DEF Recheck
  <2>3. JobFields(j) /\ j.pc = "update" /\ j.op = job[r].op /\ j.req = job[r].req /\ j.found = job[r].found
    BY <2>1 DEF DevicesInv, JobType, JobFields
  <2>4. j.steady => ViewsCurrent /\ ~left
    <3>1. j.steady = (job[r].steady /\ ViewsCurrent /\ ~left)
      BY <2>1 DEF DevicesInv, JobType
    <3> QED
      BY <3>1
  <2>5. ASSUME j.steady
        PROVE  Unowned(j.found.id)
    <3>1. ViewsCurrent /\ ~left
      BY <2>4, <2>5
    <3>2. \E d \in AvailableDevices : d.id = job[r].found.id
      BY <1>3, IdAssumption DEF Unavailable
    <3>3. job[r].found.id \in Detected /\ job[r].found.id \notin view.configured
      BY <3>2 DEF AvailableDevices, Detected
    <3>4. \A q \in Requesters : job[q].pc \notin {"reload", "wait"}
      BY <1>1 DEF DevicesInv, ReloadInv, Holding
    <3>5. running.cfg = saved
      BY <3>1, <3>4 DEF DevicesInv, ReloadInv
    <3>6. job[r].found.id \notin RefreshHardware(saved)
      BY <3>1, <3>3, <3>5 DEF ViewsCurrent
    <3>7. \E u \in Here : job[r].found.id = OfferedId(u)
      BY <3>1, <3>3 DEF ViewsCurrent
    <3> QED
      BY <2>3, <3>6, <3>7 DEF Unowned
  <2>6. j.op = "patch" => j.req \in Wires
    BY <2>3 DEF DevicesInv, PatchInv
  <2> QED
    BY <1>1, <2>2, <2>3, <2>5, <2>6, OneMoves
<1> QED
  BY <1>2, <1>3

LEMMA AskProvisionKeeps ==
    ASSUME DevicesInv, NEW r \in Requesters, AskProvision(r)
    PROVE  DevicesInv'
<1>1. /\ job[r].pc = "idle" /\ plugged' = plugged /\ saved' = saved /\ running' = running /\ left' = left
  BY DEF AskProvision
<1>2. PICK id \in Detected \cup {CardId(u) : u \in Here}, over \in Overrides :
        IF DetectedDevice(id) = {} THEN Reply(r, "gone")
        ELSE IF \E i \in DOMAIN saved : saved[i].id = id THEN Reply(r, "exists")
        ELSE IF Unavailable(id) # None THEN Reply(r, Unavailable(id))
        ELSE \E d \in DetectedDevice(id) :
               job' = [job EXCEPT ![r] =
                  [NoJob EXCEPT !.pc = IF WantsProbe(d, over) THEN "probe" ELSE "lock", !.op = "provision",
                                !.req = over, !.found = d, !.widths = ProbeWidths(d.channels), !.steady = ViewsCurrent]]
  BY DEF AskProvision
<1>3. CASE \E answer : Reply(r, answer)
  BY <1>1, <1>3, OneReplies
<1>4. ASSUME NEW d, NEW pc, pc \in {"probe", "lock"},
             job' = [job EXCEPT ![r] =
                [NoJob EXCEPT !.pc = pc, !.op = "provision",
                              !.req = over, !.found = d, !.widths = ProbeWidths(d.channels), !.steady = ViewsCurrent]]
      PROVE  DevicesInv'
  <2> DEFINE j == [NoJob EXCEPT !.pc = pc, !.op = "provision",
                              !.req = over, !.found = d, !.widths = ProbeWidths(d.channels), !.steady = ViewsCurrent]
  <2>1. JobFields(j)
    <3>1. DOMAIN j = DOMAIN NoJob
      OBVIOUS
    <3> QED
      BY <3>1 DEF NoJob, JobFields
  <2>2. j.pc = pc /\ j.op = "provision"
    BY DEF NoJob
  <2>3. job' = [job EXCEPT ![r] = j]
    BY <1>4
  <2> HIDE DEF j
  <2> QED
    BY <1>1, <1>4, <2>1, <2>2, <2>3, OneGoesOn
<1> QED
  BY <1>2, <1>3, <1>4

\* Every step of the device list and its requests.
LEMMA DevicesStep ==
    ASSUME DevicesInv, ProvisioningStep
    PROVE  DevicesInv'
<1>0. DOMAIN job = Requesters /\ \A r \in Requesters : JobFields(job[r])
  BY DEF DevicesInv, JobType, JobFields
<1>1. ASSUME NEW r \in Requesters, AskPatch(r) \/ AskDelete(r)
      PROVE  DevicesInv'
  <2>1. /\ job[r].pc = "idle" /\ plugged' = plugged /\ saved' = saved /\ running' = running /\ left' = left
    BY <1>1 DEF AskPatch, AskDelete
  <2>2. PICK op, req : /\ job' = [job EXCEPT ![r] = [NoJob EXCEPT !.pc = "lock", !.op = op, !.req = req]]
                       /\ op = "patch" => req \in Wires
    <3>1. CASE AskPatch(r)
      <4>1. PICK wire \in Wires : job' = [job EXCEPT ![r] = [NoJob EXCEPT !.pc = "lock", !.op = "patch", !.req = wire]]
        BY <3>1 DEF AskPatch
      <4> QED
        BY <4>1
    <3>2. CASE AskDelete(r)
      <4>1. PICK i \in DOMAIN saved :
              job' = [job EXCEPT ![r] = [NoJob EXCEPT !.pc = "lock", !.op = "delete", !.req = saved[i].name]]
        BY <3>2 DEF AskDelete
      <4>2. PICK req : req = saved[i].name
        OBVIOUS
      <4>3. PICK op : op = "delete" /\ op # "patch"
        OBVIOUS
      <4>4. job' = [job EXCEPT ![r] = [NoJob EXCEPT !.pc = "lock", !.op = op, !.req = req]]
        BY <4>1, <4>2, <4>3
      <4> QED
        BY <4>3, <4>4
    <3> QED
      BY <1>1, <3>1, <3>2
  <2>3. PICK j : j = [NoJob EXCEPT !.pc = "lock", !.op = op, !.req = req]
    OBVIOUS
  <2>4. JobFields(j) /\ j.pc = "lock" /\ (j.op = "patch" => j.req \in Wires)
    BY <2>2, <2>3 DEF NoJob, JobFields
  <2>5. job' = [job EXCEPT ![r] = j]
    BY <2>2, <2>3
  <2> QED
    BY <2>1, <2>4, <2>5, OneGoesOn
<1>2. ASSUME NEW r \in Requesters, StartProbe(r) \/ ProbeResult(r) \/ ProbeCancelled(r)
      PROVE  DevicesInv'
  <2>1. /\ job[r].pc \in {"probe", "probing"}
        /\ plugged' = plugged /\ saved' = saved /\ running' = running /\ left' = left
    BY <1>2 DEF StartProbe, ProbeResult, ProbeCancelled
  <2>2. ASSUME NEW pc \in {"probe", "probing", "lock"}, NEW widths, NEW preferred,
               job' = [job EXCEPT ![r] = [job[r] EXCEPT !.pc = pc, !.widths = widths, !.preferred = preferred]]
        PROVE  DevicesInv'
    <3>1. PICK j : j = [job[r] EXCEPT !.pc = pc, !.widths = widths, !.preferred = preferred]
      OBVIOUS
    <3>2. JobFields(j) /\ j.pc = pc /\ j.op = job[r].op /\ j.req = job[r].req
      BY <1>0, <3>1 DEF JobFields
    <3>3. j.op = "patch" => j.req \in Wires
      BY <3>2 DEF DevicesInv, PatchInv
    <3>4. job' = [job EXCEPT ![r] = j]
      BY <2>2, <3>1
    <3> QED
      BY <2>1, <3>2, <3>3, <3>4, OneGoesOn
  <2>3. ASSUME NEW pc \in {"probe", "probing", "lock"}, job' = [job EXCEPT ![r] = [job[r] EXCEPT !.pc = pc]]
        PROVE  DevicesInv'
    <3>1. PICK j : j = [job[r] EXCEPT !.pc = pc]
      OBVIOUS
    <3>2. JobFields(j) /\ j.pc = pc /\ j.op = job[r].op /\ j.req = job[r].req
      BY <1>0, <3>1 DEF JobFields
    <3>3. j.op = "patch" => j.req \in Wires
      BY <3>2 DEF DevicesInv, PatchInv
    <3>4. job' = [job EXCEPT ![r] = j]
      BY <2>3, <3>1
    <3> QED
      BY <2>1, <3>2, <3>3, <3>4, OneGoesOn
  <2>4. ASSUME NEW widths, job' = [job EXCEPT ![r] = [job[r] EXCEPT !.pc = "probing", !.widths = widths]]
        PROVE  DevicesInv'
    <3>1. PICK j : j = [job[r] EXCEPT !.pc = "probing", !.widths = widths]
      OBVIOUS
    <3>2. JobFields(j) /\ j.pc = "probing" /\ j.op = job[r].op /\ j.req = job[r].req
      BY <1>0, <3>1 DEF JobFields
    <3>3. j.op = "patch" => j.req \in Wires
      BY <3>2 DEF DevicesInv, PatchInv
    <3>4. job' = [job EXCEPT ![r] = j]
      BY <2>4, <3>1
    <3> QED
      BY <2>1, <3>2, <3>3, <3>4, OneGoesOn
  <2>5. ASSUME NEW preferred, job' = [job EXCEPT ![r] = [job[r] EXCEPT !.pc = "lock", !.preferred = preferred]]
        PROVE  DevicesInv'
    <3>1. PICK j : j = [job[r] EXCEPT !.pc = "lock", !.preferred = preferred]
      OBVIOUS
    <3>2. JobFields(j) /\ j.pc = "lock" /\ j.op = job[r].op /\ j.req = job[r].req
      BY <1>0, <3>1 DEF JobFields
    <3>3. j.op = "patch" => j.req \in Wires
      BY <3>2 DEF DevicesInv, PatchInv
    <3>4. job' = [job EXCEPT ![r] = j]
      BY <2>5, <3>1
    <3> QED
      BY <2>1, <3>2, <3>3, <3>4, OneGoesOn
  <2>6. CASE StartProbe(r)
    <3>1. CASE job[r].widths = {} \/ SlotTaken
      BY <2>3, <2>6, <3>1 DEF StartProbe
    <3>2. CASE ~(job[r].widths = {} \/ SlotTaken)
      BY <2>4, <2>6, <3>2 DEF StartProbe
    <3> QED
      BY <3>1, <3>2
  <2>7. CASE ProbeResult(r)
    <3>1. CASE probe[r].st = "failed"
      BY <2>3, <2>7, <3>1 DEF ProbeResult
    <3>2. CASE probe[r].st # "failed"
      BY <2>5, <2>7, <3>2 DEF ProbeResult
    <3> QED
      BY <3>1, <3>2
  <2>8. CASE ProbeCancelled(r)
    BY <2>3, <2>8 DEF ProbeCancelled
  <2> QED
    BY <1>2, <2>6, <2>7, <2>8
<1>3. ASSUME NEW r \in Requesters, Lock(r)
      PROVE  DevicesInv'
  <2>1. /\ job[r].pc = "lock" /\ \A q \in Requesters : ~Holding(q)
        /\ plugged' = plugged /\ saved' = saved /\ running' = running /\ left' = left
    BY <1>3 DEF Lock
  <2>2. ASSUME NEW pc, pc = "recheck" \/ (pc = "update" /\ job[r].op # "provision"), job' = [job EXCEPT ![r].pc = pc]
        PROVE  DevicesInv'
    <3>1. PICK j : j = [job[r] EXCEPT !.pc = pc]
      OBVIOUS
    <3>2. JobFields(j) /\ j.pc = pc /\ j.op = job[r].op /\ j.req = job[r].req
      BY <1>0, <3>1 DEF JobFields
    <3>3. j.op = "patch" => j.req \in Wires
      BY <3>2 DEF DevicesInv, PatchInv
    <3>4. job' = [job EXCEPT ![r] = j]
      BY <2>2, <3>1
    <3> QED
      BY <2>1, <2>2, <3>2, <3>3, <3>4, OneMoves
  <2>3. CASE \E answer : Reply(r, answer)
    BY <2>1, <2>3, OneReplies
  <2> QED
    BY <1>3, <2>2, <2>3 DEF Lock
<1>4. ASSUME NEW r \in Requesters, ClientLeaves(r)
      PROVE  DevicesInv'
  <2>1. /\ job' = [job EXCEPT ![r] = [job[r] EXCEPT !.gone = TRUE]]
        /\ plugged' = plugged /\ saved' = saved /\ running' = running /\ left' = left
    BY <1>4 DEF ClientLeaves
  <2>2. PICK j : j = [job[r] EXCEPT !.gone = TRUE]
    BY Zenon
  <2>3. /\ JobFields(j) /\ j.pc = job[r].pc /\ j.op = job[r].op /\ j.req = job[r].req
        /\ j.found = job[r].found /\ j.steady = job[r].steady
    BY <1>0, <2>2 DEF JobFields
  <2>4. job' = [job EXCEPT ![r] = j]
    BY <2>1, <2>2
  <2>5. DOMAIN job' = Requesters /\ job'[r] = j /\ \A q \in Requesters \ {r} : job'[q] = job[q]
    BY <1>0, <2>4
  <2>6. \A q \in Requesters : /\ JobFields(job'[q]) /\ job'[q].pc = job[q].pc /\ job'[q].op = job[q].op
                              /\ job'[q].req = job[q].req /\ job'[q].found = job[q].found
                              /\ job'[q].steady = job[q].steady
    <3> TAKE q \in Requesters
    <3>1. CASE q = r
      BY <2>3, <2>5, <3>1
    <3>2. CASE q # r
      <4>1. job'[q] = job[q]
        BY <2>5, <3>2
      <4> QED
        BY <1>0, <4>1
    <3> QED
      BY <3>1, <3>2
  <2>7. JobType'
    BY <2>1, <2>5, <2>6 DEF DevicesInv, JobType, JobFields
  <2>8. Sockets(plugged)'
    BY <2>1 DEF DevicesInv, Sockets
  <2> QED
    BY <2>1, <2>6, <2>7, <2>8, JobsStay
<1>5. CASE PlugIn \/ PullOut
  <2>1. saved' = saved /\ running' = running /\ left' = left /\ job' = Unsteady
    BY <1>5 DEF PlugIn, PullOut
  <2>2. \A r \in Requesters : /\ JobFields([job[r] EXCEPT !.steady = FALSE])
                              /\ [job[r] EXCEPT !.steady = FALSE].steady = FALSE
                              /\ [job[r] EXCEPT !.steady = FALSE].pc = job[r].pc
                              /\ [job[r] EXCEPT !.steady = FALSE].op = job[r].op
                              /\ [job[r] EXCEPT !.steady = FALSE].req = job[r].req
                              /\ [job[r] EXCEPT !.steady = FALSE].found = job[r].found
    BY <1>0 DEF JobFields
  <2>3. /\ DOMAIN job' = Requesters
        /\ \A r \in Requesters : /\ JobFields(job'[r]) /\ ~job'[r].steady
                                 /\ job'[r].pc = job[r].pc /\ job'[r].op = job[r].op
                                 /\ job'[r].req = job[r].req /\ job'[r].found = job[r].found
    BY <2>1, <2>2 DEF Unsteady
  <2>4. JobType'
    BY <2>1, <2>3 DEF DevicesInv, JobType, JobFields
  <2>5. Sockets(plugged)'
    BY <1>5, PlugsKeep DEF DevicesInv
  <2> QED
    BY <2>1, <2>3, <2>4, <2>5, JobsStay
<1>6. CASE UNCHANGED <<plugged, saved, running, job, left>>
  <2>1. plugged' = plugged /\ saved' = saved /\ running' = running /\ job' = job /\ left' = left
    BY <1>6
  <2>2. JobType' /\ Sockets(plugged)'
    BY <2>1 DEF DevicesInv, JobType, Sockets
  <2> QED
    BY <2>1, <2>2, JobsStay
<1>7. CASE RetryRefreshes \/ Detect \/ SetDetected \/ \E r \in Requesters : OpenReturns(r) \/ ProbeReads(r)
  BY <1>6, <1>7 DEF RetryRefreshes, Detect, SetDetected, OpenReturns, ProbeReads
<1> QED
  BY <1>1, <1>2, <1>3, <1>4, <1>5, <1>7, AskProvisionKeeps, UpdateKeeps, HandOverKeeps, GivesUpKeeps,
     ReconcileKeeps, RecheckKeeps
  DEF ProvisioningStep

\* Only its own write takes a request from the update to the reload.
LEMMA OnlyUpdateSaves ==
    ASSUME JobType, NEW r \in Requesters, ProvisioningStep, job[r].pc = "update", job'[r].pc = "reload"
    PROVE  UpdateStore(r)
<1>0. DOMAIN job = Requesters /\ "pc" \in DOMAIN job[r]
  BY DEF JobType
<1>1. ASSUME NEW q \in Requesters, NEW j, job' = [job EXCEPT ![q] = j]
      PROVE  q = r /\ j.pc = "reload"
  <2>1. CASE q # r
    <3>1. job'[r] = job[r]
      BY <1>0, <1>1, <2>1
    <3> QED
      BY <3>1
  <2>2. CASE q = r
    BY <1>0, <1>1, <2>2
  <2> QED
    BY <2>1, <2>2
<1>2. ASSUME NEW q \in Requesters, NEW answer, Reply(q, answer)
      PROVE  FALSE
  <2>1. job' = [job EXCEPT ![q] = [NoJob EXCEPT !.answer = answer]] /\ [NoJob EXCEPT !.answer = answer].pc = "idle"
    BY <1>2 DEF Reply, NoJob
  <2> QED
    BY <1>1, <2>1
<1>3. ASSUME NEW q \in Requesters, AskProvision(q)
      PROVE  FALSE
  <2>1. job[q].pc = "idle" /\ \E j : job' = [job EXCEPT ![q] = j]
    BY <1>3, Zenon DEF AskProvision, Reply
  <2> QED
    BY <1>1, <2>1
<1>4. ASSUME NEW q \in Requesters, AskPatch(q) \/ AskDelete(q)
      PROVE  FALSE
  <2>1. job[q].pc = "idle" /\ \E j : job' = [job EXCEPT ![q] = j]
    BY <1>4 DEF AskPatch, AskDelete
  <2> QED
    BY <1>1, <2>1
<1>5. ASSUME NEW q \in Requesters, StartProbe(q) \/ ProbeResult(q) \/ ProbeCancelled(q)
      PROVE  FALSE
  <2>1. job[q].pc \in {"probe", "probing"} /\ \E j : job' = [job EXCEPT ![q] = j]
    BY <1>5 DEF StartProbe, ProbeResult, ProbeCancelled
  <2> QED
    BY <1>1, <2>1
<1>6. ASSUME NEW q \in Requesters, Lock(q) \/ HandOver(q)
      PROVE  FALSE
  <2>1. job[q].pc # "update" /\ \E j : job' = [job EXCEPT ![q] = j]
    BY <1>6 DEF Lock, HandOver, Reply
  <2> QED
    BY <1>1, <2>1
<1>7. ASSUME NEW q \in Requesters, Recheck(q)
      PROVE  FALSE
  <2>1. job[q].pc # "update" /\ \E j : job' = [job EXCEPT ![q] = j]
    BY <1>7, Zenon DEF Recheck, Reply
  <2> QED
    BY <1>1, <2>1
<1>8. ASSUME NEW q \in Requesters, ClientLeaves(q)
      PROVE  FALSE
  <2>1. job' = [job EXCEPT ![q] = [job[q] EXCEPT !.gone = TRUE]] /\ [job[q] EXCEPT !.gone = TRUE].pc = job[q].pc
    BY <1>8 DEF ClientLeaves, JobType
  <2> QED
    BY <1>1, <2>1
<1>9. ASSUME NEW q \in Requesters, GivesUp(q)
      PROVE  FALSE
  BY <1>2, <1>9 DEF GivesUp
<1>10. ASSUME NEW q \in Requesters, UpdateStore(q)
       PROVE  UpdateStore(r)
  <2>1. \E j : job' = [job EXCEPT ![q] = j]
    <3>1. ASSUME NEW devs, NEW valid, Persist(q, devs, valid)
          PROVE  \E j : job' = [job EXCEPT ![q] = j]
      BY <3>1 DEF Persist, Reply
    <3>2. CASE \E answer : Reply(q, answer)
      BY <3>2 DEF Reply
    <3>3. CASE UpdateProvision(q)
      BY <3>1, <3>2, <3>3 DEF UpdateProvision
    <3>4. CASE UpdatePatch(q)
      BY <3>1, <3>4 DEF UpdatePatch
    <3>5. CASE UpdateDelete(q)
      BY <3>1, <3>2, <3>5 DEF UpdateDelete
    <3> QED
      BY <1>10, <3>3, <3>4, <3>5 DEF UpdateStore
  <2> QED
    BY <1>1, <1>10, <2>1
<1>11. ASSUME ReconcileDone
       PROVE  FALSE
  <2>1. job'[r] = job[r] \/ job'[r] = [NoJob EXCEPT !.answer = "ok"]
    BY <1>11 DEF ReconcileDone
  <2>2. [NoJob EXCEPT !.answer = "ok"].pc = "idle"
    BY DEF NoJob
  <2> QED
    BY <2>1, <2>2
<1>12. ASSUME PlugIn \/ PullOut
       PROVE  FALSE
  <2>1. job'[r] = [job[r] EXCEPT !.steady = FALSE] /\ [job[r] EXCEPT !.steady = FALSE].pc = job[r].pc
    BY <1>0, <1>12 DEF PlugIn, PullOut, Unsteady
  <2> QED
    BY <2>1
<1>13. ASSUME RetryRefreshes \/ Detect \/ SetDetected \/ \E q \in Requesters : OpenReturns(q) \/ ProbeReads(q)
       PROVE  FALSE
  <2>1. job' = job
    BY <1>13 DEF RetryRefreshes, Detect, SetDetected, OpenReturns, ProbeReads
  <2> QED
    BY <2>1
<1> QED
  BY <1>3, <1>4, <1>5, <1>6, <1>7, <1>8, <1>9, <1>10, <1>11, <1>12, <1>13 DEF ProvisioningStep

\* A provision writes its entry at the end of the list, under the id it checked.
LEMMA ProvisionWrites ==
    ASSUME DevicesInv, NEW r \in Requesters, UpdateStore(r), job[r].op = "provision", job'[r].pc = "reload"
    PROVE  Last(saved').id = job[r].found.id
<1>0. DOMAIN job = Requesters /\ saved \in Seq(Range(saved))
  BY DEF DevicesInv, JobType, Listed
<1>1. ASSUME NEW answer, Reply(r, answer)
      PROVE  FALSE
  <2>1. job'[r] = [NoJob EXCEPT !.answer = answer] /\ [NoJob EXCEPT !.answer = answer].pc = "idle"
    BY <1>0, <1>1 DEF Reply, NoJob
  <2> QED
    BY <2>1
<1>2. UpdateProvision(r)
  BY DEF UpdateStore, UpdatePatch, UpdateDelete
<1>3. PICK devs \in Provisioned(r) : Persist(r, devs, ValidateWrite(devs, saved))
  BY <1>1, <1>2 DEF UpdateProvision
<1>4. saved' = devs
  BY <1>1, <1>3 DEF Persist
<1>5. PICK p : devs = ApplyDefaults(Append(saved, BuildProvisionedDevice(job[r].found, job[r].req, job[r].preferred, p)))
  BY DEF Provisioned
<1>6. PICK b : b = BuildProvisionedDevice(job[r].found, job[r].req, job[r].preferred, p)
  OBVIOUS
<1>7. "id" \in DOMAIN b /\ b.id = job[r].found.id
  BY <1>6 DEF BuildProvisionedDevice
<1>8. PICK s : s = Append(saved, b)
  OBVIOUS
<1>9. s \in Seq(Range(saved) \cup {b}) /\ Len(s) = Len(saved) + 1 /\ s[Len(saved) + 1] = b /\ Len(saved) \in Nat
  BY <1>0, <1>8
<1>10. Len(devs) = Len(saved) + 1 /\ devs[Len(saved) + 1] = WithDefaults(b)
  <2>1. devs = ApplyDefaults(s)
    BY <1>5, <1>6, <1>8
  <2>2. Len(devs) = Len(s) /\ \A i \in DOMAIN s : devs[i] = WithDefaults(s[i])
    BY <1>9, <2>1, DefaultsListed
  <2>3. Len(saved) + 1 \in DOMAIN s
    BY <1>9
  <2> QED
    BY <1>9, <2>2, <2>3
<1>11. WithDefaults(b).id = job[r].found.id
  BY <1>7, DefaultsKeepId
<1>12. Last(saved') = WithDefaults(b)
  BY <1>4, <1>10 DEF Last
<1> QED
  BY <1>11, <1>12

\* The wired units and the list of an instance.
LEMMA DevicesStart == Init => DevicesInv
<1> SUFFICES ASSUME Init PROVE DevicesInv
  OBVIOUS
<1>1. /\ job = [r \in Requesters |-> NoJob] /\ running = [cfg |-> saved, todo |-> None] /\ left = FALSE
  BY DEF Init, ProvisioningInit
<1>2. JobFields(NoJob) /\ NoJob.pc = "idle" /\ NoJob.op # "patch"
  BY IdAssumption DEF NoJob, JobFields
<1>3. JobType
  BY <1>1, <1>2 DEF JobType, JobFields
<1>4. ReloadInv
  BY <1>1, <1>2 DEF ReloadInv, Holding
<1>5. PatchInv /\ CheckedInv
  BY <1>1, <1>2 DEF PatchInv, CheckedInv
<1>6. Sockets(plugged) /\ Listed(saved)
  <2>1. CASE "provisioning" \in parts
    <3>1. PICK h \in Hosts : plugged = h.plugged /\ saved = h.saved
      BY <2>1 DEF Init, ProvisioningInit
    <3>2. Sockets(plugged)
      BY <3>1, HostsAssumption, Zenon DEF Sockets
    <3>3. ValidConfig(saved) /\ saved \in Seq(Range(saved))
      BY <3>1, HostsAssumption
    <3>4. \A i \in DOMAIN saved : ValidDevice(saved[i])
      BY <3>3, Zenon DEF ValidConfig
    <3>5. ASSUME NEW x, ValidDevice(x)
          PROVE  x.id # None
      BY <3>5, SMT DEF ValidDevice
    <3> QED
      BY <3>2, <3>3, <3>4, <3>5 DEF Listed
  <2>2. CASE "provisioning" \notin parts
    <3>1. plugged = [u \in DOMAIN Unit |-> None] /\ saved = <<>>
      BY <2>2 DEF Init, ProvisioningInit
    <3>2. Sockets(plugged)
      BY <3>1 DEF Sockets
    <3> QED
      BY <3>1, <3>2 DEF Listed
  <2> QED
    BY <2>1, <2>2
<1> QED
  BY <1>3, <1>4, <1>5, <1>6 DEF DevicesInv

\* The lock, the hand-over to the run loop and what a provision saw of the
\* hardware at its last check, together (ProvisionDevice, PatchConfig and
\* DeleteDevice in internal/mgmtserver, the reloader and the provider in
\* cmd/remotemic/management.go).
THEOREM DevicesInvariant == Spec => []DevicesInv
<1>1. DevicesInv /\ [Next]_vars => DevicesInv'
  <2> SUFFICES ASSUME DevicesInv, [Next]_vars PROVE DevicesInv'
    OBVIOUS
  <2>1. CASE ProvisioningStep
    BY <2>1, DevicesStep
  <2>2. CASE UNCHANGED provisioningVars
    <3>1. plugged' = plugged /\ saved' = saved /\ running' = running /\ job' = job /\ left' = left
      BY <2>2 DEF provisioningVars
    <3>2. JobType' /\ Sockets(plugged)'
      BY <3>1 DEF DevicesInv, JobType, Sockets
    <3> QED
      BY <3>1, <3>2, JobsStay
  <2> QED
    BY <2>1, <2>2 DEF Next, vars, NotPage
<1> QED
  BY <1>1, DevicesStart, PTL DEF Spec

\* A provision saves no second entry for a unit that has one, whatever id that
\* one has, if nothing was plugged or unplugged since the client asked and no
\* reload was left undone at the last check (ProvisionDevice in
\* internal/mgmtserver/devices.go).
THEOREM NoUnitTwice == Spec => OneEntryPerUnit
<1>1. DevicesInv /\ [Next]_vars =>
        [\A r \in Requesters :
          (job[r].op = "provision" /\ job[r].pc = "update" /\ job'[r].pc = "reload" /\ job[r].steady)
              => \A i \in DOMAIN saved : Named(saved[i].id) \cap Named(Last(saved').id) = {}]_vars
  <2> SUFFICES ASSUME DevicesInv, Next, NEW r \in Requesters,
                      job[r].op = "provision", job[r].pc = "update", job'[r].pc = "reload", job[r].steady,
                      NEW i \in DOMAIN saved
               PROVE  Named(saved[i].id) \cap Named(Last(saved').id) = {}
    OBVIOUS
  <2>1. ProvisioningStep
    <3>1. CASE UNCHANGED provisioningVars
      BY <3>1 DEF provisioningVars
    <3> QED
      BY <3>1 DEF Next, NotPage
  <2>2. UpdateStore(r)
    BY <2>1, OnlyUpdateSaves DEF DevicesInv
  <2>3. PICK id : id = job[r].found.id
    OBVIOUS
  <2>4. Last(saved').id = id
    BY <2>2, <2>3, ProvisionWrites
  <2>5. Unowned(id)
    BY <2>3 DEF DevicesInv, CheckedInv
  <2>6. PICK u \in Here : id = OfferedId(u)
    BY <2>5 DEF Unowned
  <2>7. PICK e : e = saved[i].id
    OBVIOUS
  <2>8. e # None /\ id \notin Claims(e) /\ Sockets(plugged)
    BY <2>5, <2>7 DEF Unowned, RefreshHardware, DevicesInv, Listed
  <2>9. Named(e) \cap Named(id) = {}
    BY <2>6, <2>8, OneUnit
  <2> QED
    BY <2>4, <2>7, <2>9
<1> QED
  BY <1>1, DevicesInvariant, PTL DEF OneEntryPerUnit, Spec

-----------------------------------------------------------------------------
(* The switch of the release checks *)

\* A list of steps is taken from the front.
LEMMA Received ==
    ASSUME NEW S, NEW q \in Seq(S), q # <<>>
    PROVE  /\ 1 \in 1 .. Len(q) /\ Len(q) \in Nat /\ Head(q) = q[1] /\ Head(q) \in S
           /\ Tail(q) \in Seq(S) /\ Len(Tail(q)) = Len(q) - 1
           /\ \A i \in 1 .. Len(Tail(q)) : i + 1 \in 1 .. Len(q) /\ Tail(q)[i] = q[i + 1]
<1>1. Tail(q) \in Seq(S) /\ Len(Tail(q)) = Len(q) - 1
  OBVIOUS
<1>2. \A i \in 1 .. Len(q) - 1 : Tail(q)[i] = q[i + 1]
  OBVIOUS
<1>3. 1 \in 1 .. Len(q) /\ Head(q) = q[1] /\ Head(q) \in S /\ Len(q) \in Nat
  OBVIOUS
<1> QED
  BY <1>1, <1>2, <1>3

\* The elements of a list, and its first.
LEMMA Elements ==
    ASSUME NEW S, NEW q \in Seq(S)
    PROVE  /\ Len(q) \in Nat /\ (q # <<>> <=> Len(q) >= 1)
           /\ q # <<>> => Head(q) = q[1]
           /\ \A i \in 1 .. Len(q) : q[i] \in S
<1>1. Len(q) \in Nat /\ \A i \in 1 .. Len(q) : q[i] \in S
  OBVIOUS
<1>2. q # <<>> => Len(q) >= 1
  OBVIOUS
<1>3. q = <<>> => ~(Len(q) >= 1)
  OBVIOUS
<1>4. q # <<>> => Head(q) = q[1]
  OBVIOUS
<1> QED
  BY <1>1, <1>2, <1>3, <1>4

\* Two lists in a row.
LEMMA Joined ==
    ASSUME NEW S, NEW s \in Seq(S), NEW t \in Seq(S)
    PROVE  /\ s \o t \in Seq(S) /\ Len(s \o t) = Len(s) + Len(t)
           /\ \A i \in 1 .. Len(s) + Len(t) : (s \o t)[i] = IF i <= Len(s) THEN s[i] ELSE t[i - Len(s)]
           /\ s \o <<>> = s
  BY ConcatProperties, ConcatEmptySeq

\* Short lists by their elements.
LEMMA FourSteps ==
    ASSUME NEW a, NEW b, NEW c, NEW d, NEW S, {a, b, c, d} \subseteq S
    PROVE LET s == <<a, b, c, d>> IN s \in Seq(S) /\ Len(s) = 4 /\ s[1] = a /\ s[2] = b /\ s[3] = c /\ s[4] = d
 OBVIOUS

\* Shorter ones.
LEMMA FewSteps == ASSUME NEW S, NEW a \in S, NEW b \in S
   PROVE <<>> \in Seq(S) /\ <<a>> \in Seq(S) /\ <<a, b>> \in Seq(S)
 OBVIOUS
\* The steps of an Apply.
Tasks == {"store", "attach", "host", "swap", "offGen", "forget", "wake"}

\* What is left of turning checks off is in its order, and nothing of it is
\* reached but by the step before.
Orderly(todo) ==
    /\ todo \in Seq(Tasks)
    /\ \A i \in 1 .. Len(todo) :
          /\ todo[i] = "swap" => Len(todo) = i + 3 /\ todo[i + 1] = "offGen"
          /\ todo[i] = "offGen" => Len(todo) = i + 2 /\ todo[i + 1] = "forget" /\ (i > 1 => todo[i - 1] = "swap")
          /\ todo[i] = "forget" => Len(todo) = i + 1 /\ todo[i + 1] = "wake" /\ (i > 1 => todo[i - 1] = "offGen")
          /\ todo[i] = "wake" => Len(todo) = i /\ (i > 1 => todo[i - 1] = "forget")

\* The run loop's next step of an Apply.
Ahead(step) == loop.todo # <<>> /\ Head(loop.todo) = step

\* The records the manager is read and written by field.
ManagerType ==
    /\ DOMAIN mgr = {"enabled", "offGen", "wake", "pc", "seen", "timer", "latest", "available", "notice", "checked", "failures"}
    /\ DOMAIN mgr.timer = {"delay", "due", "gen"}
    /\ DOMAIN checks = Askers
    /\ \A a \in Askers : DOMAIN checks[a] = {"st", "fetch", "stopped", "gen", "r"}

\* Its counters, and the run loop's list of steps.
SwitchType ==
    /\ mgr.offGen \in Nat /\ mgr.seen \in Nat
    /\ DOMAIN loop = {"set", "todo", "stopping"}
    /\ Orderly(loop.todo)

\* A generation the loop has not gone past.
Fresh(gen) == gen \in Nat /\ mgr.seen <= gen /\ gen <= mgr.offGen

\* What the manager has, and what a check that goes on will give it, is of the
\* current generation, but for the moment between counting and forgetting.
FoundInv ==
    /\ Ahead("offGen") \/ Ahead("forget") => ~mgr.enabled
    /\ mgr.latest # None => mgr.latest.gen = mgr.offGen \/ Ahead("forget")
    /\ \A a \in Askers : checks[a].st = "fetch" /\ ~checks[a].stopped => checks[a].gen = mgr.offGen \/ Ahead("forget")

\* The loop's timer and check are of a generation it has not gone past.
LoopInv ==
    /\ mgr.seen <= mgr.offGen
    /\ mgr.timer # NoTimer => Fresh(mgr.timer.gen)
    /\ mgr.pc = "check" <=> checks["loop"].st # "idle"
    /\ checks["loop"].st \in {"fetch", "done"} => Fresh(checks["loop"].gen)

\* A loop that has not seen the current generation, or whose timer is not as
\* the switch has it, is woken or about to be.
WakeInv ==
    /\ (mgr.pc # "top" /\ ~mgr.wake /\ ~Ahead("forget") /\ ~Ahead("wake")) => mgr.seen = mgr.offGen
    /\ (mgr.pc = "select" /\ ~mgr.wake /\ ~Ahead("offGen") /\ ~Ahead("forget") /\ ~Ahead("wake"))
          => (mgr.enabled <=> mgr.timer # NoTimer)

OffInv == ManagerType /\ SwitchType /\ FoundInv /\ LoopInv /\ WakeInv

\* Doing the first step leaves the others in their order.
LEMMA OrderlyTail ==
    ASSUME NEW todo, Orderly(todo), todo # <<>>
    PROVE  /\ Orderly(Tail(todo))
           /\ Head(todo) = "swap" => Tail(todo) # <<>> /\ Head(Tail(todo)) = "offGen"
           /\ Head(todo) = "offGen" => Tail(todo) # <<>> /\ Head(Tail(todo)) = "forget"
           /\ Head(todo) = "forget" => Tail(todo) # <<>> /\ Head(Tail(todo)) = "wake"
           /\ Head(todo) = "wake" => Tail(todo) = <<>>
           /\ Tail(todo) # <<>> /\ Head(todo) \notin {"swap", "offGen", "forget"} =>
                 Head(Tail(todo)) \notin {"offGen", "forget", "wake"}
<1> DEFINE t == Tail(todo)
<1>0. todo \in Seq(Tasks)
  BY DEF Orderly
<1>1. /\ 1 \in 1 .. Len(todo) /\ Len(todo) \in Nat /\ Head(todo) = todo[1]
      /\ t \in Seq(Tasks) /\ Len(t) = Len(todo) - 1
      /\ \A i \in 1 .. Len(t) : i + 1 \in 1 .. Len(todo) /\ t[i] = todo[i + 1]
  BY <1>0, Received
<1> HIDE DEF t
<1>3. (t # <<>> <=> Len(t) >= 1) /\ (t # <<>> => Head(t) = t[1])
  BY <1>1, Elements
<1>4. Orderly(t)
  <2> SUFFICES ASSUME NEW i \in 1 .. Len(t)
               PROVE  /\ t[i] = "swap" => Len(t) = i + 3 /\ t[i + 1] = "offGen"
                      /\ t[i] = "offGen" => Len(t) = i + 2 /\ t[i + 1] = "forget" /\ (i > 1 => t[i - 1] = "swap")
                      /\ t[i] = "forget" => Len(t) = i + 1 /\ t[i + 1] = "wake" /\ (i > 1 => t[i - 1] = "offGen")
                      /\ t[i] = "wake" => Len(t) = i /\ (i > 1 => t[i - 1] = "forget")
    BY <1>1 DEF Orderly
  <2>1. t[i] = todo[i + 1] /\ i + 1 \in 1 .. Len(todo)
    BY <1>1
  <2>2. i + 1 <= Len(t) => t[i + 1] = todo[(i + 1) + 1]
    BY <1>1
  <2>3. i > 1 => t[i - 1] = todo[(i + 1) - 1]
    BY <1>1
  <2> QED
    BY <1>1, <2>1, <2>2, <2>3 DEF Orderly
<1>5. Len(t) >= 1 => t[1] = todo[2]
  BY <1>1
<1>6. /\ todo[1] = "swap" => Len(todo) = 4 /\ todo[2] = "offGen"
      /\ todo[1] = "offGen" => Len(todo) = 3 /\ todo[2] = "forget"
      /\ todo[1] = "forget" => Len(todo) = 2 /\ todo[2] = "wake"
      /\ todo[1] = "wake" => Len(todo) = 1
  BY <1>1 DEF Orderly
<1>7. Len(todo) >= 2 /\ todo[1] \notin {"swap", "offGen", "forget"} => todo[2] \notin {"offGen", "forget", "wake"}
  <2> SUFFICES ASSUME Len(todo) >= 2, todo[1] \notin {"swap", "offGen", "forget"}
               PROVE  todo[2] \notin {"offGen", "forget", "wake"}
    OBVIOUS
  <2>1. 2 \in 1 .. Len(todo) /\ 2 > 1 /\ 2 - 1 = 1
    BY <1>1
  <2> QED
    BY <2>1 DEF Orderly
<1> QED
  BY <1>1, <1>3, <1>4, <1>5, <1>6, <1>7 DEF t

\* What an Apply has to do is in order, and begins with no step of the forgetting.
LEMMA OrderlyApply ==
    Orderly(ApplySteps) /\ (ApplySteps # <<>> => Head(ApplySteps) \notin {"offGen", "forget", "wake"})
<1> DEFINE A == IF "signal" \in parts THEN <<"store", "attach">> ELSE <<>>
           B == IF "host" \in parts THEN <<"host">> ELSE <<>>
           C == IF "updates" \in parts THEN <<"swap", "offGen", "forget", "wake">> ELSE <<>>
           D == A \o B
           Others == {"store", "attach", "host"}
           s == D \o C
           n == Len(D)
<1>1. ApplySteps = s
  BY DEF ApplySteps
<1>2. D \in Seq(Others)
  <2>1. A \in Seq(Others) /\ B \in Seq(Others)
    <3>1. <<>> \in Seq(Others) /\ <<"host">> \in Seq(Others) /\ <<"store", "attach">> \in Seq(Others)
      BY FewSteps
    <3> QED
      BY <3>1
  <2> HIDE DEF A, B
  <2> QED
    BY <2>1, Joined
<1>3. n \in Nat /\ \A i \in 1 .. n : D[i] \in Others
  BY <1>2, Elements
<1>4. D \in Seq(Tasks)
  <2>1. Others \subseteq Tasks
    BY DEF Tasks
  <2> QED
    BY <1>2, <2>1, SeqMonotonic
<1>5. C = <<>> \/ C = <<"swap", "offGen", "forget", "wake">>
  OBVIOUS
<1> HIDE DEF C, D, s
<1>6. CASE C = <<>>
  <2>1. s = D
    BY <1>4, <1>6, Joined DEF s
  <2>2. Orderly(s)
    BY <1>3, <1>4, <2>1 DEF Orderly
  <2>3. s # <<>> => Head(s) \in Others
    BY <1>2, <2>1, Received
  <2> QED
    BY <1>1, <2>2, <2>3
<1>7. CASE C = <<"swap", "offGen", "forget", "wake">>
  <2>1. C \in Seq(Tasks) /\ Len(C) = 4 /\ C[1] = "swap" /\ C[2] = "offGen" /\ C[3] = "forget" /\ C[4] = "wake"
    <3>1. {"swap", "offGen", "forget", "wake"} \subseteq Tasks
      BY DEF Tasks
    <3> QED
      BY <1>7, <3>1, FourSteps
  <2>2. /\ s \in Seq(Tasks) /\ Len(s) = n + 4
        /\ \A i \in 1 .. n + 4 : s[i] = IF i <= n THEN D[i] ELSE C[i - n]
    <3>1. /\ D \o C \in Seq(Tasks) /\ Len(D \o C) = Len(D) + Len(C)
          /\ \A i \in 1 .. Len(D) + Len(C) : (D \o C)[i] = IF i <= Len(D) THEN D[i] ELSE C[i - Len(D)]
      BY <1>4, <2>1, Joined
    <3> QED
      BY <2>1, <3>1 DEF s
  <2> HIDE DEF n
  <2>3. s[n + 1] = "swap" /\ s[n + 2] = "offGen" /\ s[n + 3] = "forget" /\ s[n + 4] = "wake"
    BY <1>3, <2>1, <2>2
  <2>4. \A i \in 1 .. n : s[i] \in Others
    BY <1>3, <2>2
  <2>5. Orderly(s)
    <3> SUFFICES ASSUME NEW i \in 1 .. Len(s)
                 PROVE  /\ s[i] = "swap" => Len(s) = i + 3 /\ s[i + 1] = "offGen"
                        /\ s[i] = "offGen" => Len(s) = i + 2 /\ s[i + 1] = "forget" /\ (i > 1 => s[i - 1] = "swap")
                        /\ s[i] = "forget" => Len(s) = i + 1 /\ s[i + 1] = "wake" /\ (i > 1 => s[i - 1] = "offGen")
                        /\ s[i] = "wake" => Len(s) = i /\ (i > 1 => s[i - 1] = "forget")
      BY <2>2 DEF Orderly
    <3>1. i \in 1 .. n \/ i = n + 1 \/ i = n + 2 \/ i = n + 3 \/ i = n + 4
      BY <1>3, <2>2
    <3>2. CASE i \in 1 .. n
      BY <2>4, <3>2
    <3>3. CASE i = n + 1
      BY <1>3, <2>2, <2>3, <3>3
    <3>4. CASE i = n + 2
      BY <1>3, <2>2, <2>3, <3>4
    <3>5. CASE i = n + 3
      BY <1>3, <2>2, <2>3, <3>5
    <3>6. CASE i = n + 4
      BY <1>3, <2>2, <2>3, <3>6
    <3> QED
      BY <3>1, <3>2, <3>3, <3>4, <3>5, <3>6
  <2>6. s # <<>> => Head(s) = s[1]
    BY <2>2, Elements
  <2>7. s[1] \in Others \/ s[1] = "swap"
    BY <1>3, <2>2, <2>3, <2>4
  <2> QED
    BY <1>1, <2>5, <2>6, <2>7
<1> QED
  BY <1>5, <1>6, <1>7

\* What the monitors do to the run loop's list does not concern the manager.
LEMMA MonitorsApart ==
    ASSUME SwitchType, MonitorStep, mgr' = mgr
    PROVE  /\ SwitchType'
           /\ \A step \in {"offGen", "forget", "wake"} : Ahead(step)' <=> Ahead(step)
<1>1. CASE ApplySettings
  <2>1. loop.todo = <<>> /\ DOMAIN loop' = DOMAIN loop /\ loop'.todo = ApplySteps
    BY <1>1 DEF ApplySettings, SwitchType
  <2>2. \A step \in {"offGen", "forget", "wake"} : ~Ahead(step)' /\ ~Ahead(step)
    BY <2>1, OrderlyApply DEF Ahead
  <2> QED
    BY <2>1, <2>2, OrderlyApply DEF SwitchType
<1>2. CASE SignalStores \/ SignalAttaches \/ HostApplies
  <2>1. /\ loop.todo # <<>> /\ Head(loop.todo) \in {"store", "attach", "host"}
        /\ loop' = [loop EXCEPT !.todo = Tail(@)]
    BY <1>2 DEF SignalStores, SignalAttaches, HostApplies, Applies
  <2>2. DOMAIN loop' = DOMAIN loop /\ loop'.todo = Tail(loop.todo)
    BY <2>1 DEF SwitchType
  <2>3. \A step \in {"offGen", "forget", "wake"} : ~Ahead(step)' /\ ~Ahead(step)
    BY <2>1, <2>2, OrderlyTail DEF Ahead, SwitchType
  <2> QED
    BY <2>1, <2>2, <2>3, OrderlyTail DEF SwitchType
<1>3. CASE Stopping
  <2>1. DOMAIN loop' = DOMAIN loop /\ loop'.todo = loop.todo
    BY <1>3 DEF Stopping, SwitchType
  <2> QED
    BY <2>1 DEF SwitchType, Ahead
<1>4. CASE loop' = loop
  BY <1>4 DEF SwitchType, Ahead
<1> QED
  BY <1>1, <1>2, <1>3, <1>4
  DEF MonitorStep, RuntimeStarts, MeterObserve, HubCancel, SignalDetaches, SignalCloses, HostPoll, HostStops,
      SignalWindow, Sound, RuntimeEnds, RuntimeRestarts, Loses, HubSubscribe, HostReads

-----------------------------------------------------------------------------
(* The manager's steps *)

\* A step of an Apply that is the manager's.
LEMMA ManagerApplies ==
    ASSUME SwitchType, NEW step \in {"offGen", "forget", "wake"}, Applies(step)
    PROVE  /\ DOMAIN loop' = DOMAIN loop /\ Orderly(loop'.todo)
           /\ Ahead(step) /\ ~Ahead("swap")
           /\ Ahead("forget")' <=> step = "offGen"
           /\ Ahead("wake")' <=> step = "forget"
           /\ ~Ahead("offGen")'
<1>1. loop.todo # <<>> /\ Head(loop.todo) = step /\ loop' = [loop EXCEPT !.todo = Tail(@)]
  BY DEF Applies
<1>2. DOMAIN loop' = DOMAIN loop /\ loop'.todo = Tail(loop.todo)
  BY <1>1 DEF SwitchType
<1> QED
  BY <1>1, <1>2, OrderlyTail DEF Ahead, SwitchType

\* Every step of the update manager and its checks keeps the switch's invariant.
LEMMA OffStepInv ==
    ASSUME OffInv, UpdateStep
    PROVE  OffInv'
<1> USE DEF OffInv
<1>0. /\ ManagerType /\ SwitchType /\ FoundInv /\ LoopInv /\ WakeInv
      /\ \A gen : Fresh(gen) => gen \in Nat /\ mgr.seen <= gen /\ gen <= mgr.offGen
      /\ "loop" \in Askers /\ "manual" \in Askers
  BY DEF Fresh, Askers
<1>1. CASE ManagerSwaps
  <2>1. /\ loop.todo # <<>> /\ Head(loop.todo) = "swap"
        /\ loop' = [loop EXCEPT !.todo = IF mgr.enabled = loop.set.checks THEN <<>>
                                     ELSE IF loop.set.checks THEN <<"wake">> ELSE Tail(@)]
        /\ mgr' = [mgr EXCEPT !.enabled = loop.set.checks] /\ checks' = checks
    BY <1>1 DEF ManagerSwaps
  <2>2. /\ mgr'.enabled = loop.set.checks /\ mgr'.offGen = mgr.offGen /\ mgr'.wake = mgr.wake /\ mgr'.pc = mgr.pc
        /\ mgr'.seen = mgr.seen /\ mgr'.timer = mgr.timer /\ mgr'.latest = mgr.latest /\ DOMAIN mgr' = DOMAIN mgr
    BY <1>0, <2>1 DEF ManagerType
  <2>3. DOMAIN loop' = DOMAIN loop /\ loop'.todo = IF mgr.enabled = loop.set.checks THEN <<>>
                                     ELSE IF loop.set.checks THEN <<"wake">> ELSE Tail(loop.todo)
    BY <1>0, <2>1 DEF SwitchType
  <2>4. /\ Orderly(loop'.todo) /\ ~Ahead("forget")' /\ ~Ahead("forget")
        /\ ~Ahead("offGen") /\ ~Ahead("wake")
        /\ Ahead("offGen")' => ~mgr'.enabled
        /\ mgr'.enabled # mgr.enabled => Ahead("wake")' \/ Ahead("offGen")'
    <3>1. Orderly(<<>>) /\ Orderly(<<"wake">>) /\ Head(<<"wake">>) = "wake" /\ <<"wake">> # <<>>
      <4>1. "wake" \in Tasks
        BY DEF Tasks
      <4>2. <<>> \in Seq(Tasks) /\ <<"wake">> \in Seq(Tasks) /\ Len(<<"wake">>) = 1 /\ <<"wake">>[1] = "wake" /\ Len(<<>>) = 0
        BY <4>1, FewSteps
      <4> QED
        BY <4>2 DEF Orderly
    <3>2. Orderly(Tail(loop.todo)) /\ Tail(loop.todo) # <<>> /\ Head(Tail(loop.todo)) = "offGen"
      BY <1>0, <2>1, OrderlyTail DEF SwitchType
    <3>3. CASE mgr.enabled = loop.set.checks
      <4>1. loop'.todo = <<>>
        BY <2>3, <3>3
      <4> QED
        BY <2>1, <2>2, <3>1, <3>3, <4>1 DEF Ahead
    <3>4. CASE mgr.enabled # loop.set.checks /\ loop.set.checks
      <4>1. loop'.todo = <<"wake">>
        BY <2>3, <3>4
      <4> QED
        BY <2>1, <2>2, <3>1, <3>4, <4>1 DEF Ahead
    <3>5. CASE mgr.enabled # loop.set.checks /\ ~loop.set.checks
      <4>1. loop'.todo = Tail(loop.todo)
        BY <2>3, <3>5
      <4> QED
        BY <2>1, <2>2, <3>2, <3>5, <4>1 DEF Ahead
    <3> QED
      BY <3>3, <3>4, <3>5
  <2> QED
    BY <1>0, <2>1, <2>2, <2>3, <2>4 DEF ManagerType, SwitchType, FoundInv, LoopInv, WakeInv, Fresh
<1>2. CASE ManagerCounts
  <2>1. /\ DOMAIN loop' = DOMAIN loop /\ Orderly(loop'.todo) /\ Ahead("offGen")
        /\ Ahead("forget")' /\ ~Ahead("wake")' /\ ~Ahead("offGen")'
    BY <1>0, <1>2, ManagerApplies DEF ManagerCounts
  <2>2. /\ mgr'.enabled = mgr.enabled /\ mgr'.offGen = mgr.offGen + 1 /\ mgr'.wake = mgr.wake /\ mgr'.pc = mgr.pc
        /\ mgr'.seen = mgr.seen /\ mgr'.timer = mgr.timer /\ mgr'.latest = mgr.latest /\ DOMAIN mgr' = DOMAIN mgr
        /\ checks' = checks
    BY <1>0, <1>2 DEF ManagerCounts, ManagerType
  <2>3. ManagerType' /\ SwitchType'
    BY <1>0, <2>1, <2>2 DEF ManagerType, SwitchType
  <2>4. FoundInv' /\ WakeInv'
    BY <1>0, <2>1, <2>2 DEF FoundInv, WakeInv
  <2>5. \A gen : Fresh(gen) => gen \in Nat /\ mgr'.seen <= gen /\ gen <= mgr'.offGen
    BY <1>0, <2>2 DEF Fresh, SwitchType
  <2>6. LoopInv'
    BY <1>0, <2>2, <2>5 DEF LoopInv, SwitchType, Fresh
  <2> QED
    BY <2>3, <2>4, <2>6
<1>3. CASE ManagerForgets
  <2>1. /\ DOMAIN loop' = DOMAIN loop /\ Orderly(loop'.todo) /\ Ahead("forget")
        /\ ~Ahead("forget")' /\ Ahead("wake")' /\ ~Ahead("offGen")'
    BY <1>0, <1>3, ManagerApplies DEF ManagerForgets
  <2>2. /\ mgr'.enabled = mgr.enabled /\ mgr'.offGen = mgr.offGen /\ mgr'.wake = mgr.wake /\ mgr'.pc = mgr.pc
        /\ mgr'.seen = mgr.seen /\ mgr'.timer = mgr.timer /\ mgr'.latest = None /\ DOMAIN mgr' = DOMAIN mgr
    BY <1>0, <1>3 DEF ManagerForgets, ManagerType
  <2>3. checks' = [a \in Askers |-> [checks[a] EXCEPT !.stopped = @ \/ checks[a].st = "fetch"]]
    BY <1>3 DEF ManagerForgets
  <2>4. DOMAIN checks' = Askers /\ \A a \in Askers :
           /\ DOMAIN checks'[a] = DOMAIN checks[a] /\ checks'[a].st = checks[a].st /\ checks'[a].gen = checks[a].gen
           /\ checks[a].st = "fetch" => checks'[a].stopped
    BY <1>0, <2>3 DEF ManagerType
  <2>5. ManagerType' /\ SwitchType'
    BY <1>0, <2>1, <2>2, <2>4 DEF ManagerType, SwitchType
  <2>6. FoundInv' /\ WakeInv'
    BY <1>0, <2>1, <2>2, <2>4 DEF FoundInv, WakeInv
  <2>7. LoopInv'
    BY <1>0, <2>2, <2>4 DEF LoopInv, Fresh
  <2> QED
    BY <2>5, <2>6, <2>7
<1>4. CASE ManagerWakes
  <2>1. /\ DOMAIN loop' = DOMAIN loop /\ Orderly(loop'.todo) /\ Ahead("wake")
        /\ ~Ahead("forget")' /\ ~Ahead("wake")' /\ ~Ahead("offGen")'
    BY <1>0, <1>4, ManagerApplies DEF ManagerWakes
  <2>2. /\ mgr'.enabled = mgr.enabled /\ mgr'.offGen = mgr.offGen /\ mgr'.wake = TRUE /\ mgr'.pc = mgr.pc
        /\ mgr'.seen = mgr.seen /\ mgr'.timer = mgr.timer /\ mgr'.latest = mgr.latest /\ DOMAIN mgr' = DOMAIN mgr
        /\ checks' = checks
    BY <1>0, <1>4 DEF ManagerWakes, ManagerType
  <2>3. ~Ahead("forget")
    BY <2>1 DEF Ahead
  <2> QED
    BY <1>0, <2>1, <2>2, <2>3 DEF ManagerType, SwitchType, FoundInv, LoopInv, WakeInv, Fresh
<1>5. CASE LoopSeesOff
  <2>1. /\ mgr.pc = "top" /\ loop' = loop /\ checks' = checks
        /\ mgr' = [mgr EXCEPT !.pc = "arm", !.seen = mgr.offGen, !.timer = IF mgr.offGen # mgr.seen THEN NoTimer ELSE mgr.timer]
    BY <1>5 DEF LoopSeesOff
  <2>2. /\ mgr'.enabled = mgr.enabled /\ mgr'.offGen = mgr.offGen /\ mgr'.wake = mgr.wake /\ mgr'.pc = "arm"
        /\ mgr'.seen = mgr.offGen /\ mgr'.latest = mgr.latest /\ DOMAIN mgr' = DOMAIN mgr
        /\ mgr'.timer = IF mgr.offGen # mgr.seen THEN NoTimer ELSE mgr.timer
    BY <1>0, <2>1 DEF ManagerType
  <2>3. DOMAIN NoTimer = {"delay", "due", "gen"}
    BY DEF NoTimer
  <2>4. \A step : Ahead(step)' = Ahead(step)
    BY <2>1 DEF Ahead
  <2>5. ManagerType' /\ SwitchType'
    BY <1>0, <2>1, <2>2, <2>3 DEF ManagerType, SwitchType
  <2>6. FoundInv'
    BY <1>0, <2>1, <2>2 DEF FoundInv, Ahead
  <2>7. WakeInv'
    BY <2>2 DEF WakeInv
  <2>8. LoopInv'
    BY <1>0, <2>1, <2>2 DEF LoopInv, Fresh, SwitchType
  <2> QED
    BY <2>5, <2>6, <2>7, <2>8
<1>6. CASE LoopArms
  <2>1. /\ mgr.pc = "arm" /\ loop' = loop /\ checks' = checks
        /\ mgr' = [mgr EXCEPT !.pc = "select",
                          !.timer = IF ~mgr.enabled THEN NoTimer ELSE IF mgr.timer = NoTimer THEN Timer(FirstCheckDelay) ELSE mgr.timer]
    BY <1>6 DEF LoopArms
  <2>2. /\ mgr'.enabled = mgr.enabled /\ mgr'.offGen = mgr.offGen /\ mgr'.wake = mgr.wake /\ mgr'.pc = "select"
        /\ mgr'.seen = mgr.seen /\ mgr'.latest = mgr.latest /\ DOMAIN mgr' = DOMAIN mgr
        /\ mgr'.timer = IF ~mgr.enabled THEN NoTimer ELSE IF mgr.timer = NoTimer THEN Timer(FirstCheckDelay) ELSE mgr.timer
    BY <1>0, <2>1 DEF ManagerType
  <2>3. /\ DOMAIN NoTimer = {"delay", "due", "gen"} /\ DOMAIN Timer(FirstCheckDelay) = {"delay", "due", "gen"}
        /\ Timer(FirstCheckDelay).gen = mgr.offGen /\ Timer(FirstCheckDelay) # NoTimer
    BY UpdateBounds DEF NoTimer, Timer, FirstCheckDelay
  <2>4. ManagerType' /\ SwitchType'
    BY <1>0, <2>1, <2>2, <2>3 DEF ManagerType, SwitchType
  <2>5. FoundInv'
    BY <1>0, <2>1, <2>2 DEF FoundInv, Ahead
  <2>6. WakeInv'
    BY <1>0, <2>1, <2>2, <2>3 DEF WakeInv, Ahead
  <2>7. LoopInv'
    BY <1>0, <2>1, <2>2, <2>3 DEF LoopInv, Fresh, SwitchType
  <2> QED
    BY <2>4, <2>5, <2>6, <2>7
<1>7. CASE LoopWakes
  <2>1. /\ mgr.pc = "select" /\ loop' = loop /\ checks' = checks /\ mgr' = [mgr EXCEPT !.pc = "top", !.wake = FALSE]
    BY <1>7 DEF LoopWakes
  <2>2. /\ mgr'.enabled = mgr.enabled /\ mgr'.offGen = mgr.offGen /\ mgr'.wake = FALSE /\ mgr'.pc = "top"
        /\ mgr'.seen = mgr.seen /\ mgr'.timer = mgr.timer /\ mgr'.latest = mgr.latest /\ DOMAIN mgr' = DOMAIN mgr
    BY <1>0, <2>1 DEF ManagerType
  <2> QED
    BY <1>0, <2>1, <2>2 DEF ManagerType, SwitchType, FoundInv, LoopInv, WakeInv, Fresh, Ahead
<1>8. CASE TimerIsDue
  <2>1. /\ mgr.timer # NoTimer /\ loop' = loop /\ checks' = checks
        /\ mgr' = [mgr EXCEPT !.timer = [mgr.timer EXCEPT !.due = TRUE]]
    BY <1>8 DEF TimerIsDue
  <2>2. /\ mgr'.enabled = mgr.enabled /\ mgr'.offGen = mgr.offGen /\ mgr'.wake = mgr.wake /\ mgr'.pc = mgr.pc
        /\ mgr'.seen = mgr.seen /\ mgr'.timer = [mgr.timer EXCEPT !.due = TRUE] /\ mgr'.latest = mgr.latest
        /\ DOMAIN mgr' = DOMAIN mgr
    BY <1>0, <2>1 DEF ManagerType
  <2>3. /\ mgr'.timer # NoTimer /\ mgr'.timer.gen = mgr.timer.gen /\ DOMAIN mgr'.timer = DOMAIN mgr.timer
    BY <1>0, <2>2 DEF ManagerType, NoTimer
  <2>4. ManagerType' /\ SwitchType'
    BY <1>0, <2>1, <2>2, <2>3 DEF ManagerType, SwitchType
  <2> QED
    BY <1>0, <2>1, <2>2, <2>3, <2>4 DEF FoundInv, LoopInv, WakeInv, Fresh, Ahead
<1>9. ASSUME NEW a \in Askers, NEW c, checks' = [checks EXCEPT ![a] = c], DOMAIN c = {"st", "fetch", "stopped", "gen", "r"},
             c.st = "idle" <=> checks[a].st = "idle", loop' = loop, mgr' = mgr,
             c.st = "fetch" /\ ~c.stopped => c.gen = mgr.offGen \/ Ahead("forget"),
             a = "loop" /\ c.st \in {"fetch", "done"} => Fresh(c.gen)
      PROVE  OffInv'
  <2>1. DOMAIN checks' = Askers /\ checks'[a] = c /\ \A b \in Askers \ {a} : checks'[b] = checks[b]
    BY <1>0, <1>9 DEF ManagerType
  <2>2. ManagerType'
    BY <1>0, <1>9, <2>1 DEF ManagerType
  <2>3. FoundInv'
    BY <1>0, <1>9, <2>1 DEF FoundInv, Ahead
  <2>4. LoopInv'
    <3>1. CASE a = "loop"
      BY <1>0, <1>9, <2>1, <3>1 DEF LoopInv, Fresh
    <3>2. CASE a # "loop"
      BY <1>0, <1>9, <2>1, <3>2 DEF LoopInv, Fresh
    <3> QED
      BY <3>1, <3>2
  <2>5. SwitchType' /\ WakeInv'
    BY <1>0, <1>9 DEF SwitchType, WakeInv, Ahead
  <2> QED
    BY <2>2, <2>3, <2>4, <2>5
<1>10. ASSUME NEW a \in Askers, NEW c, checks' = [checks EXCEPT ![a] = c], DOMAIN c = {"st", "fetch", "stopped", "gen", "r"},
              c.st = "done" /\ checks[a].st = "fetch" /\ c.gen = checks[a].gen, loop' = loop, DOMAIN mgr' = DOMAIN mgr,
              mgr'.enabled = mgr.enabled /\ mgr'.offGen = mgr.offGen /\ mgr'.wake = mgr.wake /\ mgr'.pc = mgr.pc,
              mgr'.seen = mgr.seen /\ mgr'.timer = mgr.timer,
              mgr'.latest # None => mgr'.latest = mgr.latest \/ mgr'.latest.gen = mgr.offGen \/ Ahead("forget")
       PROVE  OffInv'
  <2>1. DOMAIN checks' = Askers /\ checks'[a] = c /\ \A b \in Askers \ {a} : checks'[b] = checks[b]
    BY <1>0, <1>10 DEF ManagerType
  <2>2. ManagerType'
    BY <1>0, <1>10, <2>1 DEF ManagerType
  <2>3. FoundInv'
    BY <1>0, <1>10, <2>1 DEF FoundInv, Ahead
  <2>4. LoopInv'
    <3>1. CASE a = "loop"
      BY <1>0, <1>10, <2>1, <3>1 DEF LoopInv, Fresh
    <3>2. CASE a # "loop"
      BY <1>0, <1>10, <2>1, <3>2 DEF LoopInv, Fresh
    <3> QED
      BY <3>1, <3>2
  <2>5. SwitchType' /\ WakeInv'
    BY <1>0, <1>10 DEF SwitchType, WakeInv, Ahead
  <2> QED
    BY <2>2, <2>3, <2>4, <2>5
<1>11. CASE LoopTicks
  <2>1. /\ mgr.pc = "select" /\ checks["loop"].st = "idle" /\ loop' = loop
        /\ mgr' = [mgr EXCEPT !.pc = "check"] /\ checks' = [checks EXCEPT !["loop"] = [checks["loop"] EXCEPT !.st = "wait"]]
    BY <1>11 DEF LoopTicks
  <2>2. /\ mgr'.enabled = mgr.enabled /\ mgr'.offGen = mgr.offGen /\ mgr'.wake = mgr.wake /\ mgr'.pc = "check"
        /\ mgr'.seen = mgr.seen /\ mgr'.timer = mgr.timer /\ mgr'.latest = mgr.latest /\ DOMAIN mgr' = DOMAIN mgr
    BY <1>0, <2>1 DEF ManagerType
  <2>3. /\ DOMAIN checks' = Askers /\ checks'["loop"].st = "wait" /\ DOMAIN checks'["loop"] = DOMAIN checks["loop"]
        /\ \A b \in Askers \ {"loop"} : checks'[b] = checks[b]
    BY <1>0, <2>1 DEF ManagerType
  <2>4. ManagerType' /\ SwitchType'
    BY <1>0, <2>1, <2>2, <2>3 DEF ManagerType, SwitchType
  <2>5. FoundInv'
    BY <1>0, <2>1, <2>2, <2>3 DEF FoundInv, Ahead
  <2>6. LoopInv' /\ WakeInv'
    BY <1>0, <2>1, <2>2, <2>3 DEF LoopInv, WakeInv, Fresh, Ahead
  <2> QED
    BY <2>4, <2>5, <2>6
<1>12. DOMAIN NoCheck = {"st", "fetch", "stopped", "gen", "r"} /\ NoCheck.st = "idle"
  BY DEF NoCheck
<1>13. CASE LoopRearms
  <2> DEFINE t == [delay |-> NextCheck(checks["loop"].r), due |-> FALSE, gen |-> checks["loop"].gen]
  <2>1. /\ mgr.pc = "check" /\ checks["loop"].st = "done" /\ loop' = loop
        /\ mgr' = [mgr EXCEPT !.pc = "top", !.timer = t] /\ checks' = [checks EXCEPT !["loop"] = NoCheck]
    BY <1>13 DEF LoopRearms
  <2>2. DOMAIN t = {"delay", "due", "gen"} /\ t.gen = checks["loop"].gen
    OBVIOUS
  <2> HIDE DEF t
  <2>3. /\ mgr'.enabled = mgr.enabled /\ mgr'.offGen = mgr.offGen /\ mgr'.wake = mgr.wake /\ mgr'.pc = "top"
        /\ mgr'.seen = mgr.seen /\ mgr'.timer = t /\ mgr'.latest = mgr.latest /\ DOMAIN mgr' = DOMAIN mgr
    BY <1>0, <2>1 DEF ManagerType
  <2>4. /\ DOMAIN checks' = Askers /\ checks'["loop"] = NoCheck
        /\ \A b \in Askers \ {"loop"} : checks'[b] = checks[b]
    BY <1>0, <2>1 DEF ManagerType
  <2>5. ManagerType' /\ SwitchType'
    BY <1>0, <1>12, <2>1, <2>2, <2>3, <2>4 DEF ManagerType, SwitchType
  <2>6. FoundInv'
    BY <1>0, <1>12, <2>1, <2>3, <2>4 DEF FoundInv, Ahead
  <2>7. LoopInv' /\ WakeInv'
    BY <1>0, <1>12, <2>1, <2>2, <2>3, <2>4 DEF LoopInv, WakeInv, Fresh
  <2> QED
    BY <2>5, <2>6, <2>7
<1>14. CASE LoopReturns
  <2>1. mgr.pc = "select" /\ loop' = loop /\ checks' = checks /\ mgr' = [mgr EXCEPT !.pc = "gone", !.timer = NoTimer]
    BY <1>14 DEF LoopReturns
  <2>2. /\ mgr'.enabled = mgr.enabled /\ mgr'.offGen = mgr.offGen /\ mgr'.wake = mgr.wake /\ mgr'.pc = "gone"
        /\ mgr'.seen = mgr.seen /\ mgr'.timer = NoTimer /\ mgr'.latest = mgr.latest /\ DOMAIN mgr' = DOMAIN mgr
        /\ DOMAIN NoTimer = {"delay", "due", "gen"}
    BY <1>0, <2>1 DEF ManagerType, NoTimer
  <2>3. ManagerType' /\ SwitchType'
    BY <1>0, <2>1, <2>2 DEF ManagerType, SwitchType
  <2> QED
    BY <1>0, <2>1, <2>2, <2>3 DEF FoundInv, LoopInv, WakeInv, Fresh, Ahead
<1>15. CASE CheckNow
  <2> DEFINE c == [checks["manual"] EXCEPT !.st = "wait"]
  <2>1. loop' = loop /\ mgr' = mgr /\ checks["manual"].st = "idle" /\ checks' = [checks EXCEPT !["manual"] = c]
    BY <1>15 DEF CheckNow
  <2>2. DOMAIN c = {"st", "fetch", "stopped", "gen", "r"} /\ c.st = "wait"
    BY <1>0 DEF ManagerType
  <2> HIDE DEF c
  <2>3. DOMAIN checks' = Askers /\ checks'["manual"] = c /\ checks'["loop"] = checks["loop"]
    BY <1>0, <2>1 DEF ManagerType
  <2>4. \A b \in Askers : b = "manual" \/ b = "loop"
    BY DEF Askers
  <2>5. ManagerType' /\ FoundInv'
    BY <1>0, <2>1, <2>2, <2>3, <2>4 DEF ManagerType, FoundInv, Ahead
  <2>6. LoopInv' /\ WakeInv' /\ SwitchType'
    BY <1>0, <2>1, <2>3 DEF LoopInv, WakeInv, SwitchType, Fresh, Ahead
  <2> QED
    BY <2>5, <2>6
<1>16. CASE CheckAnswered
  <2>1. loop' = loop /\ mgr' = mgr /\ checks' = [checks EXCEPT !["manual"] = NoCheck]
    BY <1>16 DEF CheckAnswered
  <2>3. DOMAIN checks' = Askers /\ checks'["manual"] = NoCheck /\ checks'["loop"] = checks["loop"]
    BY <1>0, <2>1 DEF ManagerType
  <2>4. \A b \in Askers : b = "manual" \/ b = "loop"
    BY DEF Askers
  <2>5. ManagerType' /\ FoundInv'
    BY <1>0, <1>12, <2>1, <2>3, <2>4 DEF ManagerType, FoundInv, Ahead
  <2>6. LoopInv' /\ WakeInv' /\ SwitchType'
    BY <1>0, <2>1, <2>3 DEF LoopInv, WakeInv, SwitchType, Fresh, Ahead
  <2> QED
    BY <2>5, <2>6
<1>17. ASSUME NEW a \in Askers, CheckBegins(a) PROVE OffInv'
  <2>1. checks[a].st = "wait" /\ loop' = loop /\ mgr' = mgr
    BY <1>17 DEF CheckBegins
  <2>2. PICK skip \in BOOLEAN :
          /\ ~mgr.enabled => skip
          /\ checks' = [checks EXCEPT ![a] =
                IF skip THEN [checks[a] EXCEPT !.st = "done", !.gen = mgr.offGen, !.r = [failures |-> mgr.failures, pending |-> FALSE]]
                ELSE [checks[a] EXCEPT !.st = "fetch", !.stopped = FALSE, !.gen = mgr.offGen]]
    BY <1>17 DEF CheckBegins
  <2>3. Fresh(mgr.offGen)
    BY <1>0 DEF Fresh, SwitchType, LoopInv
  <2>4. CASE skip
    <3> DEFINE c == [checks[a] EXCEPT !.st = "done", !.gen = mgr.offGen, !.r = [failures |-> mgr.failures, pending |-> FALSE]]
    <3>1. DOMAIN c = {"st", "fetch", "stopped", "gen", "r"} /\ c.st = "done" /\ c.gen = mgr.offGen
      BY <1>0 DEF ManagerType
    <3>2. checks' = [checks EXCEPT ![a] = c]
      BY <2>2, <2>4
    <3> HIDE DEF c
    <3> QED
      BY <1>9, <2>1, <2>3, <3>1, <3>2
  <2>5. CASE ~skip
    <3> DEFINE c == [checks[a] EXCEPT !.st = "fetch", !.stopped = FALSE, !.gen = mgr.offGen]
    <3>1. DOMAIN c = {"st", "fetch", "stopped", "gen", "r"} /\ c.st = "fetch" /\ c.gen = mgr.offGen
      BY <1>0 DEF ManagerType
    <3>2. checks' = [checks EXCEPT ![a] = c]
      BY <2>2, <2>5
    <3> HIDE DEF c
    <3> QED
      BY <1>9, <2>1, <2>3, <3>1, <3>2
  <2> QED
    BY <2>4, <2>5
<1>18. ASSUME NEW a \in Askers, CheckFetches(a) PROVE OffInv'
  <2>1. checks[a].st = "fetch" /\ loop' = loop /\ mgr' = mgr
    BY <1>18 DEF CheckFetches
  <2>2. PICK f : checks' = [checks EXCEPT ![a] = [checks[a] EXCEPT !.fetch = f]]
    BY <1>18 DEF CheckFetches
  <2> DEFINE c == [checks[a] EXCEPT !.fetch = f]
  <2>3. DOMAIN c = {"st", "fetch", "stopped", "gen", "r"} /\ c.st = "fetch" /\ c.gen = checks[a].gen /\ c.stopped = checks[a].stopped
    BY <1>0, <2>1 DEF ManagerType
  <2>4. c.st = "fetch" /\ ~c.stopped => c.gen = mgr.offGen \/ Ahead("forget")
    BY <1>0, <2>1, <2>3 DEF FoundInv
  <2>5. a = "loop" => Fresh(c.gen)
    BY <1>0, <2>1, <2>3 DEF LoopInv
  <2> HIDE DEF c
  <2>6. checks' = [checks EXCEPT ![a] = c]
    BY <2>2 DEF c
  <2> QED
    BY <1>9, <2>1, <2>3, <2>4, <2>5, <2>6
<1>19. ASSUME NEW a \in Askers, NEW r, Done(a, r)
       PROVE  \E c : /\ checks' = [checks EXCEPT ![a] = c] /\ DOMAIN c = {"st", "fetch", "stopped", "gen", "r"}
                     /\ c.st = "done" /\ c.gen = checks[a].gen
  <2> DEFINE c == [checks[a] EXCEPT !.st = "done", !.r = r, !.fetch = FetchBegins]
  <2>1. checks' = [checks EXCEPT ![a] = c]
    BY <1>19 DEF Done
  <2>2. DOMAIN c = {"st", "fetch", "stopped", "gen", "r"} /\ c.st = "done" /\ c.gen = checks[a].gen
    BY <1>0 DEF ManagerType
  <2> HIDE DEF c
  <2> QED
    BY <2>1, <2>2
<1>20. ASSUME NEW a \in Askers, CheckDropped(a) PROVE OffInv'
  <2>1. checks[a].st = "fetch" /\ loop' = loop /\ mgr' = mgr /\ \E r : Done(a, r)
    BY <1>20 DEF CheckDropped
  <2>2. PICK c : /\ checks' = [checks EXCEPT ![a] = c] /\ DOMAIN c = {"st", "fetch", "stopped", "gen", "r"}
                 /\ c.st = "done" /\ c.gen = checks[a].gen
    BY <1>19, <2>1
  <2> QED
    BY <1>10, <2>1, <2>2
<1>21. ASSUME NEW a \in Askers, CheckNotice(a) \/ CheckFails(a) \/ CheckFinds(a) PROVE OffInv'
  <2>1. /\ checks[a].st = "fetch" /\ ~Dropped(a) /\ loop' = loop /\ \E r : Done(a, r)
    BY <1>21 DEF CheckNotice, CheckFails, CheckFinds, Answers
  <2>2. PICK c : /\ checks' = [checks EXCEPT ![a] = c] /\ DOMAIN c = {"st", "fetch", "stopped", "gen", "r"}
                 /\ c.st = "done" /\ c.gen = checks[a].gen
    BY <1>19, <2>1
  <2>3. checks[a].gen = mgr.offGen \/ Ahead("forget")
    BY <1>0, <2>1 DEF FoundInv, Dropped
  <2>4. \E failures, notice, latest, available :
           /\ mgr' = [mgr EXCEPT !.checked = TRUE, !.failures = failures, !.notice = notice, !.latest = latest, !.available = available]
           /\ latest = None \/ latest = mgr.latest \/ latest.gen = checks[a].gen
    <3>1. CASE CheckNotice(a)
      <4> DEFINE notice == checks[a].fetch.kind
      <4>1. mgr' = [mgr EXCEPT !.checked = TRUE, !.failures = 0, !.notice = notice,
                             !.latest = IF notice = "noRelease" THEN None ELSE mgr.latest,
                             !.available = notice # "noRelease" /\ mgr.available]
        BY <3>1 DEF CheckNotice
      <4> HIDE DEF notice
      <4> QED
        BY <4>1
    <3>2. CASE CheckFails(a)
      <4>1. \E failures : mgr' = [mgr EXCEPT !.checked = TRUE, !.failures = failures, !.notice = None]
        BY <3>2 DEF CheckFails
      <4>2. PICK failures : mgr' = [mgr EXCEPT !.checked = TRUE, !.failures = failures, !.notice = None]
        BY <4>1
      <4>3. mgr' = [mgr EXCEPT !.checked = TRUE, !.failures = failures, !.notice = None, !.latest = mgr.latest, !.available = mgr.available]
        BY <1>0, <4>2 DEF ManagerType
      <4> QED
        BY <4>3
    <3>3. CASE CheckFinds(a)
      <4>1. mgr' = [mgr EXCEPT !.checked = TRUE, !.failures = 0, !.notice = None, !.available = Newer(checks[a].fetch.rel.version),
                                 !.latest = [rel |-> checks[a].fetch.rel, gen |-> checks[a].gen]]
        BY <3>3 DEF CheckFinds
      <4> DEFINE l == [rel |-> checks[a].fetch.rel, gen |-> checks[a].gen]
                 v == Newer(checks[a].fetch.rel.version)
      <4>2. mgr' = [mgr EXCEPT !.checked = TRUE, !.failures = 0, !.notice = None, !.latest = l, !.available = v]
        BY <1>0, <4>1 DEF ManagerType
      <4>3. l.gen = checks[a].gen
        OBVIOUS
      <4> HIDE DEF l, v
      <4> QED
        BY <4>2, <4>3
    <3> QED
      BY <1>21, <3>1, <3>2, <3>3
  <2>5. PICK failures, notice, latest, available :
           /\ mgr' = [mgr EXCEPT !.checked = TRUE, !.failures = failures, !.notice = notice, !.latest = latest, !.available = available]
           /\ latest = None \/ latest = mgr.latest \/ latest.gen = checks[a].gen
    BY <2>4
  <2>6. /\ mgr'.enabled = mgr.enabled /\ mgr'.offGen = mgr.offGen /\ mgr'.wake = mgr.wake /\ mgr'.pc = mgr.pc
        /\ mgr'.seen = mgr.seen /\ mgr'.timer = mgr.timer /\ mgr'.latest = latest /\ DOMAIN mgr' = DOMAIN mgr
    BY <1>0, <2>5 DEF ManagerType
  <2> QED
    BY <1>10, <2>1, <2>2, <2>3, <2>5, <2>6
<1> QED
  BY <1>1, <1>2, <1>3, <1>4, <1>5, <1>6, <1>7, <1>8, <1>11, <1>13, <1>14, <1>15, <1>16, <1>17, <1>18, <1>20, <1>21
  DEF UpdateStep

\* The switch's invariant holds: of the order of an Apply's steps, the
\* generations of what the manager has and of its checks, and the wakes.
THEOREM SwitchInvariant == Spec => []OffInv
<1>1. Init => OffInv
  <2> SUFFICES ASSUME Init PROVE OffInv
    OBVIOUS
  <2>1. /\ mgr = [enabled |-> TRUE, offGen |-> 0, wake |-> TRUE, pc |-> "top", seen |-> 0, timer |-> NoTimer,
              latest |-> None, available |-> FALSE, notice |-> None, checked |-> FALSE, failures |-> 0]
        /\ checks = [a \in Askers |-> NoCheck] /\ loop = [set |-> AllOn, todo |-> <<>>, stopping |-> FALSE]
    BY DEF Init, UpdateInit, MonitorInit
  <2>2. /\ DOMAIN NoCheck = {"st", "fetch", "stopped", "gen", "r"} /\ NoCheck.st = "idle"
        /\ DOMAIN NoTimer = {"delay", "due", "gen"} /\ "loop" \in Askers
    BY DEF NoCheck, NoTimer, Askers
  <2>3. ManagerType
    BY <2>1, <2>2 DEF ManagerType
  <2>4. SwitchType
    <3>1. Orderly(<<>>)
      <4>1. "wake" \in Tasks
        BY DEF Tasks
      <4>2. <<>> \in Seq(Tasks) /\ Len(<<>>) = 0
        BY <4>1, FewSteps
      <4> QED
        BY <4>2 DEF Orderly
    <3> QED
      BY <2>1, <3>1 DEF SwitchType
  <2>5. FoundInv /\ LoopInv /\ WakeInv
    BY <2>1, <2>2 DEF FoundInv, LoopInv, WakeInv, Fresh, Ahead
  <2> QED
    BY <2>3, <2>4, <2>5 DEF OffInv
<1>2. OffInv /\ [Next]_vars => OffInv'
  <2> SUFFICES ASSUME OffInv, [Next]_vars PROVE OffInv'
    OBVIOUS
  <2>1. CASE UpdateStep
    BY <2>1, OffStepInv
  <2>2. CASE MonitorStep /\ UNCHANGED updateVars
    <3>1. mgr' = mgr /\ checks' = checks
      BY <2>2 DEF updateVars
    <3>2. SwitchType' /\ \A step \in {"offGen", "forget", "wake"} : Ahead(step)' <=> Ahead(step)
      BY <2>2, <3>1, MonitorsApart DEF OffInv
    <3>3. ManagerType' /\ LoopInv'
      BY <3>1 DEF OffInv, ManagerType, LoopInv, Fresh
    <3>4. FoundInv' /\ WakeInv'
      <4>1. (Ahead("offGen")' <=> Ahead("offGen")) /\ (Ahead("forget")' <=> Ahead("forget")) /\ (Ahead("wake")' <=> Ahead("wake"))
        BY <3>2
      <4> QED
        BY <3>1, <4>1 DEF OffInv, FoundInv, WakeInv
    <3> QED
      BY <3>2, <3>3, <3>4 DEF OffInv
  <2>3. CASE UNCHANGED <<monitorVars, updateVars>>
    <3>1. mgr' = mgr /\ checks' = checks /\ loop' = loop
      BY <2>3 DEF monitorVars, updateVars
    <3> QED
      BY <3>1 DEF OffInv, ManagerType, SwitchType, FoundInv, LoopInv, WakeInv, Fresh, Ahead
  <2> QED
    BY <2>1, <2>2, <2>3 DEF Next, vars, NotPage
<1> QED
  BY <1>1, <1>2, PTL DEF Spec

\* Turning checks off holds: a release the manager has was asked for after they
\* were last turned off, and a loop at rest has its timer armed exactly while
\* checks are on, armed since then too, even when off and on again reach the
\* loop as one wake (Manager.Apply, Run and check in internal/update/manager.go).
THEOREM OffIsFinal == Spec => []OffStartsOver
<1>1. OffInv => OffStartsOver
  BY DEF OffInv, SwitchType, FoundInv, LoopInv, WakeInv, Fresh, Ahead, OffStartsOver
<1> QED
  BY <1>1, SwitchInvariant, PTL

-----------------------------------------------------------------------------
(* The release offered *)

\* A release of the tag asked for, in a manifest a trusted key signed.
Genuine(rel) ==
    rel.version = rel.tag /\ rel.raw.version = rel.tag /\ rel.sig = Sign(rel.raw, "release") /\ rel.tag \in Published

\* The host has a list of files for every tag; a signature is made over a
\* manifest with a key.
SiteType ==
    /\ DOMAIN site = {"latest", "files"} /\ DOMAIN site.files = Published
    /\ site.latest \in Published \cup {None}
    /\ \A t \in Published : \/ site.files[t].sig = None
                            \/ \E manifest, key : site.files[t].sig = Sign(manifest, key)

\* A fetch asks for one tag throughout, and answers with what it verified.
FetchInv(f) ==
    /\ f.at \in {"tag", "manifest", "sig", "answer"}
    /\ f.at \in {"manifest", "sig"} => f.tag \in Published
    /\ f.at = "answer" /\ f.kind = "release" => Genuine(f.rel)

\* The release the manager has is genuine, and offered if it is newer.
OfferInv ==
    /\ SiteType
    /\ \A a \in Askers : FetchInv(checks[a].fetch)
    /\ mgr.latest # None => Genuine(mgr.latest.rel) /\ (mgr.available <=> Newer(mgr.latest.rel.version))

\* Whatever the host serves at a tag keeps its type.
LEMMA SiteStep ==
    ASSUME SiteType, SiteChanges
    PROVE  SiteType'
<1>1. CASE \E l \in Published \cup {None} : site' = [site EXCEPT !.latest = l]
  <2>1. PICK l \in Published \cup {None} : site' = [site EXCEPT !.latest = l]
    BY <1>1
  <2>2. DOMAIN site' = DOMAIN site /\ site'.latest = l /\ site'.files = site.files
    BY <2>1 DEF SiteType
  <2> QED
    BY <2>2 DEF SiteType
<1>2. CASE site.latest # None /\ \E u \in Assets(site.latest) : site' = [site EXCEPT !.files = [site.files EXCEPT ![site.latest] = u]]
  <2>1. PICK u \in Assets(site.latest) : site' = [site EXCEPT !.files = [site.files EXCEPT ![site.latest] = u]]
    BY <1>2
  <2>2. DOMAIN site' = DOMAIN site /\ site'.latest = site.latest /\ site'.files = [site.files EXCEPT ![site.latest] = u]
    BY <2>1 DEF SiteType
  <2>3. u.sig = None \/ \E manifest, key : u.sig = Sign(manifest, key)
    BY DEF Assets
  <2>4. site.latest \in Published
    BY <1>2 DEF SiteType
  <2>5. DOMAIN site'.files = Published /\ \A t \in Published : site'.files[t] = IF t = site.latest THEN u ELSE site.files[t]
    BY <2>2, <2>4 DEF SiteType
  <2> QED
    BY <2>2, <2>3, <2>5 DEF SiteType
<1> QED
  BY <1>1, <1>2 DEF SiteChanges

\* The next answer keeps to the tag, and is genuine when it is a release.
LEMMA FetchKeeps ==
    ASSUME SiteType, NEW f, FetchInv(f), f.at # "answer", NEW g \in FetchStep(f)
    PROVE  FetchInv(g)
<1>1. FetchInv(Failed)
  BY DEF FetchInv, Failed, Answer
<1>2. ASSUME f.at = "tag", g = LatestTag PROVE FetchInv(g)
  <2>1. CASE site.latest = None
    <3>1. g = Answer("noRelease", None)
      BY <1>2, <2>1 DEF LatestTag
    <3> QED
      BY <3>1 DEF FetchInv, Answer
  <2>2. CASE site.latest # None
    <3>1. g = [at |-> "manifest", tag |-> site.latest] /\ site.latest \in Published
      BY <1>2, <2>2 DEF LatestTag, SiteType
    <3> QED
      BY <3>1 DEF FetchInv
  <2> QED
    BY <2>1, <2>2
<1>3. ASSUME f.at = "manifest", g = DownloadManifest(f) PROVE FetchInv(g)
  <2> DEFINE raw == site.files[f.tag].manifest
  <2>1. CASE raw = None
    <3>1. g = Answer("noManifest", None)
      BY <1>3, <2>1 DEF DownloadManifest
    <3> QED
      BY <3>1 DEF FetchInv, Answer
  <2>2. CASE raw # None
    <3>1. g = [at |-> "sig", tag |-> f.tag, raw |-> raw] /\ f.tag \in Published
      BY <1>3, <2>2 DEF DownloadManifest, FetchInv
    <3> QED
      BY <3>1 DEF FetchInv
  <2> QED
    BY <2>1, <2>2
<1>4. ASSUME f.at = "sig", g = DownloadSignature(f) PROVE FetchInv(g)
  <2> DEFINE sig == site.files[f.tag].sig
             rel == [version |-> f.raw.version, raw |-> f.raw, sig |-> sig, tag |-> f.tag]
  <2>1. CASE sig # None /\ Verify(f.raw, sig) /\ f.raw.version = f.tag
    <3>1. f.tag \in Published
      BY <1>4 DEF FetchInv
    <3>2. sig = Sign(f.raw, "release")
      <4>1. PICK manifest, key : sig = Sign(manifest, key)
        BY <2>1, <3>1 DEF SiteType
      <4>2. sig.over = manifest /\ sig.key = key
        BY <4>1 DEF Sign
      <4>3. sig.over = f.raw /\ sig.key = "release"
        BY <2>1 DEF Verify, TrustedKeys
      <4> QED
        BY <4>1, <4>2, <4>3
    <3>3. g = Answer("release", rel)
      BY <1>4, <2>1 DEF DownloadSignature
    <3>4. Genuine(rel)
      BY <2>1, <3>1, <3>2 DEF Genuine
    <3> HIDE DEF rel
    <3> QED
      BY <3>3, <3>4 DEF FetchInv, Answer
  <2>2. CASE ~(sig # None /\ Verify(f.raw, sig) /\ f.raw.version = f.tag)
    BY <1>1, <1>4, <2>2 DEF DownloadSignature
  <2> QED
    BY <2>1, <2>2
<1> QED
  BY <1>1, <1>2, <1>3, <1>4 DEF FetchStep, FetchInv

\* What a check in flight becomes.
LEMMA ChecksKeep ==
    ASSUME ManagerType, SiteType, \A a \in Askers : FetchInv(checks[a].fetch), UpdateStep
    PROVE  \A a \in Askers : FetchInv(checks'[a].fetch)
<1>0. "loop" \in Askers /\ "manual" \in Askers /\ DOMAIN checks = Askers
  BY DEF Askers, ManagerType
<1>1. ASSUME NEW a \in Askers, NEW c, checks' = [checks EXCEPT ![a] = c], FetchInv(c.fetch)
      PROVE  \A b \in Askers : FetchInv(checks'[b].fetch)
  <2> TAKE b \in Askers
  <2>1. checks'[b] = IF b = a THEN c ELSE checks[b]
    BY <1>0, <1>1
  <2> QED
    BY <1>1, <2>1
<1>2. FetchInv(FetchBegins) /\ FetchInv(NoCheck.fetch)
  BY DEF FetchInv, FetchBegins, NoCheck
<1>3. CASE checks' = checks
  BY <1>3
<1>4. CASE ManagerForgets
  <2>1. checks' = [a \in Askers |-> [checks[a] EXCEPT !.stopped = @ \/ checks[a].st = "fetch"]]
    BY <1>4 DEF ManagerForgets
  <2>2. \A a \in Askers : checks'[a].fetch = checks[a].fetch
    BY <2>1 DEF ManagerType
  <2> QED
    BY <2>2
<1>5. CASE LoopTicks \/ CheckNow
  <2>1. PICK a \in Askers : checks' = [checks EXCEPT ![a] = [checks[a] EXCEPT !.st = "wait"]]
    BY <1>0, <1>5 DEF LoopTicks, CheckNow
  <2>2. [checks[a] EXCEPT !.st = "wait"].fetch = checks[a].fetch
    BY DEF ManagerType
  <2> QED
    BY <1>1, <2>1, <2>2
<1>6. CASE LoopRearms \/ CheckAnswered
  <2>1. PICK a \in Askers : checks' = [checks EXCEPT ![a] = NoCheck]
    BY <1>0, <1>6 DEF LoopRearms, CheckAnswered
  <2> QED
    BY <1>1, <1>2, <2>1
<1>7. ASSUME NEW a \in Askers, CheckBegins(a) PROVE \A b \in Askers : FetchInv(checks'[b].fetch)
  <2>1. PICK skip \in BOOLEAN :
          checks' = [checks EXCEPT ![a] =
                IF skip THEN [checks[a] EXCEPT !.st = "done", !.gen = mgr.offGen, !.r = [failures |-> mgr.failures, pending |-> FALSE]]
                ELSE [checks[a] EXCEPT !.st = "fetch", !.stopped = FALSE, !.gen = mgr.offGen]]
    BY <1>7 DEF CheckBegins
  <2> DEFINE c == IF skip THEN [checks[a] EXCEPT !.st = "done", !.gen = mgr.offGen, !.r = [failures |-> mgr.failures, pending |-> FALSE]]
                ELSE [checks[a] EXCEPT !.st = "fetch", !.stopped = FALSE, !.gen = mgr.offGen]
  <2>2. c.fetch = checks[a].fetch
    BY DEF ManagerType
  <2>3. checks' = [checks EXCEPT ![a] = c]
    BY <2>1
  <2> HIDE DEF c
  <2> QED
    BY <1>1, <2>2, <2>3
<1>8. ASSUME NEW a \in Askers, CheckFetches(a) PROVE \A b \in Askers : FetchInv(checks'[b].fetch)
  <2>1. PICK f \in FetchStep(checks[a].fetch) : checks' = [checks EXCEPT ![a] = [checks[a] EXCEPT !.fetch = f]]
    BY <1>8 DEF CheckFetches
  <2>2. [checks[a] EXCEPT !.fetch = f].fetch = f
    BY DEF ManagerType
  <2>3. FetchInv(f)
    BY <1>8, FetchKeeps DEF CheckFetches
  <2> QED
    BY <1>1, <2>1, <2>2, <2>3
<1>9. ASSUME NEW a \in Askers, NEW r, Done(a, r) PROVE \A b \in Askers : FetchInv(checks'[b].fetch)
  <2>1. checks' = [checks EXCEPT ![a] = [checks[a] EXCEPT !.st = "done", !.r = r, !.fetch = FetchBegins]]
    BY <1>9 DEF Done
  <2>2. [checks[a] EXCEPT !.st = "done", !.r = r, !.fetch = FetchBegins].fetch = FetchBegins
    BY DEF ManagerType
  <2> QED
    BY <1>1, <1>2, <2>1, <2>2
<1>10. ASSUME NEW a \in Askers, CheckDropped(a) \/ CheckNotice(a) \/ CheckFails(a) \/ CheckFinds(a)
       PROVE  \A b \in Askers : FetchInv(checks'[b].fetch)
  BY <1>9, <1>10 DEF CheckDropped, CheckNotice, CheckFails, CheckFinds
<1> QED
  BY <1>3, <1>4, <1>5, <1>6, <1>7, <1>8, <1>10
  DEF UpdateStep, ManagerSwaps, ManagerCounts, ManagerWakes, LoopSeesOff, LoopArms, LoopWakes, LoopReturns, TimerIsDue

\* What the manager has is what it had, nothing, or what a check has found.
LEMMA LatestKeeps ==
    ASSUME ManagerType, \A a \in Askers : FetchInv(checks[a].fetch), UpdateStep,
           mgr.latest # None => Genuine(mgr.latest.rel) /\ (mgr.available <=> Newer(mgr.latest.rel.version))
    PROVE  mgr'.latest # None => Genuine(mgr'.latest.rel) /\ (mgr'.available <=> Newer(mgr'.latest.rel.version))
<1>1. CASE mgr'.latest = mgr.latest /\ mgr'.available = mgr.available
  BY <1>1
<1>2. CASE mgr' = mgr
  BY <1>2
<1>3. CASE ManagerSwaps \/ ManagerCounts \/ ManagerWakes
  BY <1>1, <1>3 DEF ManagerSwaps, ManagerCounts, ManagerWakes, ManagerType
<1>4. CASE LoopSeesOff \/ LoopArms \/ LoopWakes
  BY <1>1, <1>4 DEF LoopSeesOff, LoopArms, LoopWakes, ManagerType
<1>5. CASE TimerIsDue \/ LoopTicks \/ LoopRearms \/ LoopReturns
  BY <1>1, <1>5 DEF TimerIsDue, LoopTicks, LoopRearms, LoopReturns, ManagerType
<1>6. CASE ManagerForgets
  <2>1. mgr'.latest = None
    BY <1>6 DEF ManagerForgets, ManagerType
  <2> QED
    BY <2>1
<1>7. ASSUME NEW a \in Askers, CheckNotice(a)
      PROVE  mgr'.latest # None => Genuine(mgr'.latest.rel) /\ (mgr'.available <=> Newer(mgr'.latest.rel.version))
  <2> DEFINE notice == checks[a].fetch.kind
  <2>1. mgr' = [mgr EXCEPT !.checked = TRUE, !.failures = 0, !.notice = notice,
                             !.latest = IF notice = "noRelease" THEN None ELSE mgr.latest,
                             !.available = notice # "noRelease" /\ mgr.available]
    BY <1>7 DEF CheckNotice
  <2> HIDE DEF notice
  <2>2. CASE notice = "noRelease"
    <3>1. mgr'.latest = None
      BY <2>1, <2>2 DEF ManagerType
    <3> QED
      BY <3>1
  <2>3. CASE notice # "noRelease"
    <3>1. mgr'.latest = mgr.latest /\ (mgr'.available <=> mgr.available)
      BY <2>1, <2>3 DEF ManagerType
    <3> QED
      BY <3>1
  <2> QED
    BY <2>2, <2>3
<1>8. ASSUME NEW a \in Askers, CheckFails(a)
      PROVE  mgr'.latest = mgr.latest /\ mgr'.available = mgr.available
  <2>1. PICK failures : mgr' = [mgr EXCEPT !.checked = TRUE, !.failures = failures, !.notice = None]
    BY <1>8 DEF CheckFails
  <2> QED
    BY <2>1 DEF ManagerType
<1>9. ASSUME NEW a \in Askers, CheckFinds(a)
      PROVE  Genuine(mgr'.latest.rel) /\ (mgr'.available <=> Newer(mgr'.latest.rel.version))
  <2> DEFINE rel == checks[a].fetch.rel
             l == [rel |-> rel, gen |-> checks[a].gen]
  <2>1. mgr' = [mgr EXCEPT !.checked = TRUE, !.failures = 0, !.notice = None, !.available = Newer(rel.version), !.latest = l]
    BY <1>9 DEF CheckFinds
  <2>2. Genuine(rel)
    BY <1>9 DEF CheckFinds, Answers, FetchInv
  <2>3. l.rel = rel
    OBVIOUS
  <2> HIDE DEF rel, l
  <2>4. mgr'.latest = l /\ mgr'.available = Newer(rel.version)
    BY <2>1 DEF ManagerType
  <2> QED
    BY <2>2, <2>3, <2>4
<1> QED
  BY <1>1, <1>2, <1>3, <1>4, <1>5, <1>6, <1>7, <1>8, <1>9 DEF UpdateStep, CheckAnswered, CheckBegins, CheckFetches, CheckDropped, CheckNow

\* OfferInv is inductive with the types of the manager.
THEOREM OfferInvariant == Spec => []OfferInv
<1>1. Init => OfferInv
  <2> SUFFICES ASSUME Init PROVE OfferInv
    OBVIOUS
  <2>1. mgr.latest = None /\ checks = [a \in Askers |-> NoCheck] /\ site = [latest |-> None, files |-> [t \in Published |-> NoFiles]]
    BY DEF Init, UpdateInit, SiteInit
  <2>2. FetchInv(NoCheck.fetch) /\ NoFiles.sig = None
    BY DEF FetchInv, FetchBegins, NoCheck, NoFiles
  <2> QED
    BY <2>1, <2>2 DEF OfferInv, SiteType
<1>2. ManagerType /\ OfferInv /\ [Next]_vars => OfferInv'
  <2> SUFFICES ASSUME ManagerType, OfferInv, [Next]_vars PROVE OfferInv'
    OBVIOUS
  <2>1. CASE UpdateStep /\ UNCHANGED site
    <3>1. SiteType'
      BY <2>1 DEF OfferInv, SiteType
    <3> QED
      BY <2>1, <3>1, ChecksKeep, LatestKeeps DEF OfferInv
  <2>2. CASE SiteChanges /\ UNCHANGED updateVars
    <3>1. mgr' = mgr /\ checks' = checks
      BY <2>2 DEF updateVars
    <3> QED
      BY <2>2, <3>1, SiteStep DEF OfferInv
  <2>3. CASE UNCHANGED <<updateVars, site>>
    <3>1. mgr' = mgr /\ checks' = checks /\ site' = site
      BY <2>3 DEF updateVars
    <3> QED
      BY <3>1 DEF OfferInv, SiteType
  <2> QED
    BY <2>1, <2>2, <2>3 DEF Next, vars, NotPage
<1>3. OffInv => ManagerType
  BY DEF OffInv
<1> QED
  BY <1>1, <1>2, <1>3, SwitchInvariant, PTL DEF Spec

\* A release the manager has is of the tag the host named, in a manifest a
\* trusted key signed, whatever the host published or replaced between the
\* requests of the fetch; one it offers is a release later in the order of
\* Tags than the running one (fetch in internal/update/fetch.go, Verify and
\* CompareVersions in internal/releasemanifest).
THEOREM OnlyGenuineIsOffered == Spec => []OfferIsGenuine
<1>1. OfferInv => OfferIsGenuine
  <2> SUFFICES ASSUME OfferInv, mgr.latest # None
               PROVE  LET rel == mgr.latest.rel
                          Place(v) == CHOOSE i \in DOMAIN Tags : Tags[i] = v
                      IN  /\ rel.version = rel.tag /\ rel.raw.version = rel.tag /\ rel.sig = Sign(rel.raw, "release")
                          /\ mgr.available <=> (rel.version.pre = <<>> /\ Place(rel.version) > Place(Running))
    BY DEF OfferIsGenuine
  <2> DEFINE rel == mgr.latest.rel
             Place(v) == CHOOSE i \in DOMAIN Tags : Tags[i] = v
  <2>1. Genuine(rel) /\ (mgr.available <=> Newer(rel.version))
    BY DEF OfferInv
  <2>2. \A v \in Published : Place(v) \in DOMAIN Tags /\ Tags[Place(v)] = v
    BY DEF Published, Range
  <2> HIDE DEF Place
  <2>3. rel.version \in Published /\ Running \in Published
    BY <2>1, RunningOrdered DEF Genuine, Published
  <2>4. After(rel.version, Running) <=> Place(Running) < Place(rel.version)
    BY <2>2, <2>3, TagsOrdered
  <2>5. Newer(rel.version) <=> (rel.version.pre = <<>> /\ Place(rel.version) > Place(Running))
    BY <2>4 DEF Newer
  <2> QED
    BY <2>1, <2>5 DEF Genuine, Place
<1> QED
  BY <1>1, OfferInvariant, PTL

----------------------------------------------------------------------------
(* What is used of numbers and of texts here and of the alerts.             *)

\* The texts a condition may be raised with.
Texts == {None, "first", "later"} \cup Published

\* The lesser of two numbers.
LEMMA MinOfTwo ==
    ASSUME NEW a \in Int, NEW b \in Int
    PROVE  Min({a, b}) = IF a <= b THEN a ELSE b
<1> DEFINE m == IF a <= b THEN a ELSE b
           S == {a, b}
<1>1. m \in S /\ \A y \in S : m <= y
  OBVIOUS
<1>2. \A x \in S : (\A y \in S : x <= y) => x = m
  OBVIOUS
<1>3. Min(S) = CHOOSE x \in S : \A y \in S : x <= y
  BY DEF Min
<1> HIDE DEF m, S
<1>4. Min(S) = m
  BY <1>1, <1>2, <1>3
<1> QED
  BY <1>4 DEF m, S

\* The larger of two numbers.
LEMMA MaxOfTwo ==
    ASSUME NEW a \in Int, NEW b \in Int
    PROVE  Max({a, b}) = IF a >= b THEN a ELSE b
<1> DEFINE m == IF a >= b THEN a ELSE b
           S == {a, b}
<1>1. m \in S /\ \A y \in S : m >= y
  OBVIOUS
<1>2. \A x \in S : (\A y \in S : x >= y) => x = m
  OBVIOUS
<1>3. Max(S) = CHOOSE x \in S : \A y \in S : x >= y
  BY DEF Max
<1> HIDE DEF m, S
<1>4. Max(S) = m
  BY <1>1, <1>2, <1>3
<1> QED
  BY <1>4 DEF m, S

----------------------------------------------------------------------------
(* The page.  A history is what was published since the boot: the i-th      *)
(* entry's kind and key.  There is one that the center, the messages on     *)
(* their way, the snapshots and the page are all excerpts of.               *)

\* The i-th entry of a history is an onset that none of the first n ended.
Holds(h, n, i) ==
    /\ i \in 1 .. n /\ h[i].kind = "onset"
    /\ \A j \in 1 .. n : h[j].key = h[i].key => j <= i

\* What the center keeps of its first n entries.
Kept(h, n) == {i \in 1 .. n : i > n - Capacity \/ Holds(h, n, i)}

Ids(items) == {e.id : e \in items}

\* An entry is as the history has it.
Recorded(h, c, e) ==
    e \in Entries /\ e.id \in 1 .. c.next /\ e.boot = c.boot /\ e.kind = h[e.id].kind /\ e.key = h[e.id].key

\* The messages on their way to the page.
OnTheWay(c, s) == Range(s.merged) \cup ({s.hand} \ {None}) \cup Range(c.sub.q)

HistoryOf(h, c) ==
    /\ c = [boot |-> c.boot, next |-> c.next, ring |-> c.ring, active |-> c.active, sub |-> c.sub]
    /\ c.sub = [on |-> c.sub.on, q |-> c.sub.q, lost |-> c.sub.lost]
    /\ c.next \in Nat /\ c.boot \in Nat
    /\ h \in [1 .. c.next -> [kind : {"event", "onset", "clear"}, key : Keys \cup {None}]]
    /\ \A i \in 1 .. c.next : h[i].kind = "event" <=> h[i].key = None

\* The ring is the end of the history.
RingInv(h, c) ==
    /\ c.ring \in Seq(Range(c.ring)) /\ \A r \in Range(c.ring) : Recorded(h, c, r)
    /\ Len(c.ring) <= Capacity /\ (Len(c.ring) = Capacity \/ Len(c.ring) = c.next)
    /\ \A i \in 1 .. Len(c.ring) : c.ring[i].id = (c.next - Len(c.ring)) + i

\* The active conditions are the onsets that hold.
ActiveInv(h, c) ==
    /\ c.active \in [Keys -> Onsets \cup {None}]
    /\ \A k \in Keys : c.active[k] # None => Recorded(h, c, c.active[k]) /\ c.active[k].key = k /\ Holds(h, c.next, c.active[k].id)
    /\ \A i \in 1 .. c.next : Holds(h, c.next, i) => c.active[h[i].key] # None /\ c.active[h[i].key].id = i

\* An onset on its way held when it was sent.
WayInv(h, c, s) ==
    /\ s = [st |-> s.st, hand |-> s.hand, merged |-> s.merged]
    /\ s.merged \in Seq(Range(s.merged)) /\ c.sub.q \in Seq(Range(c.sub.q))
    /\ s.st # "down" <=> c.sub.on
    /\ s.st = "down" => c.sub.q = <<>> /\ s.hand = None /\ s.merged = <<>>
    /\ \A m \in OnTheWay(c, s) :
          /\ m \in [entry : Entries, at : Nat] /\ m.at \in m.entry.id .. c.next /\ Recorded(h, c, m.entry)
          /\ m.entry.kind = "onset" => Holds(h, m.at, m.entry.id)

\* A snapshot on its way is all the center kept when it was taken.
LoadsInv(h, c, b) ==
    /\ b.started \in Nat /\ b.applied \in 0 .. b.started
    /\ \A l \in b.loads :
          /\ l = [token |-> l.token, snap |-> l.snap] /\ l.token \in 1 .. b.started /\ l.token # b.applied
          /\ \A other \in b.loads : other.token = l.token => other = l
          /\ l.snap # None => /\ l.snap.boot = c.boot /\ l.snap.nextId \in 1 .. c.next + 1
                              /\ \A e \in l.snap.entries : Recorded(h, c, e)
                              /\ Ids(l.snap.entries) = Kept(h, l.snap.nextId - 1)

\* What the page holds of the center's boot was published.
ItemsInv(h, c, s, b) ==
    /\ DOMAIN b = {"boot", "items", "next", "up", "timer", "loads", "started", "applied", "failed", "late"}
    /\ b = [f \in DOMAIN b |-> b[f]]
    /\ b.up <=> s.st = "up"
    /\ b.next \in Nat
    /\ b.boot = None => b.items = {} /\ b.next = 0
    /\ b.boot # None => b.boot \in Nat /\ b.boot <= c.boot
    /\ b.boot = c.boot => b.next <= c.next + 1 /\ \A e \in b.items : Recorded(h, c, e) /\ e.id < b.next
    /\ b.timer \in {None, "backoff", "resync"} /\ b.late \in BOOLEAN

\* The first entry that a load leaves to the stream.
From(c, l) == IF l.snap = None THEN c.next + 1 ELSE l.snap.nextId

\* The last entry is on its way, unless it is lost.
Coming(c, s) == c.sub.lost \/ \E m \in OnTheWay(c, s) : m.entry.id = c.next

\* While the newest load runs, the page has what was published since it was
\* answered, as far as it has seen any.
PendingInv(h, c, s, b) ==
    \A l \in b.loads :
        (s.st = "up" /\ b.timer # "resync" /\ l.token = b.started)
            => /\ b.boot = c.boot => \A i \in From(c, l) .. b.next - 1 : i > c.next - Capacity => i \in Ids(b.items)
               /\ From(c, l) <= c.next => Coming(c, s) \/ (b.boot = c.boot /\ b.next > c.next)

\* Once it has been applied, the page has all the center keeps, as far as it has
\* seen any, and takes for active what held then.
SyncedInv(h, c, s, b) ==
    (s.st = "up" /\ b.timer # "resync" /\ b.applied = b.started /\ ~b.late)
        => /\ b.boot = c.boot
           /\ \A i \in 1 .. b.next - 1 : i > c.next - Capacity \/ Holds(h, c.next, i) => i \in Ids(b.items)
           /\ \A e \in ActiveConditions(b.items) : Holds(h, b.next - 1, e.id)
           /\ b.next <= c.next => Coming(c, s)

PageInv(h, c, s, b) ==
    /\ HistoryOf(h, c) /\ RingInv(h, c) /\ ActiveInv(h, c) /\ WayInv(h, c, s)
    /\ LoadsInv(h, c, b) /\ ItemsInv(h, c, s, b) /\ PendingInv(h, c, s, b) /\ SyncedInv(h, c, s, b)

\* What a list holds when one is appended to it, or its first taken.
LEMMA RangeAppend ==
    ASSUME NEW q, q \in Seq(Range(q)), NEW e
    PROVE  Append(q, e) \in Seq(Range(Append(q, e))) /\ Range(Append(q, e)) = Range(q) \cup {e}
<1> DEFINE S == Range(q) \cup {e}
           t == Append(q, e)
<1>1. q \in Seq(S) /\ e \in S
  BY SeqMonotonic
<1>2. t \in Seq(S) /\ Len(t) = Len(q) + 1 /\ (\A i \in 1 .. Len(q) : t[i] = q[i]) /\ t[Len(q) + 1] = e
  BY <1>1, AppendProperties
<1>3. Len(q) \in Nat /\ DOMAIN q = 1 .. Len(q) /\ DOMAIN t = 1 .. Len(q) + 1
  BY <1>1, <1>2, LenProperties
<1> HIDE DEF t, S
<1>4. Range(t) = S
  <2>1. ASSUME NEW x \in Range(t) PROVE x \in S
    <3>1. PICK i \in 1 .. Len(q) + 1 : x = t[i]
      BY <1>3, <2>1 DEF Range
    <3> QED
      BY <1>2, <1>3, <3>1 DEF Range, S
  <2>2. ASSUME NEW x \in S PROVE x \in Range(t)
    <3>1. CASE x = e
      BY <1>2, <1>3, <3>1 DEF Range
    <3>2. CASE x \in Range(q)
      <4>1. PICK i \in 1 .. Len(q) : x = q[i]
        BY <1>3, <3>2 DEF Range
      <4>2. i \in 1 .. Len(q) + 1 /\ x = t[i]
        BY <1>2, <1>3, <4>1
      <4> QED
        BY <1>3, <4>2 DEF Range
    <3> QED
      BY <3>1, <3>2 DEF S
  <2> QED
    BY <2>1, <2>2
<1> QED
  BY <1>2, <1>4 DEF t, S

\* The first of a list and the rest of it.
LEMMA RangeTail ==
    ASSUME NEW q, q \in Seq(Range(q)), q # <<>>
    PROVE  /\ Tail(q) \in Seq(Range(Tail(q))) /\ Head(q) \in Range(q)
           /\ Range(Tail(q)) \subseteq Range(q) /\ Range(q) \subseteq Range(Tail(q)) \cup {Head(q)}
<1> DEFINE t == Tail(q)
<1>1. /\ 1 \in 1 .. Len(q) /\ Len(q) \in Nat /\ Head(q) = q[1] /\ t \in Seq(Range(q)) /\ Len(t) = Len(q) - 1
      /\ \A i \in 1 .. Len(t) : i + 1 \in 1 .. Len(q) /\ t[i] = q[i + 1]
  BY Received
<1>2. DOMAIN q = 1 .. Len(q) /\ DOMAIN t = 1 .. Len(t)
  BY <1>1, LenProperties
<1> HIDE DEF t
<1>3. Range(t) \subseteq Range(q)
  BY <1>1, <1>2 DEF Range
<1>4. ASSUME NEW x \in Range(q) PROVE x \in Range(t) \cup {Head(q)}
  <2>1. PICK i \in 1 .. Len(q) : x = q[i]
    BY <1>2, <1>4 DEF Range
  <2>2. i = 1 \/ (i - 1 \in 1 .. Len(t) /\ t[i - 1] = q[(i - 1) + 1] /\ (i - 1) + 1 = i)
    BY <1>1, <2>1
  <2> QED
    BY <1>1, <1>2, <2>1, <2>2 DEF Range
<1>5. t \in Seq(Range(t))
  <2>1. t \in [1 .. Len(t) -> Range(t)]
    BY <1>1, <1>2 DEF Range
  <2> QED
    BY <1>1, <2>1, SeqDef
<1> QED
  BY <1>1, <1>2, <1>3, <1>4, <1>5 DEF Range, t

\* An entry that is published next.
IsNext(c, e) ==
    /\ e \in Entries /\ e.id = c.next + 1 /\ e.boot = c.boot
    /\ \/ e.kind = "event" /\ e.key = None
       \/ e.kind \in {"onset", "clear"} /\ e.key \in Keys

\* The history with one more entry.
With(h, n, e) == [i \in 1 .. n + 1 |-> IF i = n + 1 THEN [kind |-> e.kind, key |-> e.key] ELSE h[i]]

\* The history before it is as it was.
LEMMA HistoryGrows ==
    ASSUME NEW h, NEW c, HistoryOf(h, c), NEW e, IsNext(c, e), NEW d, d.next = c.next + 1, d.boot = c.boot
    PROVE  LET g == With(h, c.next, e) IN
           /\ g \in [1 .. d.next -> [kind : {"event", "onset", "clear"}, key : Keys \cup {None}]]
           /\ \A i \in 1 .. d.next : g[i].kind = "event" <=> g[i].key = None
           /\ g[d.next].kind = e.kind /\ g[d.next].key = e.key
           /\ \A i \in 1 .. c.next : g[i] = h[i]
           /\ \A n \in -1 .. c.next : \A i : Holds(g, n, i) <=> Holds(h, n, i)
           /\ \A n \in 0 .. c.next : Kept(g, n) = Kept(h, n)
           /\ \A i \in 1 .. c.next : Holds(g, d.next, i) <=> (Holds(h, c.next, i) /\ h[i].key # e.key)
           /\ Holds(g, d.next, d.next) <=> e.kind = "onset"
           /\ \A x : Recorded(h, c, x) => Recorded(g, d, x)
           /\ Recorded(g, d, e)
<1> DEFINE g == With(h, c.next, e)
           new == [kind |-> e.kind, key |-> e.key]
<1>1. c.next \in Nat /\ d.next \in Nat /\ c.boot \in Nat /\ d.next = c.next + 1
  BY DEF HistoryOf
<1>2. new \in [kind : {"event", "onset", "clear"}, key : Keys \cup {None}] /\ (new.kind = "event" <=> new.key = None)
      /\ new.kind = e.kind /\ new.key = e.key
  BY NoneAssumption DEF IsNext
<1>3. g = [i \in 1 .. d.next |-> IF i = d.next THEN new ELSE h[i]]
  BY <1>1 DEF With
<1> HIDE DEF g, new
<1>4. g[d.next] = new /\ (\A i \in 1 .. c.next : g[i] = h[i] /\ i \in 1 .. d.next) /\ d.next \in 1 .. d.next
  BY <1>1, <1>3
<1>5. \A i \in 1 .. d.next : i = d.next \/ i \in 1 .. c.next
  BY <1>1
<1>6. \A i \in 1 .. c.next : h[i] \in [kind : {"event", "onset", "clear"}, key : Keys \cup {None}] /\ (h[i].kind = "event" <=> h[i].key = None)
  BY DEF HistoryOf
<1>7. g \in [1 .. d.next -> [kind : {"event", "onset", "clear"}, key : Keys \cup {None}]]
  BY <1>2, <1>3, <1>5, <1>6
<1>8. \A i \in 1 .. d.next : g[i].kind = "event" <=> g[i].key = None
  BY <1>2, <1>4, <1>5, <1>6
<1>9. \A n \in -1 .. c.next : \A i : Holds(g, n, i) <=> Holds(h, n, i)
  <2>1. \A n \in -1 .. c.next : \A j \in 1 .. n : j \in 1 .. c.next
    BY <1>1
  <2> QED
    BY <1>4, <2>1 DEF Holds
<1>10. \A n \in 0 .. c.next : Kept(g, n) = Kept(h, n)
  <2>1. \A n \in 0 .. c.next : n \in -1 .. c.next
    BY <1>1
  <2> QED
    BY <1>9, <2>1 DEF Kept
<1>11. \A i \in 1 .. c.next : Holds(g, d.next, i) <=> (Holds(h, c.next, i) /\ h[i].key # e.key)
  <2> SUFFICES ASSUME NEW i \in 1 .. c.next PROVE Holds(g, d.next, i) <=> (Holds(h, c.next, i) /\ h[i].key # e.key)
    OBVIOUS
  <2>1. i \in 1 .. d.next /\ g[i] = h[i] /\ ~(d.next <= i)
    BY <1>1, <1>4
  <2>2. ASSUME Holds(g, d.next, i) PROVE Holds(h, c.next, i) /\ h[i].key # e.key
    BY <1>2, <1>4, <2>1, <2>2 DEF Holds
  <2>3. ASSUME Holds(h, c.next, i), h[i].key # e.key PROVE Holds(g, d.next, i)
    BY <1>2, <1>4, <1>5, <2>1, <2>3 DEF Holds
  <2> QED
    BY <2>2, <2>3
<1>12. Holds(g, d.next, d.next) <=> e.kind = "onset"
  BY <1>1, <1>2, <1>4 DEF Holds
<1>13. \A x : Recorded(h, c, x) => Recorded(g, d, x)
  BY <1>4 DEF Recorded
<1>14. Recorded(g, d, e)
  BY <1>1, <1>2, <1>4 DEF Recorded, IsNext
<1>15. g[d.next].kind = e.kind /\ g[d.next].key = e.key
  BY <1>2, <1>4
<1> QED
  BY <1>4, <1>7, <1>8, <1>9, <1>10, <1>11, <1>12, <1>13, <1>14, <1>15 DEF g

\* The ring with one more entry is the end of the history with one more.
LEMMA RingGrows ==
    ASSUME NEW h, NEW c, HistoryOf(h, c), RingInv(h, c), NEW e, e.id = c.next + 1,
           NEW g, NEW d, d.next = c.next + 1, d.ring = Push(c.ring, e),
           \A x : Recorded(h, c, x) => Recorded(g, d, x), Recorded(g, d, e)
    PROVE  RingInv(g, d)
<1> DEFINE t == IF Len(c.ring) < Capacity THEN c.ring ELSE Tail(c.ring)
<1>1. c.next \in Nat /\ Capacity \in Nat \ {0}
  BY NotificationBounds DEF HistoryOf
<1>2. /\ c.ring \in Seq(Range(c.ring)) /\ (\A r \in Range(c.ring) : Recorded(h, c, r))
      /\ Len(c.ring) \in Nat /\ Len(c.ring) <= Capacity /\ (Len(c.ring) = Capacity \/ Len(c.ring) = c.next)
      /\ \A i \in 1 .. Len(c.ring) : c.ring[i].id = (c.next - Len(c.ring)) + i
  BY LenProperties DEF RingInv
<1>3. /\ t \in Seq(Range(t)) /\ Range(t) \subseteq Range(c.ring) /\ Len(t) \in Nat
      /\ Len(t) < Capacity /\ (Len(t) + 1 = Capacity \/ Len(t) = c.next)
      /\ \A i \in 1 .. Len(t) : t[i].id = (c.next - Len(t)) + i
  <2>1. CASE Len(c.ring) < Capacity
    BY <1>1, <1>2, <2>1
  <2>2. CASE ~(Len(c.ring) < Capacity)
    <3>1. t = Tail(c.ring) /\ Len(c.ring) = Capacity /\ c.ring # <<>>
      BY <1>1, <1>2, <2>2
    <3>2. /\ Len(t) = Len(c.ring) - 1
          /\ \A i \in 1 .. Len(t) : i + 1 \in 1 .. Len(c.ring) /\ t[i] = c.ring[i + 1]
      BY <1>2, <3>1, Received
    <3>3. t \in Seq(Range(t)) /\ Range(t) \subseteq Range(c.ring)
      BY <1>2, <3>1, RangeTail
    <3> HIDE DEF t
    <3>4. Len(t) \in Nat /\ Len(t) < Capacity /\ Len(t) + 1 = Capacity
      BY <1>1, <1>2, <3>1, <3>2
    <3>5. ASSUME NEW i \in 1 .. Len(t) PROVE t[i].id = (c.next - Len(t)) + i
      <4>1. t[i].id = (c.next - Len(c.ring)) + (i + 1)
        BY <1>2, <3>2
      <4>2. \A n, l, k \in Int : (n - l) + (k + 1) = (n - (l - 1)) + k
        OBVIOUS
      <4>3. c.next \in Int /\ Len(c.ring) \in Int /\ i \in Int
        BY <1>1, <1>2, <3>4
      <4> QED
        BY <3>2, <4>1, <4>2, <4>3
    <3> QED
      BY <3>3, <3>4, <3>5
  <2> QED
    BY <2>1, <2>2
<1>4. d.ring = Append(t, e)
  BY DEF Push
<1> HIDE DEF t
<1>5. d.ring \in Seq(Range(d.ring)) /\ Range(d.ring) = Range(t) \cup {e}
  BY <1>3, <1>4, RangeAppend
<1>6. /\ Len(d.ring) = Len(t) + 1
      /\ \A i \in 1 .. Len(t) : d.ring[i] = t[i]
      /\ d.ring[Len(t) + 1] = e
  <2>1. t \in Seq(Range(t) \cup {e})
    BY <1>3, SeqMonotonic
  <2> QED
    BY <1>4, <2>1, AppendProperties
<1>7. \A r \in Range(d.ring) : Recorded(g, d, r)
  BY <1>2, <1>3, <1>5
<1>8. ASSUME NEW i \in 1 .. Len(d.ring) PROVE d.ring[i].id = (d.next - Len(d.ring)) + i
  <2>1. \A n, l, k \in Int : (n - l) + k = ((n + 1) - (l + 1)) + k
    OBVIOUS
  <2>2. \A n, l \in Int : n + 1 = ((n + 1) - (l + 1)) + (l + 1)
    OBVIOUS
  <2>3. c.next \in Int /\ Len(t) \in Int /\ i \in Int /\ (i \in 1 .. Len(t) \/ i = Len(t) + 1)
    BY <1>1, <1>3, <1>6
  <2>4. CASE i \in 1 .. Len(t)
    <3>1. d.ring[i].id = (c.next - Len(t)) + i
      BY <1>3, <1>6, <2>4
    <3> QED
      BY <1>6, <2>1, <2>3, <3>1
  <2>5. CASE i = Len(t) + 1
    BY <1>6, <2>2, <2>3, <2>5
  <2> QED
    BY <2>3, <2>4, <2>5
<1>9. Len(d.ring) <= Capacity /\ (Len(d.ring) = Capacity \/ Len(d.ring) = d.next)
  BY <1>1, <1>3, <1>6
<1> QED
  BY <1>5, <1>7, <1>8, <1>9 DEF RingInv

\* What a message to the subscriber changes.
Center(c) == [boot |-> c.boot, next |-> c.next, ring |-> c.ring, active |-> c.active, sub |-> c.sub]
Subscriber(s) == [on |-> s.on, q |-> s.q, lost |-> s.lost]

CanSend(c) == c = Center(c) /\ c.sub = Subscriber(c.sub) /\ c.sub.q \in Seq(Range(c.sub.q))

\* The subscriber is told m, or the message is lost.
Sends(c, d, m) ==
    /\ d = Center(d) /\ d.boot = c.boot
    /\ d.sub = Subscriber(d.sub) /\ d.sub.on = c.sub.on /\ d.sub.q \in Seq(Range(d.sub.q))
    /\ Range(c.sub.q) \subseteq Range(d.sub.q) /\ Range(d.sub.q) \subseteq Range(c.sub.q) \cup {m}
    /\ ~c.sub.on => d.sub = c.sub

Message(c, e) == [entry |-> e, at |-> c.next]

Arrives(c, d, m) == c.sub.on => d.sub.lost \/ m \in Range(d.sub.q)

Sent(c, e, d) ==
    /\ d.next = c.next /\ d.ring = c.ring /\ d.active = c.active /\ Sends(c, d, Message(c, e))
    /\ e.id = c.next => Arrives(c, d, Message(c, e))
    /\ (e.id # c.next /\ c.sub.lost) => d.sub.lost

\* A message is the last in the queue, or marked as lost.
LEMMA SubscriberTold ==
    ASSUME NEW c, CanSend(c), NEW e
    PROVE  Sent(c, e, Broadcast(c, e))
<1>0. PICK d, m : d = Broadcast(c, e) /\ m = Message(c, e)
  OBVIOUS
<1>c. c = Center(c) /\ c.sub = Subscriber(c.sub) /\ c.sub.q \in Seq(Range(c.sub.q))
  BY DEF CanSend
<1>1. CASE ~c.sub.on
  <2>1. d = c
    BY <1>0, <1>1 DEF Broadcast
  <2> QED
    BY <1>1, <1>c, <1>0, <2>1 DEF Sent, Sends, Arrives
<1>2. CASE c.sub.on /\ Len(c.sub.q) < SubscriberBuffer
  <2> DEFINE q == Append(c.sub.q, m)
             lost == IF e.id = c.next THEN FALSE ELSE c.sub.lost
  <2>1. d = [c EXCEPT !.sub.q = q, !.sub.lost = lost]
    BY <1>0, <1>2 DEF Broadcast, Message
  <2>2. q \in Seq(Range(q)) /\ Range(q) = Range(c.sub.q) \cup {m}
    BY <1>c, RangeAppend
  <2> HIDE DEF q, lost
  <2>3. /\ d.boot = c.boot /\ d.next = c.next /\ d.ring = c.ring /\ d.active = c.active
        /\ d.sub.on = c.sub.on /\ d.sub.q = q /\ d.sub.lost = lost /\ d = Center(d) /\ d.sub = Subscriber(d.sub)
    <3>1. PICK t : t = [[c.sub EXCEPT !.q = q] EXCEPT !.lost = lost]
      OBVIOUS
    <3>2. t.on = c.sub.on /\ t.q = q /\ t.lost = lost /\ t = Subscriber(t)
      BY <1>c, <3>1 DEF Subscriber
    <3>3. d = [c EXCEPT !.sub = t]
      BY <1>c, <2>1, <3>1 DEF Center
    <3> QED
      BY <1>c, <3>2, <3>3 DEF Center
  <2>4. e.id # c.next /\ c.sub.lost => lost
    BY DEF lost
  <2>5. m \in Range(q) /\ Range(c.sub.q) \subseteq Range(q)
    BY <2>2
  <2>6. d.sub.q \in Seq(Range(d.sub.q)) /\ Range(d.sub.q) \subseteq Range(c.sub.q) \cup {m}
    BY <2>2, <2>3
  <2>7. d.sub.on = c.sub.on
    BY <1>2, <2>3
  <2>8. e.id # c.next /\ c.sub.lost => d.sub.lost
    BY <2>3, <2>4
  <2> QED
    BY ONLY <1>0, <1>2, <2>3, <2>5, <2>6, <2>7, <2>8 DEF Sent, Sends, Arrives
<1>3. CASE c.sub.on /\ ~(Len(c.sub.q) < SubscriberBuffer)
  <2> DEFINE lost == (e.id = c.next) \/ c.sub.lost
  <2>1. d = [c EXCEPT !.sub.lost = lost]
    BY <1>0, <1>3 DEF Broadcast
  <2> HIDE DEF lost
  <2>2. /\ d.boot = c.boot /\ d.next = c.next /\ d.ring = c.ring /\ d.active = c.active
        /\ d.sub.on = c.sub.on /\ d.sub.q = c.sub.q /\ d.sub.lost = lost /\ d = Center(d) /\ d.sub = Subscriber(d.sub)
    BY <1>c, <2>1 DEF Center, Subscriber
  <2>3. (e.id = c.next => lost) /\ (c.sub.lost => lost)
    BY DEF lost
  <2> QED
    BY ONLY <1>0, <1>c, <1>3, <2>2, <2>3 DEF Sent, Sends, Arrives
<1> QED
  BY <1>1, <1>2, <1>3

\* An entry is published, with a set of conditions.
Adds(c, e, a, d) ==
    LET m == [entry |-> e, at |-> c.next + 1] IN
    Sends(c, d, m) /\ Arrives(c, d, m) /\ d.next = c.next + 1 /\ d.ring = Push(c.ring, e) /\ d.active = a

\* An entry that is published goes on with the history.
LEMMA EntryAdded ==
    ASSUME NEW h, NEW c, NEW s, NEW b, PageInv(h, c, s, b), NEW e, IsNext(c, e), NEW a, NEW d, Adds(c, e, a, d),
           a = [k \in Keys |-> IF k = e.key THEN (IF e.kind = "onset" THEN e ELSE None) ELSE c.active[k]]
    PROVE  PageInv(With(h, c.next, e), d, s, b)
<1>m. PICK m : m = [entry |-> e, at |-> c.next + 1]
  OBVIOUS
<1>a. /\ Sends(c, d, m) /\ Arrives(c, d, m) /\ d.next = c.next + 1 /\ d.ring = Push(c.ring, e)
      /\ d.active = [k \in Keys |-> IF k = e.key THEN (IF e.kind = "onset" THEN e ELSE None) ELSE c.active[k]]
  BY <1>m DEF Adds
<1>1. /\ HistoryOf(h, c) /\ RingInv(h, c) /\ ActiveInv(h, c) /\ WayInv(h, c, s)
      /\ LoadsInv(h, c, b) /\ ItemsInv(h, c, s, b) /\ PendingInv(h, c, s, b) /\ SyncedInv(h, c, s, b)
  BY <1>m, <1>a DEF PageInv
<1>2. PICK g : g = With(h, c.next, e)
  OBVIOUS
<1>3. c.next \in Nat /\ c.boot \in Nat /\ d.boot = c.boot /\ d.next \in Nat /\ Capacity \in Nat
  BY <1>m, <1>a, <1>1, NotificationBounds DEF HistoryOf, Sends
<1>4. /\ g \in [1 .. d.next -> [kind : {"event", "onset", "clear"}, key : Keys \cup {None}]]
      /\ \A i \in 1 .. d.next : g[i].kind = "event" <=> g[i].key = None
      /\ g[d.next].kind = e.kind /\ g[d.next].key = e.key
      /\ \A i \in 1 .. c.next : g[i] = h[i]
      /\ \A n \in -1 .. c.next : \A i : Holds(g, n, i) <=> Holds(h, n, i)
      /\ \A n \in 0 .. c.next : Kept(g, n) = Kept(h, n)
      /\ \A i \in 1 .. c.next : Holds(g, d.next, i) <=> (Holds(h, c.next, i) /\ h[i].key # e.key)
      /\ Holds(g, d.next, d.next) <=> e.kind = "onset"
      /\ \A x : Recorded(h, c, x) => Recorded(g, d, x)
      /\ Recorded(g, d, e)
  BY <1>m, <1>a, <1>1, <1>2, <1>3, HistoryGrows
<1>5. HistoryOf(g, d)
  BY <1>m, <1>a, <1>3, <1>4 DEF HistoryOf, Sends, Center, Subscriber
<1>6. RingInv(g, d)
  <2>1. e.id = c.next + 1
    BY <1>m, <1>a DEF IsNext
  <2> QED
    BY <1>m, <1>a, <1>1, <1>4, <2>1, RingGrows
<1>7. ActiveInv(g, d)
  <2>1. e \in Entries /\ (e.kind = "onset" => e \in Onsets /\ e.key \in Keys /\ e.id = d.next /\ e # None)
    <3>1. e.kind = "onset" => e \in Onsets
      BY <1>m, <1>a DEF IsNext, Onsets, OnsetsOf, Entries, EntriesOf
    <3>2. e.kind = "onset" => e.key \in Keys
      BY <1>m, <1>a DEF IsNext
    <3>3. e.kind = "onset" => e # None
      BY <1>m, <1>a, <3>1, NoneAssumption
    <3> QED
      BY <1>m, <1>a, <3>1, <3>2, <3>3 DEF IsNext
  <2>2. d.active \in [Keys -> Onsets \cup {None}]
    BY <1>m, <1>a, <1>1, <2>1 DEF ActiveInv
  <2>3. ASSUME NEW k \in Keys, d.active[k] # None
        PROVE  Recorded(g, d, d.active[k]) /\ d.active[k].key = k /\ Holds(g, d.next, d.active[k].id)
    <3>1. CASE k = e.key
      <4>1. d.active[k] = e /\ e.kind = "onset"
        BY <1>m, <1>a, <2>3, <3>1
      <4> QED
        BY <1>m, <1>a, <1>4, <2>1, <3>1, <4>1
    <3>2. CASE k # e.key
      <4>1. d.active[k] = c.active[k]
        BY <1>m, <1>a, <3>2
      <4>2. Recorded(h, c, c.active[k]) /\ c.active[k].key = k /\ Holds(h, c.next, c.active[k].id)
        BY <1>m, <1>a, <1>1, <2>3, <4>1 DEF ActiveInv
      <4>3. c.active[k].id \in 1 .. c.next /\ h[c.active[k].id].key = k
        BY <1>m, <1>a, <4>2 DEF Recorded
      <4> QED
        BY <1>m, <1>a, <1>4, <3>2, <4>1, <4>2, <4>3
    <3> QED
      BY <1>m, <1>a, <3>1, <3>2
  <2>4. ASSUME NEW i \in 1 .. d.next, Holds(g, d.next, i)
        PROVE  d.active[g[i].key] # None /\ d.active[g[i].key].id = i
    <3>1. CASE i = d.next
      BY <1>m, <1>a, <1>4, <2>1, <2>4, <3>1
    <3>2. CASE i \in 1 .. c.next
      <4>1. Holds(h, c.next, i) /\ h[i].key # e.key /\ g[i] = h[i]
        BY <1>m, <1>a, <1>4, <2>4, <3>2
      <4>2. h[i].key \in Keys
        BY <1>m, <1>a, <1>1, <3>2, <4>1 DEF HistoryOf, Holds
      <4>3. c.active[h[i].key] # None /\ c.active[h[i].key].id = i
        BY <1>m, <1>a, <1>1, <3>2, <4>1 DEF ActiveInv
      <4> QED
        BY <1>m, <1>a, <4>1, <4>2, <4>3
    <3> QED
      BY <1>m, <1>a, <1>3, <3>1, <3>2
  <2> QED
    BY <1>m, <1>a, <2>2, <2>3, <2>4 DEF ActiveInv
<1>8. OnTheWay(c, s) \subseteq OnTheWay(d, s) /\ OnTheWay(d, s) \subseteq OnTheWay(c, s) \cup {m}
  BY <1>m, <1>a DEF OnTheWay, Sends
<1>9. WayInv(g, d, s)
  <2>1. ASSUME NEW x \in OnTheWay(d, s)
        PROVE  /\ x \in [entry : Entries, at : Nat] /\ x.at \in x.entry.id .. d.next /\ Recorded(g, d, x.entry)
               /\ x.entry.kind = "onset" => Holds(g, x.at, x.entry.id)
    <3>1. CASE x = m
      <4>1. m \in [entry : Entries, at : Nat] /\ m.entry = e /\ m.at = d.next
        BY <1>m, <1>a, <1>3 DEF IsNext
      <4>2. e.id = d.next
        BY <1>m, <1>a DEF IsNext
      <4> QED
        BY <1>m, <1>a, <1>3, <1>4, <3>1, <4>1, <4>2
    <3>2. CASE x \in OnTheWay(c, s)
      <4>1. /\ x \in [entry : Entries, at : Nat] /\ x.at \in x.entry.id .. c.next /\ Recorded(h, c, x.entry)
            /\ x.entry.kind = "onset" => Holds(h, x.at, x.entry.id)
        BY <1>m, <1>a, <1>1, <3>2 DEF WayInv
      <4>2. x.entry.id \in 1 .. c.next
        BY <1>m, <1>a, <4>1 DEF Recorded
      <4>3. x.at \in -1 .. c.next /\ x.at \in x.entry.id .. d.next
        BY <1>m, <1>a, <1>3, <4>1, <4>2
      <4> QED
        BY <1>m, <1>a, <1>4, <4>1, <4>3
    <3> QED
      BY <1>m, <1>a, <1>8, <2>1, <3>1, <3>2
  <2>2. s.st = "down" => d.sub.q = <<>>
    BY <1>m, <1>a, <1>1 DEF WayInv, Sends
  <2> QED
    BY <1>m, <1>a, <1>1, <2>1, <2>2 DEF WayInv, Sends
<1>10. LoadsInv(g, d, b)
  <2>1. ASSUME NEW l \in b.loads, l.snap # None
        PROVE  /\ l.snap.boot = d.boot /\ l.snap.nextId \in 1 .. d.next + 1
               /\ \A f \in l.snap.entries : Recorded(g, d, f)
               /\ Ids(l.snap.entries) = Kept(g, l.snap.nextId - 1)
    <3>1. /\ l.snap.boot = c.boot /\ l.snap.nextId \in 1 .. c.next + 1
          /\ \A f \in l.snap.entries : Recorded(h, c, f)
          /\ Ids(l.snap.entries) = Kept(h, l.snap.nextId - 1)
      BY <1>m, <1>a, <1>1, <2>1 DEF LoadsInv
    <3>2. l.snap.nextId - 1 \in 0 .. c.next /\ l.snap.nextId \in 1 .. d.next + 1
      BY <1>m, <1>a, <1>3, <3>1
    <3> QED
      BY <1>m, <1>a, <1>3, <1>4, <3>1, <3>2
  <2> QED
    BY <1>m, <1>a, <1>1, <2>1 DEF LoadsInv
<1>11. ItemsInv(g, d, s, b)
  <2>1. b.boot = c.boot => b.next <= d.next + 1 /\ \A f \in b.items : Recorded(g, d, f) /\ f.id < b.next
    BY <1>m, <1>a, <1>1, <1>3, <1>4 DEF ItemsInv
  <2> QED
    BY <1>m, <1>a, <1>1, <1>3, <2>1 DEF ItemsInv
<1>12. ASSUME s.st = "up" PROVE Coming(d, s)
  <2>1. d.sub.lost \/ m \in OnTheWay(d, s)
    BY <1>m, <1>a, <1>1, <1>12 DEF WayInv, OnTheWay, Arrives
  <2>2. m.entry.id = d.next
    BY <1>m, <1>a DEF IsNext
  <2> QED
    BY <1>m, <1>a, <2>1, <2>2 DEF Coming
<1>13. PendingInv(g, d, s, b)
  <2>1. ASSUME NEW l \in b.loads, s.st = "up", b.timer # "resync", l.token = b.started, b.boot = d.boot,
               NEW i \in From(d, l) .. b.next - 1, i > d.next - Capacity
        PROVE  i \in Ids(b.items)
    <3>1. \A j \in From(c, l) .. b.next - 1 : j > c.next - Capacity => j \in Ids(b.items)
      BY <1>m, <1>a, <1>1, <1>3, <2>1 DEF PendingInv
    <3>2. i \in From(c, l) .. b.next - 1 /\ i > c.next - Capacity
      <4>1. i \in Int /\ From(d, l) <= i /\ From(c, l) \in Int
        BY <1>m, <1>a, <1>1, <1>3, <2>1 DEF From, LoadsInv
      <4>2. From(c, l) <= From(d, l)
        BY <1>m, <1>a, <1>1, <1>3, <2>1 DEF From, LoadsInv
      <4>3. From(d, l) \in Int /\ b.next \in Nat
        BY <1>m, <1>a, <1>1, <1>3, <2>1 DEF From, LoadsInv, ItemsInv
      <4> QED
        BY <1>m, <1>a, <1>3, <2>1, <4>1, <4>2, <4>3
    <3> QED
      BY <1>m, <1>a, <3>1, <3>2
  <2> QED
    BY <1>m, <1>a, <1>12, <2>1 DEF PendingInv
<1>14. SyncedInv(g, d, s, b)
  <2>1. ASSUME s.st = "up", b.timer # "resync", b.applied = b.started, ~b.late
        PROVE  /\ b.boot = d.boot
               /\ \A i \in 1 .. b.next - 1 : i > d.next - Capacity \/ Holds(g, d.next, i) => i \in Ids(b.items)
               /\ \A f \in ActiveConditions(b.items) : Holds(g, b.next - 1, f.id)
    <3>1. /\ b.boot = c.boot
          /\ \A i \in 1 .. b.next - 1 : i > c.next - Capacity \/ Holds(h, c.next, i) => i \in Ids(b.items)
          /\ \A f \in ActiveConditions(b.items) : Holds(h, b.next - 1, f.id)
      BY <1>m, <1>a, <1>1, <2>1 DEF SyncedInv
    <3>2. b.next - 1 \in -1 .. c.next /\ b.next \in Nat
      BY <1>m, <1>a, <1>1, <1>3, <3>1 DEF ItemsInv
    <3>3. ASSUME NEW i \in 1 .. b.next - 1, i > d.next - Capacity \/ Holds(g, d.next, i) PROVE i \in Ids(b.items)
      <4>1. i \in 1 .. c.next
        BY <1>m, <1>a, <1>3, <3>2, <3>3
      <4>2. i > d.next - Capacity => i > c.next - Capacity
        BY <1>m, <1>a, <1>3, <4>1
      <4> QED
        BY <1>m, <1>a, <1>4, <3>1, <3>3, <4>1, <4>2
    <3> QED
      BY <1>m, <1>a, <1>3, <1>4, <3>1, <3>2, <3>3
  <2> QED
    BY <1>m, <1>a, <1>12, <2>1 DEF SyncedInv
<1> QED
  BY <1>m, <1>a, <1>2, <1>5, <1>6, <1>7, <1>9, <1>10, <1>11, <1>13, <1>14 DEF PageInv

\* What a text may be.
TextOf(text) == text \in Texts

\* An active condition is rewritten under its own id.
Rewrites(c, key, e, d) ==
    /\ Sends(c, d, Message(c, e))
    /\ d.next = c.next /\ d.ring = Replace(c.ring, e) /\ d.active = [c.active EXCEPT ![key] = e]
    /\ e.id = c.next => Arrives(c, d, Message(c, e))
    /\ (e.id # c.next /\ c.sub.lost) => d.sub.lost

\* The history tells nothing of texts: an entry rewritten is as it was.
LEMMA EntryRewritten ==
    ASSUME NEW h, NEW c, NEW s, NEW b, PageInv(h, c, s, b), NEW key \in Keys, c.active[key] # None, NEW text, TextOf(text),
           NEW e, e = [c.active[key] EXCEPT !.text = text], NEW d, Rewrites(c, key, e, d)
    PROVE  PageInv(h, d, s, b)
<1>m. PICK m : m = Message(c, e)
  OBVIOUS
<1>a. /\ Sends(c, d, m) /\ d.next = c.next /\ d.ring = Replace(c.ring, e) /\ d.active = [c.active EXCEPT ![key] = e]
      /\ e.id = c.next => Arrives(c, d, m)
      /\ (e.id # c.next /\ c.sub.lost) => d.sub.lost
  BY <1>m DEF Rewrites
<1>1. /\ HistoryOf(h, c) /\ RingInv(h, c) /\ ActiveInv(h, c) /\ WayInv(h, c, s)
      /\ LoadsInv(h, c, b) /\ ItemsInv(h, c, s, b) /\ PendingInv(h, c, s, b) /\ SyncedInv(h, c, s, b)
  BY <1>m, <1>a DEF PageInv
<1>2. c.next \in Nat /\ c.boot \in Nat /\ d.boot = c.boot /\ d.next = c.next
  BY <1>m, <1>a, <1>1 DEF HistoryOf, Sends
<1>3. \A x : Recorded(h, d, x) <=> Recorded(h, c, x)
  BY <1>m, <1>a, <1>2 DEF Recorded
<1>4. PICK o : /\ o = c.active[key] /\ o \in Onsets /\ o # None
               /\ Recorded(h, c, o) /\ o.key = key /\ Holds(h, c.next, o.id)
  BY <1>m, <1>a, <1>1 DEF ActiveInv
<1>5. e \in Onsets /\ e.id = o.id /\ e.boot = o.boot /\ e.kind = o.kind /\ e.key = o.key /\ e.kind = "onset"
  <2>1. CASE o \in OnsetsOf({None, "first", "later"}) /\ text \in Published
    BY <1>m, <1>a, <1>4, <2>1 DEF Onsets, OnsetsOf
  <2>2. CASE o \in OnsetsOf({None, "first", "later"}) /\ text \in {None, "first", "later"}
    BY <1>m, <1>a, <1>4, <2>2 DEF Onsets, OnsetsOf
  <2>3. CASE o \in OnsetsOf(Published) /\ text \in Published
    BY <1>m, <1>a, <1>4, <2>3 DEF Onsets, OnsetsOf
  <2>4. CASE o \in OnsetsOf(Published) /\ text \in {None, "first", "later"}
    BY <1>m, <1>a, <1>4, <2>4 DEF Onsets, OnsetsOf
  <2> QED
    BY <1>m, <1>a, <1>4, <2>1, <2>2, <2>3, <2>4 DEF TextOf, Texts, Onsets
<1>6. e \in Entries /\ e # None
  <2>1. OnsetsOf({None, "first", "later"}) \subseteq EntriesOf({None, "first", "later"}) /\ OnsetsOf(Published) \subseteq EntriesOf(Published)
    BY <1>m, <1>a DEF OnsetsOf, EntriesOf
  <2> QED
    BY <1>m, <1>a, <1>5, <2>1, NoneAssumption DEF Onsets, Entries
<1>7. Recorded(h, d, e) /\ Recorded(h, c, e) /\ Holds(h, c.next, e.id)
  BY <1>m, <1>a, <1>2, <1>4, <1>5, <1>6 DEF Recorded
<1>8. HistoryOf(h, d)
  BY <1>m, <1>a, <1>1, <1>2 DEF HistoryOf, Sends, Center, Subscriber
<1>9. RingInv(h, d)
  <2>1. PICK S : S = Range(c.ring) \cup {e}
    OBVIOUS
  <2>2. c.ring \in Seq(S) /\ Len(c.ring) \in Nat /\ DOMAIN c.ring = 1 .. Len(c.ring) /\ e \in S
    BY <1>m, <1>a, <1>1, <2>1, SeqMonotonic, LenProperties DEF RingInv
  <2>3. /\ DOMAIN d.ring = 1 .. Len(c.ring)
        /\ \A i \in 1 .. Len(c.ring) : d.ring[i] = IF c.ring[i].id = e.id THEN e ELSE c.ring[i]
        /\ d.ring = [i \in 1 .. Len(c.ring) |-> d.ring[i]]
    BY <1>m, <1>a, <2>2 DEF Replace
  <2>4. \A i \in 1 .. Len(c.ring) : c.ring[i] \in Range(c.ring) /\ d.ring[i] \in Range(d.ring)
    BY <1>m, <1>a, <2>2, <2>3 DEF Range
  <2>5. d.ring \in [1 .. Len(c.ring) -> Range(d.ring)]
    BY <1>m, <1>a, <2>3, <2>4
  <2>6. d.ring \in Seq(Range(d.ring)) /\ Len(d.ring) = Len(c.ring)
    <3>1. \A T : \A n \in Nat : [1 .. n -> T] \subseteq Seq(T)
      BY <1>m, <1>a, SeqDef
    <3>2. d.ring \in Seq(Range(d.ring))
      BY <1>m, <1>a, <2>2, <2>5, <3>1
    <3> QED
      BY <1>m, <1>a, <2>2, <2>3, <3>2, LenProperties
  <2>7. ASSUME NEW r \in Range(d.ring) PROVE Recorded(h, d, r)
    <3>1. PICK i \in 1 .. Len(c.ring) : r = d.ring[i]
      BY <1>m, <1>a, <2>3, <2>7 DEF Range
    <3> QED
      BY <1>m, <1>a, <1>1, <1>3, <1>7, <2>3, <2>4, <3>1 DEF RingInv
  <2>8. \A i \in 1 .. Len(d.ring) : d.ring[i].id = (d.next - Len(d.ring)) + i
    <3>1. \A i \in 1 .. Len(c.ring) : d.ring[i].id = c.ring[i].id
      BY <1>m, <1>a, <2>3
    <3> QED
      BY <1>m, <1>a, <1>1, <1>2, <2>6, <3>1 DEF RingInv
  <2> QED
    BY <1>m, <1>a, <1>1, <1>2, <2>6, <2>7, <2>8 DEF RingInv
<1>10. ActiveInv(h, d)
  <2>1. d.active \in [Keys -> Onsets \cup {None}]
    BY <1>m, <1>a, <1>1, <1>5 DEF ActiveInv
  <2>2. \A k \in Keys : d.active[k] = IF k = key THEN e ELSE c.active[k]
    BY <1>m, <1>a, <1>1 DEF ActiveInv
  <2>3. ASSUME NEW k \in Keys, d.active[k] # None
        PROVE  Recorded(h, d, d.active[k]) /\ d.active[k].key = k /\ Holds(h, d.next, d.active[k].id)
    BY <1>m, <1>a, <1>1, <1>2, <1>3, <1>4, <1>5, <1>7, <2>2, <2>3 DEF ActiveInv
  <2>4. ASSUME NEW i \in 1 .. d.next, Holds(h, d.next, i)
        PROVE  d.active[h[i].key] # None /\ d.active[h[i].key].id = i
    <3>1. h[i].key \in Keys /\ c.active[h[i].key] # None /\ c.active[h[i].key].id = i
      BY <1>m, <1>a, <1>1, <1>2, <2>4 DEF ActiveInv, Holds, HistoryOf
    <3> QED
      BY <1>m, <1>a, <1>4, <1>5, <1>6, <2>2, <3>1
  <2> QED
    BY <1>m, <1>a, <2>1, <2>3, <2>4 DEF ActiveInv
<1>11. OnTheWay(c, s) \subseteq OnTheWay(d, s) /\ OnTheWay(d, s) \subseteq OnTheWay(c, s) \cup {m}
  BY <1>m, <1>a DEF OnTheWay, Sends
<1>12. m \in [entry : Entries, at : Nat] /\ m.entry = e /\ m.at = c.next /\ e.id \in 1 .. c.next
  BY <1>m, <1>a, <1>2, <1>6, <1>7 DEF Recorded, Message
<1>13. WayInv(h, d, s)
  <2>1. ASSUME NEW x \in OnTheWay(d, s)
        PROVE  /\ x \in [entry : Entries, at : Nat] /\ x.at \in x.entry.id .. d.next /\ Recorded(h, d, x.entry)
               /\ x.entry.kind = "onset" => Holds(h, x.at, x.entry.id)
    <3>1. CASE x = m
      <4>1. c.next \in e.id .. c.next
        BY <1>m, <1>a, <1>2, <1>12
      <4> QED
        BY <1>m, <1>a, <1>2, <1>7, <1>12, <3>1, <4>1
    <3>2. CASE x \in OnTheWay(c, s)
      BY <1>m, <1>a, <1>1, <1>2, <1>3, <3>2 DEF WayInv
    <3> QED
      BY <1>m, <1>a, <1>11, <2>1, <3>1, <3>2
  <2>2. s.st = "down" => d.sub.q = <<>>
    BY <1>m, <1>a, <1>1 DEF WayInv, Sends
  <2> QED
    BY <1>m, <1>a, <1>1, <2>1, <2>2 DEF WayInv, Sends
<1>14. LoadsInv(h, d, b)
  BY <1>m, <1>a, <1>1, <1>2, <1>3 DEF LoadsInv
<1>15. ItemsInv(h, d, s, b)
  BY <1>m, <1>a, <1>1, <1>2, <1>3 DEF ItemsInv
<1>16. ASSUME s.st = "up", Coming(c, s) PROVE Coming(d, s)
  <2>1. CASE e.id = c.next
    <3>1. d.sub.lost \/ m \in OnTheWay(d, s)
      BY <1>m, <1>a, <1>1, <1>16, <2>1 DEF WayInv, OnTheWay, Arrives
    <3> QED
      BY <1>m, <1>a, <1>2, <1>12, <2>1, <3>1 DEF Coming
  <2>2. CASE e.id # c.next
    BY <1>m, <1>a, <1>2, <1>11, <1>16, <2>2 DEF Coming
  <2> QED
    BY <1>m, <1>a, <2>1, <2>2
<1>17. \A l : From(d, l) = From(c, l)
  BY <1>m, <1>a, <1>2 DEF From
<1>18. PendingInv(h, d, s, b)
  BY <1>m, <1>a, <1>1, <1>2, <1>16, <1>17 DEF PendingInv
<1>19. SyncedInv(h, d, s, b)
  BY <1>m, <1>a, <1>1, <1>2, <1>16 DEF SyncedInv
<1> QED
  BY <1>m, <1>a, <1>8, <1>9, <1>10, <1>13, <1>14, <1>15, <1>18, <1>19 DEF PageInv

\* What publishing does to the center, whose conditions may have been changed before.
LEMMA PublishLockedSends ==
    ASSUME NEW c, CanSend(c), NEW e, e.id = c.next + 1, NEW a
    PROVE  Adds(c, e, a, PublishLocked([c EXCEPT !.active = a], e))
<1>1. PICK x : x = [[c EXCEPT !.active = a] EXCEPT !.next = e.id, !.ring = Push(@, e)]
  OBVIOUS
<1>2. /\ x = Center(x) /\ x.boot = c.boot /\ x.next = c.next + 1 /\ x.ring = Push(c.ring, e) /\ x.active = a /\ x.sub = c.sub
      /\ x.sub = Subscriber(x.sub)
  BY <1>1 DEF CanSend, Center, Subscriber
<1>3. PICK p : p = PublishLocked([c EXCEPT !.active = a], e)
  OBVIOUS
<1>4. p = Broadcast(x, e)
  BY <1>1, <1>3 DEF PublishLocked
<1>5. CanSend(x)
  BY <1>2 DEF CanSend
<1>6. Sent(x, e, p)
  BY <1>4, <1>5, SubscriberTold
<1>7. Message(x, e) = [entry |-> e, at |-> c.next + 1]
  BY <1>2 DEF Message
<1> QED
  BY <1>2, <1>3, <1>6, <1>7 DEF Sent, Sends, Arrives, Adds

\* The methods of the center keep the page's history.
LEMMA PublishFits ==
    ASSUME NEW c, NEW s, NEW b, NEW h, PageInv(h, c, s, b)
    PROVE  \E g : PageInv(g, Publish(c), s, b)
<1>1. CanSend(c) /\ HistoryOf(h, c) /\ ActiveInv(h, c) /\ c.next \in Nat /\ c.boot \in Nat
  BY DEF PageInv, WayInv, HistoryOf, CanSend, Center, Subscriber
<1>2. PICK e : e = Stamped(c, "event", None, None)
  OBVIOUS
<1>3. IsNext(c, e) /\ e.id = c.next + 1 /\ e.kind = "event" /\ e.key = None
  BY <1>1, <1>2 DEF IsNext, Stamped, Entries, EntriesOf
<1>4. PICK d : d = Publish(c)
  OBVIOUS
<1>5. d = PublishLocked([c EXCEPT !.active = c.active], e)
  BY <1>1, <1>2, <1>4 DEF Publish, HistoryOf
<1>6. Adds(c, e, c.active, PublishLocked([c EXCEPT !.active = c.active], e))
  BY <1>1, <1>3, PublishLockedSends
<1>7. Adds(c, e, c.active, d)
  BY <1>5, <1>6
<1>8. c.active = [k \in Keys |-> IF k = e.key THEN (IF e.kind = "onset" THEN e ELSE None) ELSE c.active[k]]
  BY <1>1, <1>3, NoneAssumption DEF ActiveInv
<1>9. PageInv(With(h, c.next, e), d, s, b)
  BY <1>3, <1>7, <1>8, EntryAdded
<1> QED
  BY <1>4, <1>9

\* An onset that is raised, or is up already.
LEMMA OnsetFits ==
    ASSUME NEW c, NEW s, NEW b, NEW h, PageInv(h, c, s, b), NEW key \in Keys, NEW text, TextOf(text)
    PROVE  \E g : PageInv(g, Onset(c, key, text), s, b)
<1>1. CanSend(c) /\ HistoryOf(h, c) /\ ActiveInv(h, c) /\ c.next \in Nat /\ c.boot \in Nat
  BY DEF PageInv, WayInv, HistoryOf, CanSend, Center, Subscriber
<1>2. CASE c.active[key] # None
  BY <1>2 DEF Onset
<1>3. CASE c.active[key] = None
  <2>1. PICK e : e = Stamped(c, "onset", key, text)
    OBVIOUS
  <2>2. e.id = c.next + 1 /\ e.kind = "onset" /\ e.key = key /\ e.boot = c.boot
    BY <2>1 DEF Stamped
  <2>3. e \in Entries
    BY <1>1, <2>1 DEF Stamped, Entries, EntriesOf, TextOf, Texts
  <2>4. PICK p : p = PublishLocked(c, e)
    OBVIOUS
  <2>5. p = PublishLocked([c EXCEPT !.active = c.active], e)
    BY <1>1, <2>4 DEF HistoryOf
  <2>6. Adds(c, e, c.active, PublishLocked([c EXCEPT !.active = c.active], e))
    BY <1>1, <2>2, PublishLockedSends
  <2>7. Adds(c, e, c.active, p)
    BY <2>5, <2>6
  <2>8. PICK d : d = [p EXCEPT !.active = [p.active EXCEPT ![key] = e]]
    OBVIOUS
  <2>9. d = Onset(c, key, text)
    BY <1>3, <2>1, <2>4, <2>8 DEF Onset
  <2>10. PICK a : a = [c.active EXCEPT ![key] = e]
    OBVIOUS
  <2>11. a = [k \in Keys |-> IF k = e.key THEN (IF e.kind = "onset" THEN e ELSE None) ELSE c.active[k]]
    BY <1>1, <2>2, <2>10 DEF ActiveInv
  <2>12. Adds(c, e, a, d)
    BY <2>7, <2>8, <2>10 DEF Adds, Sends, Arrives, Center
  <2>13. IsNext(c, e)
    BY <2>2, <2>3 DEF IsNext
  <2>14. PageInv(With(h, c.next, e), d, s, b)
    BY <2>11, <2>12, <2>13, EntryAdded
  <2> QED
    BY <2>9, <2>14
<1> QED
  BY <1>2, <1>3

\* A clear of a condition, or of none.
LEMMA ClearFits ==
    ASSUME NEW c, NEW s, NEW b, NEW h, PageInv(h, c, s, b), NEW key \in Keys
    PROVE  \E g : PageInv(g, Clear(c, key), s, b)
<1>1. CanSend(c) /\ HistoryOf(h, c) /\ ActiveInv(h, c) /\ c.next \in Nat /\ c.boot \in Nat
  BY DEF PageInv, WayInv, HistoryOf, CanSend, Center, Subscriber
<1>2. CASE c.active[key] = None
  BY <1>2 DEF Clear
<1>3. CASE c.active[key] # None
  <2>1. PICK e : e = Stamped(c, "clear", key, None)
    OBVIOUS
  <2>2. e.id = c.next + 1 /\ e.kind = "clear" /\ e.key = key /\ e.boot = c.boot
    BY <2>1 DEF Stamped
  <2>3. e \in Entries
    BY <1>1, <2>1 DEF Stamped, Entries, EntriesOf
  <2>4. PICK d : d = Clear(c, key)
    OBVIOUS
  <2>5. PICK a : a = [c.active EXCEPT ![key] = None]
    OBVIOUS
  <2>6. d = PublishLocked([c EXCEPT !.active = a], e)
    BY <1>3, <2>1, <2>4, <2>5 DEF Clear
  <2>7. Adds(c, e, a, PublishLocked([c EXCEPT !.active = a], e))
    BY <1>1, <2>2, PublishLockedSends
  <2>8. a = [k \in Keys |-> IF k = e.key THEN (IF e.kind = "onset" THEN e ELSE None) ELSE c.active[k]]
    BY <1>1, <2>2, <2>5 DEF ActiveInv
  <2>9. IsNext(c, e)
    BY <2>2, <2>3 DEF IsNext
  <2>11. Adds(c, e, a, d)
    BY <2>6, <2>7
  <2>10. PageInv(With(h, c.next, e), d, s, b)
    BY <2>8, <2>9, <2>11, EntryAdded
  <2> QED
    BY <2>4, <2>10
<1> QED
  BY <1>2, <1>3

\* A condition with another text.
LEMMA UpdateFits ==
    ASSUME NEW c, NEW s, NEW b, NEW h, PageInv(h, c, s, b), NEW key \in Keys, NEW text, TextOf(text)
    PROVE  \E g : PageInv(g, Update(c, key, text), s, b)
<1>1. CanSend(c) /\ HistoryOf(h, c)
  BY DEF PageInv, WayInv, HistoryOf, CanSend, Center, Subscriber
<1>2. CASE c.active[key] = None \/ c.active[key].text = text
  BY <1>2 DEF Update
<1>3. CASE ~(c.active[key] = None \/ c.active[key].text = text)
  <2>1. PICK e : e = [c.active[key] EXCEPT !.text = text]
    OBVIOUS
  <2>2. PICK x : x = [c EXCEPT !.active = [c.active EXCEPT ![key] = e], !.ring = Replace(c.ring, e)]
    OBVIOUS
  <2>3. PICK d : d = Broadcast(x, e)
    OBVIOUS
  <2>4. d = Update(c, key, text)
    BY <1>3, <2>1, <2>2, <2>3 DEF Update
  <2>5. /\ x = Center(x) /\ x.boot = c.boot /\ x.next = c.next /\ x.ring = Replace(c.ring, e)
        /\ x.active = [c.active EXCEPT ![key] = e] /\ x.sub = c.sub /\ x.sub = Subscriber(x.sub)
    BY <1>1, <2>2 DEF HistoryOf, Center, Subscriber
  <2>6. CanSend(x) /\ Message(c, e) = Message(x, e)
    BY <2>5, <1>1 DEF CanSend, Message
  <2>7. Sent(x, e, d)
    BY <2>3, <2>6, SubscriberTold
  <2>8. Rewrites(c, key, e, d)
    BY <2>5, <2>6, <2>7 DEF Sent, Sends, Arrives, Rewrites
  <2>10. c.active[key] # None
    BY <1>3
  <2>9. PageInv(h, d, s, b)
    BY <2>1, <2>8, <2>10, EntryRewritten
  <2> QED
    BY <2>4, <2>9
<1> QED
  BY <1>2, <1>3

----------------------------------------------------------------------------
\* What the connection and the page do leaves the history as it is.

\* A load begins: all that is published from now on is on its way.
LEMMA LoadBegins ==
    ASSUME NEW h, NEW c, NEW s, NEW b, PageInv(h, c, s, b), NEW t, WayInv(h, c, t),
           NEW up, up <=> t.st = "up", NEW timer \in {None, "backoff", "resync"}, NEW x, x = [[b EXCEPT !.up = up] EXCEPT !.timer = timer]
    PROVE  PageInv(h, c, t, BeginLoad(x))
<1>1. PICK f, l : f = BeginLoad(x) /\ l = [token |-> b.started + 1, snap |-> None]
  OBVIOUS
<1>2. /\ HistoryOf(h, c) /\ RingInv(h, c) /\ ActiveInv(h, c) /\ LoadsInv(h, c, b) /\ ItemsInv(h, c, s, b)
      /\ c.next \in Nat /\ b.started \in Nat /\ b.applied \in 0 .. b.started
  BY DEF PageInv, HistoryOf, LoadsInv
<1>3. /\ DOMAIN b = {"boot", "items", "next", "up", "timer", "loads", "started", "applied", "failed", "late"}
      /\ b = [k \in DOMAIN b |-> b[k]]
  BY <1>2 DEF ItemsInv
<1>4. /\ DOMAIN x = DOMAIN b /\ x = [k \in DOMAIN x |-> x[k]]
      /\ x.up = up /\ x.timer = timer /\ x.boot = b.boot /\ x.items = b.items /\ x.next = b.next /\ x.loads = b.loads
      /\ x.started = b.started /\ x.applied = b.applied /\ x.late = b.late
  BY <1>3
<1>5. /\ DOMAIN f = DOMAIN b /\ f = [k \in DOMAIN f |-> f[k]]
      /\ f.boot = b.boot /\ f.items = b.items /\ f.next = b.next /\ f.up = x.up /\ f.timer = x.timer
      /\ f.loads = b.loads \cup {l} /\ f.started = b.started + 1 /\ f.applied = b.applied /\ f.late = b.late
  <2>1. f = [[x EXCEPT !.started = b.started + 1] EXCEPT !.loads = b.loads \cup {l}]
    BY <1>1, <1>4 DEF BeginLoad
  <2>2. PICK y : y = [x EXCEPT !.started = b.started + 1]
    OBVIOUS
  <2>3. /\ DOMAIN y = DOMAIN b /\ y = [k \in DOMAIN y |-> y[k]]
        /\ y.boot = b.boot /\ y.items = b.items /\ y.next = b.next /\ y.up = x.up /\ y.timer = x.timer
        /\ y.loads = b.loads /\ y.started = b.started + 1 /\ y.applied = b.applied /\ y.late = b.late
    BY <1>3, <1>4, <2>2
  <2>4. f = [y EXCEPT !.loads = b.loads \cup {l}]
    BY <2>1, <2>2
  <2> QED
    BY <1>3, <2>3, <2>4
<1>6. l.token = b.started + 1 /\ l.snap = None
  BY <1>1
<1>0. l = [token |-> l.token, snap |-> l.snap]
  BY <1>1
<1>7. LoadsInv(h, c, f)
  <2>1. f.started \in Nat /\ f.applied \in 0 .. f.started
    BY <1>2, <1>5
  <2>2. ASSUME NEW k \in f.loads
        PROVE  /\ k = [token |-> k.token, snap |-> k.snap] /\ k.token \in 1 .. f.started /\ k.token # f.applied
               /\ \A other \in f.loads : other.token = k.token => other = k
               /\ k.snap # None => /\ k.snap.boot = c.boot /\ k.snap.nextId \in 1 .. c.next + 1
                                   /\ \A e \in k.snap.entries : Recorded(h, c, e)
                                   /\ Ids(k.snap.entries) = Kept(h, k.snap.nextId - 1)
    <3>1. \A o \in b.loads : o.token \in 1 .. b.started /\ o.token # b.applied
      BY <1>2 DEF LoadsInv
    <3>2. CASE k = l
      BY <1>0, <1>2, <1>5, <1>6, <3>1, <3>2
    <3>3. CASE k \in b.loads
      <4>1. \A other \in b.loads : other.token = k.token => other = k
        BY <1>2, <3>3 DEF LoadsInv
      <4>2. k.token # l.token
        BY <1>2, <1>6, <3>1, <3>3
      <4>3. k = [token |-> k.token, snap |-> k.snap] /\ k.token \in 1 .. f.started /\ k.token # f.applied
        BY <1>2, <1>5, <3>1, <3>3 DEF LoadsInv
      <4>4. k.snap # None => /\ k.snap.boot = c.boot /\ k.snap.nextId \in 1 .. c.next + 1
                             /\ \A e \in k.snap.entries : Recorded(h, c, e)
                             /\ Ids(k.snap.entries) = Kept(h, k.snap.nextId - 1)
        BY <1>2, <3>3 DEF LoadsInv
      <4> QED
        BY <1>5, <4>1, <4>2, <4>3, <4>4
    <3> QED
      BY <1>5, <2>2, <3>2, <3>3
  <2> QED
    BY <2>1, <2>2 DEF LoadsInv
<1>8. ItemsInv(h, c, t, f)
  BY <1>2, <1>3, <1>5 DEF ItemsInv
<1>9. PendingInv(h, c, t, f)
  <2>1. ASSUME NEW k \in f.loads, k.token = f.started
        PROVE  /\ f.boot = c.boot => \A i \in From(c, k) .. f.next - 1 : i > c.next - Capacity => i \in Ids(f.items)
               /\ ~(From(c, k) <= c.next)
    <3>1. k = l
      BY <1>2, <1>5, <1>6, <2>1 DEF LoadsInv
    <3>2. From(c, k) = c.next + 1
      BY <1>6, <3>1 DEF From
    <3>3. f.boot = c.boot => f.next <= c.next + 1 /\ f.next \in Nat
      BY <1>8 DEF ItemsInv
    <3> QED
      BY <1>2, <3>2, <3>3
  <2> QED
    BY <2>1 DEF PendingInv
<1>10. SyncedInv(h, c, t, f)
  BY <1>2, <1>5 DEF SyncedInv
<1> QED
  BY <1>1, <1>2, <1>7, <1>8, <1>9, <1>10 DEF PageInv

\* Nothing is on its way while the stream is down.
LEMMA OpensFits ==
    ASSUME NEW h, NEW c, NEW s, NEW b, PageInv(h, c, s, b), s.st = "down"
    PROVE  PageInv(h, [c EXCEPT !.sub = [NoSubscriber EXCEPT !.on = TRUE]], [st |-> "open", hand |-> None, merged |-> <<>>], b)
<1>1. PICK d, t : d = [c EXCEPT !.sub = [NoSubscriber EXCEPT !.on = TRUE]] /\ t = [st |-> "open", hand |-> None, merged |-> <<>>]
  OBVIOUS
<1>2. /\ HistoryOf(h, c) /\ RingInv(h, c) /\ ActiveInv(h, c) /\ WayInv(h, c, s)
      /\ LoadsInv(h, c, b) /\ ItemsInv(h, c, s, b)
  BY DEF PageInv
<1>3. /\ d = Center(d) /\ d.boot = c.boot /\ d.next = c.next /\ d.ring = c.ring /\ d.active = c.active
      /\ d.sub = [on |-> TRUE, q |-> <<>>, lost |-> FALSE]
  BY <1>1, <1>2 DEF HistoryOf, NoSubscriber, Center
<1>4. d.sub.on /\ d.sub.q = <<>> /\ d.sub.lost = FALSE /\ d.sub = [on |-> d.sub.on, q |-> d.sub.q, lost |-> d.sub.lost]
  BY <1>3
<1>5. t = [st |-> t.st, hand |-> t.hand, merged |-> t.merged] /\ t.st = "open" /\ t.hand = None /\ t.merged = <<>>
  BY <1>1
<1>6. \A e : Recorded(h, d, e) <=> Recorded(h, c, e)
  BY <1>3 DEF Recorded
<1>7. HistoryOf(h, d) /\ RingInv(h, d) /\ ActiveInv(h, d) /\ LoadsInv(h, d, b)
  BY <1>2, <1>3, <1>4, <1>6 DEF HistoryOf, RingInv, ActiveInv, LoadsInv, Center
<1>8. ItemsInv(h, d, t, b)
  BY <1>2, <1>3, <1>5, <1>6 DEF ItemsInv
<1>9. WayInv(h, d, t)
  <2>1. Range(<<>>) = {} /\ <<>> \in Seq(Range(<<>>))
    BY DEF Range
  <2>2. OnTheWay(d, t) = {}
    BY <1>4, <1>5, <2>1 DEF OnTheWay
  <2> QED
    BY <1>4, <1>5, <2>1, <2>2 DEF WayInv
<1>10. PendingInv(h, d, t, b) /\ SyncedInv(h, d, t, b)
  BY <1>5 DEF PendingInv, SyncedInv
<1> QED
  BY <1>1, <1>7, <1>8, <1>9, <1>10 DEF PageInv

\* Nor is anything armed then.
LEMMA BreaksFits ==
    ASSUME NEW h, NEW c, NEW s, NEW b, PageInv(h, c, s, b)
    PROVE  PageInv(h, [c EXCEPT !.sub = NoSubscriber], [st |-> "down", hand |-> None, merged |-> <<>>], Broken(b))
<1>1. PICK d, t, f : d = [c EXCEPT !.sub = NoSubscriber] /\ t = [st |-> "down", hand |-> None, merged |-> <<>>] /\ f = Broken(b)
  OBVIOUS
<1>2. /\ HistoryOf(h, c) /\ RingInv(h, c) /\ ActiveInv(h, c)
      /\ LoadsInv(h, c, b) /\ ItemsInv(h, c, s, b)
  BY DEF PageInv
<1>3. /\ d = Center(d) /\ d.boot = c.boot /\ d.next = c.next /\ d.ring = c.ring /\ d.active = c.active
      /\ d.sub = [on |-> FALSE, q |-> <<>>, lost |-> FALSE]
  BY <1>1, <1>2 DEF HistoryOf, NoSubscriber, Center
<1>4. ~d.sub.on /\ d.sub.q = <<>> /\ d.sub.lost = FALSE /\ d.sub = [on |-> d.sub.on, q |-> d.sub.q, lost |-> d.sub.lost]
  BY <1>3
<1>5. t = [st |-> t.st, hand |-> t.hand, merged |-> t.merged] /\ t.st = "down" /\ t.hand = None /\ t.merged = <<>>
  BY <1>1
<1>6. \A e : Recorded(h, d, e) <=> Recorded(h, c, e)
  BY <1>3 DEF Recorded
<1>7. /\ DOMAIN f = DOMAIN b /\ f = [k \in DOMAIN f |-> f[k]] /\ f.up = FALSE /\ f.timer = None
      /\ f.boot = b.boot /\ f.items = b.items /\ f.next = b.next /\ f.loads = b.loads
      /\ f.started = b.started /\ f.applied = b.applied /\ f.late = b.late
  BY <1>1, <1>2 DEF Broken, ItemsInv
<1>8. HistoryOf(h, d) /\ RingInv(h, d) /\ ActiveInv(h, d)
  BY <1>2, <1>3, <1>4, <1>6 DEF HistoryOf, RingInv, ActiveInv, Center
<1>9. LoadsInv(h, d, f)
  BY <1>2, <1>3, <1>6, <1>7 DEF LoadsInv
<1>10. ItemsInv(h, d, t, f)
  BY <1>2, <1>3, <1>5, <1>6, <1>7 DEF ItemsInv
<1>11. WayInv(h, d, t)
  <2>1. Range(<<>>) = {} /\ <<>> \in Seq(Range(<<>>))
    BY DEF Range
  <2>2. OnTheWay(d, t) = {}
    BY <1>4, <1>5, <2>1 DEF OnTheWay
  <2> QED
    BY <1>4, <1>5, <2>1, <2>2 DEF WayInv
<1>12. PendingInv(h, d, t, f) /\ SyncedInv(h, d, t, f)
  BY <1>5 DEF PendingInv, SyncedInv
<1> QED
  BY <1>1, <1>8, <1>9, <1>10, <1>11, <1>12 DEF PageInv

\* A message moves on along its way.
LEMMA MovesFits ==
    ASSUME NEW h, NEW c, NEW s, NEW b, PageInv(h, c, s, b), s.st # "down",
           NEW d, d = Center(d), d.boot = c.boot, d.next = c.next, d.ring = c.ring, d.active = c.active,
           d.sub = Subscriber(d.sub), d.sub.on = c.sub.on, d.sub.lost = c.sub.lost, d.sub.q \in Seq(Range(d.sub.q)),
           NEW t, t = [st |-> t.st, hand |-> t.hand, merged |-> t.merged], t.st = s.st, t.merged \in Seq(Range(t.merged)),
           OnTheWay(d, t) = OnTheWay(c, s)
    PROVE  PageInv(h, d, t, b)
<1>1. /\ HistoryOf(h, c) /\ RingInv(h, c) /\ ActiveInv(h, c) /\ WayInv(h, c, s)
      /\ LoadsInv(h, c, b) /\ ItemsInv(h, c, s, b) /\ PendingInv(h, c, s, b) /\ SyncedInv(h, c, s, b)
  BY DEF PageInv
<1>2. \A e : Recorded(h, d, e) <=> Recorded(h, c, e)
  BY DEF Recorded
<1>3. HistoryOf(h, d) /\ RingInv(h, d) /\ ActiveInv(h, d)
  BY <1>1, <1>2 DEF HistoryOf, RingInv, ActiveInv, Center, Subscriber
<1>4. WayInv(h, d, t)
  BY <1>1, <1>2 DEF WayInv
<1>5. LoadsInv(h, d, b) /\ ItemsInv(h, d, t, b)
  BY <1>1, <1>2 DEF LoadsInv, ItemsInv
<1>6. (Coming(d, t) <=> Coming(c, s)) /\ \A l : From(d, l) = From(c, l)
  BY DEF Coming, From
<1>7. PendingInv(h, d, t, b) /\ SyncedInv(h, d, t, b)
  BY <1>1, <1>6 DEF PendingInv, SyncedInv
<1> QED
  BY <1>3, <1>4, <1>5, <1>7 DEF PageInv

\* From the subscriber's channel to the hand.
LEMMA TakesFits ==
    ASSUME NEW h, NEW c, NEW s, NEW b, PageInv(h, c, s, b), s.st # "down", s.hand = None, c.sub.q # <<>>
    PROVE  PageInv(h, [c EXCEPT !.sub.q = Tail(@)], [s EXCEPT !.hand = Head(c.sub.q)], b)
<1>1. PICK d, t : d = [c EXCEPT !.sub.q = Tail(c.sub.q)] /\ t = [s EXCEPT !.hand = Head(c.sub.q)]
  OBVIOUS
<1>2. HistoryOf(h, c) /\ WayInv(h, c, s)
  BY DEF PageInv
<1>3. /\ d = Center(d) /\ d.boot = c.boot /\ d.next = c.next /\ d.ring = c.ring /\ d.active = c.active
      /\ d.sub = Subscriber(d.sub) /\ d.sub.on = c.sub.on /\ d.sub.lost = c.sub.lost /\ d.sub.q = Tail(c.sub.q)
  BY <1>1, <1>2 DEF HistoryOf, Center, Subscriber
<1>4. /\ t = [st |-> t.st, hand |-> t.hand, merged |-> t.merged] /\ t.st = s.st /\ t.merged = s.merged
      /\ t.hand = Head(c.sub.q)
  BY <1>1, <1>2 DEF WayInv
<1>5. /\ Tail(c.sub.q) \in Seq(Range(Tail(c.sub.q))) /\ Head(c.sub.q) \in Range(c.sub.q)
      /\ Range(Tail(c.sub.q)) \subseteq Range(c.sub.q) /\ Range(c.sub.q) \subseteq Range(Tail(c.sub.q)) \cup {Head(c.sub.q)}
  BY <1>2, RangeTail DEF WayInv
<1>6. Head(c.sub.q) # None
  BY <1>2, <1>5, NoneAssumption DEF WayInv, OnTheWay
<1>7. OnTheWay(d, t) = OnTheWay(c, s)
  BY <1>3, <1>4, <1>5, <1>6 DEF OnTheWay
<1>8. s.merged \in Seq(Range(s.merged))
  BY <1>2 DEF WayInv
<1>9. PageInv(h, d, t, b)
  BY <1>3, <1>4, <1>5, <1>7, <1>8, MovesFits
<1> QED
  BY <1>1, <1>9

\* From the hand to the merge channel.
LEMMA PutsFits ==
    ASSUME NEW h, NEW c, NEW s, NEW b, PageInv(h, c, s, b), s.st # "down", s.hand # None
    PROVE  PageInv(h, c, [s EXCEPT !.merged = Append(@, s.hand), !.hand = None], b)
<1>1. PICK t : t = [s EXCEPT !.merged = Append(s.merged, s.hand), !.hand = None]
  OBVIOUS
<1>2. HistoryOf(h, c) /\ WayInv(h, c, s)
  BY DEF PageInv
<1>3. /\ c = Center(c) /\ c.sub = Subscriber(c.sub) /\ c.sub.q \in Seq(Range(c.sub.q))
  BY <1>2 DEF HistoryOf, Center, Subscriber, WayInv
<1>4. /\ t = [st |-> t.st, hand |-> t.hand, merged |-> t.merged] /\ t.st = s.st /\ t.merged = Append(s.merged, s.hand)
      /\ t.hand = None
  BY <1>1, <1>2 DEF WayInv
<1>5. t.merged \in Seq(Range(t.merged)) /\ Range(t.merged) = Range(s.merged) \cup {s.hand}
  BY <1>2, <1>4, RangeAppend DEF WayInv
<1>6. OnTheWay(c, t) = OnTheWay(c, s)
  BY <1>4, <1>5 DEF OnTheWay
<1>7. PageInv(h, c, t, b)
  BY <1>3, <1>4, <1>5, <1>6, MovesFits
<1> QED
  BY <1>1, <1>7

\* A page with one load less, as far as that tells.
OneLess(b, l, y) ==
    /\ DOMAIN y = DOMAIN b /\ y = [k \in DOMAIN y |-> y[k]] /\ y.up = b.up
    /\ y.boot = b.boot /\ y.items = b.items /\ y.next = b.next /\ y.loads = b.loads \ {l}
    /\ y.started = b.started /\ y.applied = b.applied /\ y.late = b.late
    /\ y.timer \in {None, "backoff", "resync"} /\ (y.timer # "resync" => b.timer # "resync")

\* A load that ends without an answer leaves the rest as it is.
LEMMA OneLessFits ==
    ASSUME NEW h, NEW c, NEW s, NEW b, PageInv(h, c, s, b), NEW l, NEW y, OneLess(b, l, y)
    PROVE  PageInv(h, c, s, y)
<1>1. /\ HistoryOf(h, c) /\ RingInv(h, c) /\ ActiveInv(h, c) /\ WayInv(h, c, s)
      /\ LoadsInv(h, c, b) /\ ItemsInv(h, c, s, b) /\ PendingInv(h, c, s, b) /\ SyncedInv(h, c, s, b)
  BY DEF PageInv
<1>2. LoadsInv(h, c, y)
  BY <1>1 DEF LoadsInv, OneLess
<1>3. ItemsInv(h, c, s, y)
  BY <1>1 DEF ItemsInv, OneLess
<1>4. PendingInv(h, c, s, y)
  BY <1>1 DEF PendingInv, OneLess
<1>5. SyncedInv(h, c, s, y)
  BY <1>1 DEF SyncedInv, OneLess
<1> QED
  BY <1>1, <1>2, <1>3, <1>4, <1>5 DEF PageInv

\* A load that fails, with or without a retry.
LEMMA FailsFits ==
    ASSUME NEW h, NEW c, NEW s, NEW b, PageInv(h, c, s, b), NEW l, NEW failed, NEW x, x = [b EXCEPT !.loads = @ \ {l}, !.failed = failed]
    PROVE  PageInv(h, c, s, x) /\ PageInv(h, c, s, ScheduleReload(x, "backoff"))
<1>1. /\ HistoryOf(h, c) /\ RingInv(h, c) /\ ActiveInv(h, c) /\ WayInv(h, c, s)
      /\ LoadsInv(h, c, b) /\ ItemsInv(h, c, s, b) /\ PendingInv(h, c, s, b) /\ SyncedInv(h, c, s, b)
  BY DEF PageInv
<1>2. /\ DOMAIN b = {"boot", "items", "next", "up", "timer", "loads", "started", "applied", "failed", "late"}
      /\ b = [k \in DOMAIN b |-> b[k]] /\ b.timer \in {None, "backoff", "resync"}
  BY <1>1 DEF ItemsInv
<1>3. /\ DOMAIN x = DOMAIN b /\ x = [k \in DOMAIN x |-> x[k]] /\ x.up = b.up /\ x.timer = b.timer
      /\ x.boot = b.boot /\ x.items = b.items /\ x.next = b.next /\ x.loads = b.loads \ {l}
      /\ x.started = b.started /\ x.applied = b.applied /\ x.late = b.late
  BY <1>2
<1>4. PICK f : f = ScheduleReload(x, "backoff")
  OBVIOUS
<1>5. /\ DOMAIN f = DOMAIN b /\ f = [k \in DOMAIN f |-> f[k]] /\ f.up = b.up
      /\ f.boot = b.boot /\ f.items = b.items /\ f.next = b.next /\ f.loads = b.loads \ {l}
      /\ f.started = b.started /\ f.applied = b.applied /\ f.late = b.late
      /\ f.timer \in {None, "backoff", "resync"} /\ (f.timer # "resync" => b.timer # "resync")
  <2>1. CASE ~x.up
    BY <1>2, <1>3, <1>4, <2>1 DEF ScheduleReload
  <2>2. CASE x.up
    <3>1. PICK timer : timer = IF x.timer = None THEN "backoff" ELSE x.timer
      OBVIOUS
    <3>2. f = [x EXCEPT !.timer = timer]
      BY <1>4, <2>2, <3>1 DEF ScheduleReload
    <3>3. timer \in {None, "backoff", "resync"} /\ (timer # "resync" => b.timer # "resync")
      BY <1>2, <1>3, <3>1, NoneAssumption
    <3> QED
      BY <1>2, <1>3, <3>2, <3>3
  <2> QED
    BY <2>1, <2>2
<1>7. OneLess(b, l, x) /\ OneLess(b, l, f)
  BY <1>2, <1>3, <1>5 DEF OneLess
<1>8. PageInv(h, c, s, x) /\ PageInv(h, c, s, f)
  BY <1>7, OneLessFits
<1> QED
  BY <1>4, <1>8

\* The snapshot is what the center keeps.
LEMMA SnapshotKeeps ==
    ASSUME NEW h, NEW c, HistoryOf(h, c), RingInv(h, c), ActiveInv(h, c)
    PROVE  /\ Snapshot(c).boot = c.boot /\ Snapshot(c).nextId = c.next + 1
           /\ \A e \in Snapshot(c).entries : Recorded(h, c, e)
           /\ Ids(Snapshot(c).entries) = Kept(h, c.next)
<1>1. PICK A : A = {c.active[k] : k \in {j \in Keys : c.active[j] # None}}
  OBVIOUS
<1>2. PICK S : S = Range(c.ring) \cup A
  OBVIOUS
<1>3. Snapshot(c).boot = c.boot /\ Snapshot(c).nextId = c.next + 1 /\ Snapshot(c).entries = S
  BY <1>1, <1>2 DEF Snapshot
<1>4. c.next \in Nat /\ Capacity \in Nat
  BY NotificationBounds DEF HistoryOf
<1>5. /\ Len(c.ring) \in Nat /\ DOMAIN c.ring = 1 .. Len(c.ring) /\ Len(c.ring) <= Capacity
      /\ (Len(c.ring) = Capacity \/ Len(c.ring) = c.next)
      /\ \A i \in 1 .. Len(c.ring) : c.ring[i].id = (c.next - Len(c.ring)) + i
  BY LenProperties DEF RingInv
<1>6. \A e \in A : Recorded(h, c, e) /\ Holds(h, c.next, e.id)
  BY <1>1 DEF ActiveInv
<1>7. \A e \in S : Recorded(h, c, e)
  BY <1>2, <1>6 DEF RingInv
<1>8. ASSUME NEW e \in S PROVE e.id \in Kept(h, c.next)
  <2>1. e.id \in 1 .. c.next
    BY <1>7, <1>8 DEF Recorded
  <2>2. CASE e \in A
    BY <1>6, <2>1, <2>2 DEF Kept
  <2>3. CASE e \in Range(c.ring)
    <3>1. PICK i \in 1 .. Len(c.ring) : e = c.ring[i]
      BY <1>5, <2>3 DEF Range
    <3>2. PICK n : n = Len(c.ring)
      OBVIOUS
    <3>3. n \in Nat /\ i \in 1 .. n /\ e.id = (c.next - n) + i /\ n <= Capacity
      BY <1>5, <3>1, <3>2
    <3>4. e.id > c.next - Capacity
      BY <1>4, <3>3
    <3> QED
      BY <2>1, <3>4 DEF Kept
  <2> QED
    BY <1>2, <1>8, <2>2, <2>3
<1>9. ASSUME NEW i \in Kept(h, c.next) PROVE \E e \in S : e.id = i
  <2>1. i \in 1 .. c.next
    BY <1>9 DEF Kept
  <2>2. CASE Holds(h, c.next, i)
    <3>1. h[i].key \in Keys /\ c.active[h[i].key] # None /\ c.active[h[i].key].id = i
      BY <2>1, <2>2 DEF ActiveInv, Holds, HistoryOf
    <3> QED
      BY <1>1, <1>2, <3>1
  <2>3. CASE i > c.next - Capacity
    <3>1. PICK n : n = Len(c.ring)
      OBVIOUS
    <3>2. PICK j : j = i - (c.next - n)
      OBVIOUS
    <3>3. n \in Nat /\ j \in 1 .. n /\ (c.next - n) + j = i
      <4>1. \A m, a, x, y \in Int : (x = a \/ x = m) /\ y > m - a /\ y \in 1 .. m
                                      => y - (m - x) \in 1 .. x /\ (m - x) + (y - (m - x)) = y
        OBVIOUS
      <4>2. n \in Nat /\ (n = Capacity \/ n = c.next) /\ i \in Int /\ c.next \in Int /\ Capacity \in Int
        BY <1>4, <1>5, <2>1, <3>1
      <4> QED
        BY <2>1, <2>3, <3>2, <4>1, <4>2
    <3>4. c.ring[j].id = i /\ c.ring[j] \in Range(c.ring)
      BY <1>5, <3>1, <3>3 DEF Range
    <3> QED
      BY <1>2, <3>4
  <2> QED
    BY <1>9, <2>2, <2>3 DEF Kept
<1>10. Ids(S) = Kept(h, c.next)
  BY <1>8, <1>9 DEF Ids
<1> QED
  BY <1>3, <1>7, <1>10

\* A load is answered: the answer is what the center keeps.
LEMMA ListsFits ==
    ASSUME NEW h, NEW c, NEW s, NEW b, PageInv(h, c, s, b), NEW l \in b.loads, l.snap = None
    PROVE  PageInv(h, c, s, [b EXCEPT !.loads = (@ \ {l}) \cup {[l EXCEPT !.snap = Snapshot(c)]}])
<1>1. PICK f, k : f = [b EXCEPT !.loads = (@ \ {l}) \cup {k}] /\ k = [l EXCEPT !.snap = Snapshot(c)]
  OBVIOUS
<1>2. /\ HistoryOf(h, c) /\ RingInv(h, c) /\ ActiveInv(h, c) /\ WayInv(h, c, s)
      /\ LoadsInv(h, c, b) /\ ItemsInv(h, c, s, b) /\ PendingInv(h, c, s, b) /\ SyncedInv(h, c, s, b)
  BY DEF PageInv
<1>3. /\ DOMAIN f = DOMAIN b /\ f = [j \in DOMAIN f |-> f[j]] /\ f.up = b.up /\ f.timer = b.timer
      /\ f.boot = b.boot /\ f.items = b.items /\ f.next = b.next /\ f.loads = (b.loads \ {l}) \cup {k}
      /\ f.started = b.started /\ f.applied = b.applied /\ f.late = b.late
  BY <1>1, <1>2 DEF ItemsInv
<1>4. k = [token |-> k.token, snap |-> k.snap] /\ k.token = l.token /\ k.snap = Snapshot(c)
  BY <1>1, <1>2 DEF LoadsInv
<1>5. c.next \in Nat
  BY <1>2 DEF HistoryOf
<1>6. k.snap # None => /\ k.snap.boot = c.boot /\ k.snap.nextId \in 1 .. c.next + 1
                       /\ \A e \in k.snap.entries : Recorded(h, c, e)
                       /\ Ids(k.snap.entries) = Kept(h, k.snap.nextId - 1)
  <2>1. (c.next + 1) - 1 = c.next /\ c.next + 1 \in 1 .. c.next + 1
    BY <1>5
  <2> QED
    BY <1>2, <1>4, <2>1, SnapshotKeeps
<1>7. LoadsInv(h, c, f)
  <2>1. \A x \in f.loads : \A y \in f.loads : y.token = x.token => y = x
    BY <1>2, <1>3, <1>4 DEF LoadsInv
  <2> QED
    BY <1>2, <1>3, <1>4, <1>6, <2>1 DEF LoadsInv
<1>8. ItemsInv(h, c, s, f)
  BY <1>2, <1>3 DEF ItemsInv
<1>9. From(c, k) = From(c, l)
  BY <1>2, <1>4, SnapshotKeeps DEF From
<1>10. PendingInv(h, c, s, f)
  BY <1>2, <1>3, <1>4, <1>9 DEF PendingInv
<1>11. SyncedInv(h, c, s, f)
  BY <1>2, <1>3 DEF SyncedInv
<1>12. PageInv(h, c, s, f)
  BY <1>2, <1>7, <1>8, <1>10, <1>11 DEF PageInv
<1> QED
  BY <1>1, <1>12

\* An answer that no newer one made moot: the page is what was kept when it was
\* given, and what it has seen since.
LEMMA AnswerFits ==
    ASSUME NEW h, NEW c, NEW s, NEW b, PageInv(h, c, s, b), NEW l \in b.loads, l.snap # None, ~(l.token < b.applied),
           NEW x, x = [b EXCEPT !.loads = @ \ {l}], NEW late, late = ((l.snap.nextId - 1) + Capacity <= c.next),
           NEW y, y = [ApplySnapshot(x, l.snap) EXCEPT !.applied = l.token, !.failed = FALSE, !.late = late,
                                                        !.timer = IF @ = "backoff" THEN None ELSE @]
    PROVE  PageInv(h, c, s, y)
<1>1. /\ HistoryOf(h, c) /\ RingInv(h, c) /\ ActiveInv(h, c) /\ WayInv(h, c, s)
      /\ LoadsInv(h, c, b) /\ ItemsInv(h, c, s, b) /\ PendingInv(h, c, s, b) /\ SyncedInv(h, c, s, b)
  BY DEF PageInv
<1>2. /\ DOMAIN b = {"boot", "items", "next", "up", "timer", "loads", "started", "applied", "failed", "late"}
      /\ b = [k \in DOMAIN b |-> b[k]] /\ b.timer \in {None, "backoff", "resync"} /\ b.next \in Nat
  BY <1>1 DEF ItemsInv
<1>3. /\ l = [token |-> l.token, snap |-> l.snap] /\ l.token \in 1 .. b.started /\ l.token # b.applied
      /\ \A other \in b.loads : other.token = l.token => other = l
      /\ b.started \in Nat /\ b.applied \in 0 .. b.started
      /\ l.snap.boot = c.boot /\ l.snap.nextId \in 1 .. c.next + 1
      /\ \A e \in l.snap.entries : Recorded(h, c, e)
      /\ Ids(l.snap.entries) = Kept(h, l.snap.nextId - 1)
  BY <1>1 DEF LoadsInv
<1>4. c.next \in Nat /\ c.boot \in Nat /\ Capacity \in Nat \ {0}
  BY <1>1, NotificationBounds DEF HistoryOf
<1>5. PICK n, X : n = l.snap.nextId - 1 /\ X = l.snap.entries
  OBVIOUS
<1>6. n \in 0 .. c.next /\ l.snap.nextId = n + 1 /\ (\A e \in X : Recorded(h, c, e)) /\ Ids(X) = Kept(h, n)
  BY <1>3, <1>4, <1>5
<1>b. n \in Nat /\ n <= c.next /\ n + 1 \in Nat /\ (\A i \in 1 .. n : i \in 1 .. c.next)
  BY <1>4, <1>6
<1>7. PICK K, next :
          /\ K = IF b.boot \notin {None, c.boot} THEN {} ELSE {e \in b.items : e.id \notin Ids(X) /\ e.id >= n + 1}
          /\ next = IF b.boot \notin {None, c.boot} THEN n + 1 ELSE IF b.next >= n + 1 THEN b.next ELSE n + 1
  OBVIOUS
<1>8. Max({b.next, n + 1}) = IF b.next >= n + 1 THEN b.next ELSE n + 1
  BY <1>2, <1>6, MaxOfTwo
<1>9. /\ DOMAIN x = DOMAIN b /\ x = [k \in DOMAIN x |-> x[k]] /\ x.up = b.up /\ x.timer = b.timer
      /\ x.boot = b.boot /\ x.items = b.items /\ x.next = b.next /\ x.loads = b.loads \ {l}
      /\ x.started = b.started /\ x.applied = b.applied /\ x.late = b.late
  BY <1>2
<1>10. PICK z : z = ApplySnapshot(x, l.snap)
  OBVIOUS
<1>11. z = [x EXCEPT !.boot = c.boot, !.items = K \cup X, !.next = next]
  <2>1. z = [x EXCEPT !.boot = l.snap.boot,
                      !.items = (IF x.boot \notin {None, l.snap.boot} THEN {}
                                 ELSE {e \in x.items : e.id \notin Ids(l.snap.entries) /\ e.id >= l.snap.nextId}) \cup l.snap.entries,
                      !.next = IF x.boot \notin {None, l.snap.boot} THEN l.snap.nextId ELSE Max({x.next, l.snap.nextId})]
    BY <1>2, <1>9, <1>10 DEF ApplySnapshot, Ids
  <2>2. K = IF x.boot \notin {None, l.snap.boot} THEN {}
            ELSE {e \in x.items : e.id \notin Ids(l.snap.entries) /\ e.id >= l.snap.nextId}
    BY <1>3, <1>5, <1>6, <1>7, <1>9
  <2>3. next = IF x.boot \notin {None, l.snap.boot} THEN l.snap.nextId ELSE Max({x.next, l.snap.nextId})
    BY <1>3, <1>6, <1>7, <1>8, <1>9
  <2> QED
    BY <1>3, <1>5, <2>1, <2>2, <2>3
<1>12. /\ DOMAIN z = DOMAIN b /\ z = [k \in DOMAIN z |-> z[k]] /\ z.up = b.up /\ z.timer = b.timer
       /\ z.boot = c.boot /\ z.items = K \cup X /\ z.next = next /\ z.loads = b.loads \ {l}
       /\ z.started = b.started
  BY <1>2, <1>9, <1>11
<1>13. y = [z EXCEPT !.applied = l.token, !.failed = FALSE, !.late = late, !.timer = IF z.timer = "backoff" THEN None ELSE z.timer]
  BY <1>10
<1>14. /\ DOMAIN y = DOMAIN b /\ y = [k \in DOMAIN y |-> y[k]] /\ y.up = b.up
       /\ y.timer = (IF b.timer = "backoff" THEN None ELSE b.timer)
       /\ y.boot = c.boot /\ y.items = K \cup X /\ y.next = next /\ y.loads = b.loads \ {l}
       /\ y.started = b.started /\ y.applied = l.token /\ y.late = late
  BY <1>2, <1>12, <1>13
<1>15. y.timer \in {None, "backoff", "resync"} /\ (y.timer # "resync" => b.timer # "resync")
  BY <1>2, <1>14, NoneAssumption
<1>16. /\ next \in Nat /\ n + 1 <= next /\ next <= c.next + 1
       /\ next > n + 1 => b.boot = c.boot /\ b.next = next /\ b.boot \in {None, c.boot}
       /\ b.boot = c.boot => b.next <= next
  <2>1. b.boot = c.boot => b.next <= c.next + 1
    BY <1>1 DEF ItemsInv
  <2>2. b.boot = None => b.next = 0
    BY <1>1 DEF ItemsInv
  <2>3. CASE b.boot \notin {None, c.boot}
    BY <1>4, <1>b, <1>7, <2>3
  <2>4. CASE b.boot = None
    BY <1>2, <1>4, <1>b, <1>7, <2>2, <2>4, NoneAssumption
  <2>5. CASE b.boot = c.boot
    BY <1>2, <1>4, <1>b, <1>7, <2>1, <2>5
  <2> QED
    BY <2>3, <2>4, <2>5
<1>17. \A e \in K : e \in b.items /\ b.boot = c.boot /\ Recorded(h, c, e) /\ e.id >= n + 1 /\ e.id < next
  <2>1. \A e \in K : e \in b.items /\ b.boot \in {None, c.boot} /\ e.id >= n + 1
    BY <1>7
  <2>2. b.boot = None => b.items = {}
    BY <1>1 DEF ItemsInv
  <2>3. \A e \in K : b.boot = c.boot
    BY <1>7, <2>1, <2>2
  <2>4. b.boot = c.boot => \A e \in b.items : Recorded(h, c, e) /\ e.id < b.next
    BY <1>1 DEF ItemsInv
  <2>5. \A e \in K : Recorded(h, c, e) /\ e.id \in Nat /\ e.id < b.next
    BY <2>1, <2>3, <2>4 DEF Recorded
  <2> QED
    BY <1>2, <1>16, <2>1, <2>3, <2>5
<1>18. \A e \in X : e.id \in 1 .. n /\ e.id < next
  <2>1. \A e \in X : e.id \in Kept(h, n)
    BY <1>6 DEF Ids
  <2> QED
    BY <1>6, <1>16, <2>1 DEF Kept
<1>19. LoadsInv(h, c, y)
  <2>3. l.token \in 1 .. b.started /\ b.started \in Nat
    BY <1>3
  <2>4. y.started = b.started /\ y.applied = l.token
    BY <1>14
  <2>1. y.started \in Nat /\ y.applied \in 0 .. y.started
    BY <2>3, <2>4
  <2>2. \A o \in y.loads : o \in b.loads /\ o.token # y.applied
    BY <1>3, <1>14
  <2> QED
    BY <1>1, <1>14, <2>1, <2>2 DEF LoadsInv
<1>20. ItemsInv(h, c, s, y)
  <2>1. \A e \in y.items : Recorded(h, c, e) /\ e.id < y.next
    BY <1>6, <1>14, <1>17, <1>18
  <2>2. y.late \in BOOLEAN
    BY <1>14
  <2>3. y.boot = c.boot /\ c.boot # None
    BY <1>4, <1>14, NoneAssumption
  <2>4. y.up <=> s.st = "up"
    BY <1>1, <1>14 DEF ItemsInv
  <2>5. DOMAIN y = {"boot", "items", "next", "up", "timer", "loads", "started", "applied", "failed", "late"}
        /\ y = [k \in DOMAIN y |-> y[k]]
    BY <1>2, <1>14
  <2>6. y.next \in Nat /\ y.next <= c.next + 1 /\ y.boot \in Nat /\ y.boot <= c.boot
    BY <1>4, <1>14, <1>16
  <2> QED
    BY <1>15, <2>1, <2>2, <2>3, <2>4, <2>5, <2>6 DEF ItemsInv
\* Past the snapshot, the page keeps what it had.
<1>21. ASSUME NEW i \in Ids(b.items), i >= n + 1, b.boot \in {None, c.boot} PROVE i \in Ids(y.items)
  <2>1. PICK e \in b.items : e.id = i
    BY <1>21 DEF Ids
  <2>2. CASE i \in Ids(X)
    BY <1>14, <2>2 DEF Ids
  <2>3. CASE i \notin Ids(X)
    <3>1. e \in K
      BY <1>7, <1>21, <2>1, <2>3
    <3> QED
      BY <1>14, <2>1, <3>1 DEF Ids
  <2> QED
    BY <2>2, <2>3
<1>22. \A i \in Kept(h, n) : i \in Ids(y.items)
  BY <1>6, <1>14 DEF Ids
<1>23. PendingInv(h, c, s, y)
  <2> SUFFICES ASSUME NEW k \in y.loads, s.st = "up", y.timer # "resync", k.token = y.started
               PROVE  /\ \A i \in From(c, k) .. y.next - 1 : i > c.next - Capacity => i \in Ids(y.items)
                      /\ From(c, k) <= c.next => Coming(c, s) \/ (y.boot = c.boot /\ y.next > c.next)
    BY DEF PendingInv
  <2>1. k \in b.loads /\ k.token = b.started /\ b.timer # "resync"
    BY <1>14, <1>15
  <2>2. /\ b.boot = c.boot => \A i \in From(c, k) .. b.next - 1 : i > c.next - Capacity => i \in Ids(b.items)
        /\ From(c, k) <= c.next => Coming(c, s) \/ (b.boot = c.boot /\ b.next > c.next)
    BY <1>1, <2>1 DEF PendingInv
  <2>3. From(c, k) \in 1 .. c.next + 1
    BY <1>1, <1>4, <2>1 DEF LoadsInv, From
  <2>4. ASSUME NEW i \in From(c, k) .. y.next - 1, i > c.next - Capacity PROVE i \in Ids(y.items)
    <3>1. i \in Int /\ i >= 1 /\ i < next /\ i >= From(c, k)
      BY <1>14, <1>16, <2>3, <2>4
    <3>2. CASE i <= n
      <4>1. i \in 1 .. n /\ i > n - Capacity
        BY <1>4, <1>6, <2>4, <3>1, <3>2
      <4> QED
        BY <1>22, <4>1 DEF Kept
    <3>3. CASE i >= n + 1
      <4>1. b.boot = c.boot /\ b.next = next /\ b.boot \in {None, c.boot}
        BY <1>6, <1>16, <3>1, <3>3
      <4>2. i \in From(c, k) .. b.next - 1
        BY <1>16, <2>3, <3>1, <4>1
      <4> QED
        BY <1>21, <2>2, <2>4, <3>3, <4>1, <4>2
    <3> QED
      BY <1>6, <3>1, <3>2, <3>3
  <2>5. b.boot = c.boot /\ b.next > c.next => y.next > c.next
    <3>1. b.boot = c.boot => b.next <= y.next /\ y.next \in Nat
      BY <1>14, <1>16
    <3> QED
      BY <1>2, <1>4, <3>1
  <2> QED
    BY <1>14, <2>2, <2>4, <2>5
<1>24. SyncedInv(h, c, s, y)
  <2> SUFFICES ASSUME s.st = "up", y.timer # "resync", y.applied = y.started, ~y.late
               PROVE  /\ \A i \in 1 .. y.next - 1 : i > c.next - Capacity \/ Holds(h, c.next, i) => i \in Ids(y.items)
                      /\ \A e \in ActiveConditions(y.items) : Holds(h, y.next - 1, e.id)
                      /\ y.next <= c.next => Coming(c, s)
    BY <1>14 DEF SyncedInv
  <2>1. l.token = b.started /\ b.timer # "resync" /\ n + Capacity > c.next
    <3>1. ~((l.snap.nextId - 1) + Capacity <= c.next)
      BY <1>14
    <3>2. n + Capacity > c.next
      BY <1>4, <1>5, <1>b, <3>1
    <3>3. l.token = b.started
      BY <1>14
    <3> QED
      BY <1>15, <3>2, <3>3
  <2>2. From(c, l) = n + 1
    BY <1>6 DEF From
  <2>3. /\ b.boot = c.boot => \A i \in n + 1 .. b.next - 1 : i > c.next - Capacity => i \in Ids(b.items)
        /\ n + 1 <= c.next => Coming(c, s) \/ (b.boot = c.boot /\ b.next > c.next)
    BY <1>1, <2>1, <2>2 DEF PendingInv
  <2>4. ASSUME NEW i \in n + 1 .. y.next - 1 PROVE i \in Ids(y.items)
    <3>1. i \in Int /\ i >= n + 1 /\ i < next
      BY <1>6, <1>14, <1>16, <2>4
    <3>2. b.boot = c.boot /\ b.next = next /\ b.boot \in {None, c.boot}
      BY <1>6, <1>16, <3>1
    <3>3. i \in n + 1 .. b.next - 1 /\ i > c.next - Capacity
      BY <1>4, <1>6, <1>16, <2>1, <3>1, <3>2
    <3> QED
      BY <1>21, <2>3, <3>1, <3>2, <3>3
  <2>5. \A i \in 1 .. y.next - 1 : i \in 1 .. n \/ i \in n + 1 .. y.next - 1
    <3>1. y.next \in Nat
      BY <1>14, <1>16
    <3> QED
      BY <1>b, <3>1
  <2>6. ASSUME NEW i \in 1 .. n, i > c.next - Capacity \/ Holds(h, c.next, i) PROVE i \in Ids(y.items)
    <3>1. i > c.next - Capacity => i > n - Capacity
      BY <1>4, <1>6
    <3>2. \A j \in 1 .. n : j \in 1 .. c.next
      BY <1>4, <1>6
    <3>3. Holds(h, c.next, i) => Holds(h, n, i)
      BY <3>2 DEF Holds
    <3> QED
      BY <1>22, <2>6, <3>1, <3>3 DEF Kept
  <2>7. ASSUME NEW e \in ActiveConditions(y.items) PROVE Holds(h, y.next - 1, e.id)
    <3>1. e \in y.items /\ e.kind = "onset" /\ \A f \in y.items : f.key = e.key => f.id <= e.id
      BY <2>7 DEF ActiveConditions
    <3>2. Recorded(h, c, e) /\ e.id < y.next /\ \A f \in y.items : Recorded(h, c, f)
      BY <1>14, <1>20, <3>1 DEF ItemsInv
    <3>3. e.id \in 1 .. y.next - 1 /\ e.id \in Nat /\ h[e.id].kind = "onset" /\ h[e.id].key = e.key
      <4>1. y.next \in Nat
        BY <1>14, <1>16
      <4>2. e.id \in 1 .. c.next /\ e.kind = h[e.id].kind /\ e.key = h[e.id].key
        BY <3>2 DEF Recorded
      <4> QED
        BY <1>4, <3>1, <3>2, <4>1, <4>2
    <3>4. ASSUME NEW j \in 1 .. y.next - 1, h[j].key = h[e.id].key, j \in Ids(y.items) PROVE j <= e.id
      <4>1. PICK f \in y.items : f.id = j
        BY <3>4 DEF Ids
      <4>2. f.key = e.key
        BY <3>2, <3>3, <3>4, <4>1 DEF Recorded
      <4> QED
        BY <3>1, <4>1, <4>2
    <3>5. ASSUME NEW j \in 1 .. n, h[j].key = h[e.id].key, ~(j <= e.id) PROVE FALSE
      <4>1. e.id \in 1 .. n /\ e.id < j /\ j \in 1 .. y.next - 1
        <5>1. y.next \in Nat /\ n + 1 <= y.next
          BY <1>14, <1>16
        <5> QED
          BY <1>b, <3>3, <3>5, <5>1
      <4>2. e \in X
        <5>1. e \in K \/ e \in X
          BY <1>14, <3>1
        <5>2. ~(e.id >= n + 1)
          BY <1>b, <4>1
        <5> QED
          BY <1>17, <5>1, <5>2
      <4>3. e.id \in Kept(h, n)
        BY <1>6, <4>2 DEF Ids
      <4>4. CASE Holds(h, n, e.id)
        BY <3>5, <4>4 DEF Holds
      <4>5. CASE e.id > n - Capacity
        <5>1. j > n - Capacity
          BY <1>4, <1>6, <4>1, <4>5
        <5>2. j \in Ids(y.items)
          BY <1>22, <5>1 DEF Kept
        <5> QED
          BY <3>4, <3>5, <4>1, <5>2
      <4> QED
        BY <4>3, <4>4, <4>5 DEF Kept
    <3>6. ASSUME NEW j \in 1 .. y.next - 1, h[j].key = h[e.id].key PROVE j <= e.id
      <4>1. CASE j \in 1 .. n
        BY <3>5, <3>6, <4>1
      <4>2. CASE j \in n + 1 .. y.next - 1
        BY <2>4, <3>4, <3>6, <4>2
      <4> QED
        BY <2>5, <4>1, <4>2
    <3> QED
      BY <3>3, <3>6 DEF Holds
  <2>8. y.next <= c.next => Coming(c, s)
    BY <1>2, <1>4, <1>6, <1>14, <1>16, <2>3
  <2> QED
    BY <2>4, <2>5, <2>6, <2>7, <2>8
<1> QED
  BY <1>1, <1>19, <1>20, <1>23, <1>24 DEF PageInv

\* What pruning leaves of a set of entries.
Pruned(items, next) == {e \in items : e.id >= next - Capacity \/ e \in ActiveConditions(items)}

\* A page with other entries, as far as that tells.
Folded(b, items, next, boot, resync, late, y) ==
    /\ DOMAIN y = DOMAIN b /\ y = [k \in DOMAIN y |-> y[k]] /\ y.up = b.up
    /\ y.boot = boot /\ y.items = items /\ y.next = next /\ y.loads = b.loads
    /\ y.started = b.started /\ y.applied = b.applied /\ y.late = late
    /\ y.timer \in {None, "backoff", "resync"} /\ (resync => y.timer = "resync") /\ (y.timer # "resync" => b.timer # "resync")

\* A page with a re-sync pending.
Resyncing(z, w) ==
    /\ DOMAIN w = DOMAIN z /\ w = [k \in DOMAIN w |-> w[k]] /\ w.up = z.up /\ w.timer = "resync"
    /\ w.boot = z.boot /\ w.items = z.items /\ w.next = z.next /\ w.loads = z.loads
    /\ w.started = z.started /\ w.applied = z.applied /\ w.late = z.late

\* What scheduling a re-sync changes of a page whose stream is up.
LEMMA ResyncScheduled ==
    ASSUME NEW z, z.up, z = [k \in DOMAIN z |-> z[k]],
           DOMAIN z = {"boot", "items", "next", "up", "timer", "loads", "started", "applied", "failed", "late"}
    PROVE  Resyncing(z, ScheduleReload(z, "resync"))
<1>1. ScheduleReload(z, "resync") = [z EXCEPT !.timer = IF z.timer = None THEN "resync" ELSE "resync"]
  BY DEF ScheduleReload
<1>2. PICK w : w = [z EXCEPT !.timer = "resync"]
  OBVIOUS
<1>3. w = ScheduleReload(z, "resync")
  BY <1>1, <1>2
<1>4. Resyncing(z, w)
  BY <1>2 DEF Resyncing
<1> QED
  BY <1>3, <1>4

\* What folding an event of a boot in does to the page.
FoldedIn(b, e, boot, late, y) ==
    IF b.boot \notin {None, boot} THEN Folded(b, b.items, b.next, b.boot, TRUE, b.late \/ late, y)
    ELSE LET items == {f \in b.items : f.id # e.id} \cup {e}
             next == IF e.id >= b.next THEN e.id + 1 ELSE b.next
         IN  Folded(b, Pruned(items, next), next, boot, e.id > b.next, b.late \/ late, y)

\* A page follows the event its stream wrote to it.
LEMMA LiveFolds ==
    ASSUME NEW b, b = [k \in DOMAIN b |-> b[k]], b.up, b.timer \in {None, "backoff", "resync"}, b.next \in Nat,
           DOMAIN b = {"boot", "items", "next", "up", "timer", "loads", "started", "applied", "failed", "late"},
           NEW e, e.id \in Nat, NEW late, NEW x, x = ApplyLive(b, e),
           NEW y, y = [x EXCEPT !.late = b.late \/ late]
    PROVE  FoldedIn(b, e, e.boot, late, y)
<1>1. CASE b.boot \notin {None, e.boot}
  <2>1. x = ScheduleReload(b, "resync")
    BY <1>1 DEF ApplyLive
  <2>2. /\ DOMAIN x = DOMAIN b /\ x = [k \in DOMAIN x |-> x[k]] /\ x.up = b.up /\ x.timer = "resync"
        /\ x.boot = b.boot /\ x.items = b.items /\ x.next = b.next /\ x.loads = b.loads
        /\ x.started = b.started /\ x.applied = b.applied /\ x.late = b.late
    <3>1. Resyncing(b, ScheduleReload(b, "resync"))
      BY ResyncScheduled
    <3> QED
      BY <2>1, <3>1 DEF Resyncing
  <2> QED
    BY <1>1, <2>2 DEF Folded, FoldedIn
<1>2. CASE b.boot \in {None, e.boot}
  <2>1. PICK items, next : items = {f \in b.items : f.id # e.id} \cup {e} /\ next = IF e.id >= b.next THEN e.id + 1 ELSE b.next
    OBVIOUS
  <2>2. PICK v : v = [b EXCEPT !.boot = e.boot, !.items = items, !.next = next]
    OBVIOUS
  <2>3. /\ DOMAIN v = DOMAIN b /\ v = [k \in DOMAIN v |-> v[k]] /\ v.up = b.up /\ v.timer = b.timer
        /\ v.boot = e.boot /\ v.items = items /\ v.next = next /\ v.loads = b.loads
        /\ v.started = b.started /\ v.applied = b.applied /\ v.late = b.late
    BY <2>2
  <2>4. PICK z : z = PruneToRing(v)
    OBVIOUS
  <2>5. z = [v EXCEPT !.items = Pruned(items, next)]
    BY <2>3, <2>4 DEF PruneToRing, Pruned
  <2>6. /\ DOMAIN z = DOMAIN b /\ z = [k \in DOMAIN z |-> z[k]] /\ z.up = b.up /\ z.timer = b.timer
        /\ z.boot = e.boot /\ z.items = Pruned(items, next) /\ z.next = next /\ z.loads = b.loads
        /\ z.started = b.started /\ z.applied = b.applied /\ z.late = b.late
    BY <2>3, <2>5
  <2>7. x = IF e.id > b.next THEN ScheduleReload(z, "resync") ELSE z
    BY <1>2, <2>1, <2>2, <2>4 DEF ApplyLive
  <2>8. /\ DOMAIN x = DOMAIN b /\ x = [k \in DOMAIN x |-> x[k]] /\ x.up = b.up
        /\ x.boot = e.boot /\ x.items = Pruned(items, next) /\ x.next = next /\ x.loads = b.loads
        /\ x.started = b.started /\ x.applied = b.applied /\ x.late = b.late
        /\ x.timer = IF e.id > b.next THEN "resync" ELSE b.timer
    <3>1. CASE e.id > b.next
      <4>1. x = ScheduleReload(z, "resync")
        BY <2>7, <3>1
      <4> QED
        <5>1. z.up
          BY <2>6
        <5>2. DOMAIN z = {"boot", "items", "next", "up", "timer", "loads", "started", "applied", "failed", "late"}
          BY <2>6
        <5>3. Resyncing(z, ScheduleReload(z, "resync"))
          BY <2>6, <5>1, <5>2, ResyncScheduled
        <5> QED
          BY <2>6, <3>1, <4>1, <5>3 DEF Resyncing
    <3>2. CASE ~(e.id > b.next)
      BY <2>6, <2>7, <3>2
    <3> QED
      BY <3>1, <3>2
  <2>9. Folded(b, Pruned(items, next), next, e.boot, e.id > b.next, b.late \/ late, y)
    BY <2>8 DEF Folded
  <2> QED
    BY <1>2, <2>1, <2>9 DEF FoldedIn
<1> QED
  BY <1>1, <1>2

\* An event the page folds in: the page has what it had and the event, until
\* the ring has moved on; what came a ring behind is told apart by late.
LEMMA WriteFits ==
    ASSUME NEW h, NEW c, NEW s, NEW b, PageInv(h, c, s, b), s.st = "up", s.merged # <<>>,
           NEW m, m = Head(s.merged), NEW late, late = (m.at + Capacity <= c.next),
           NEW t, t = [s EXCEPT !.merged = Tail(s.merged)],
           NEW y, y = [ApplyLive(b, m.entry) EXCEPT !.late = b.late \/ late]
    PROVE  PageInv(h, c, t, y)
<1>1. /\ HistoryOf(h, c) /\ RingInv(h, c) /\ ActiveInv(h, c) /\ WayInv(h, c, s)
      /\ LoadsInv(h, c, b) /\ ItemsInv(h, c, s, b) /\ PendingInv(h, c, s, b) /\ SyncedInv(h, c, s, b)
  BY DEF PageInv
<1>2. c.next \in Nat /\ c.boot \in Nat /\ c.boot # None /\ Capacity \in Nat \ {0}
  BY <1>1, NotificationBounds, NoneAssumption DEF HistoryOf
<1>3. /\ t = [st |-> t.st, hand |-> t.hand, merged |-> t.merged] /\ t.st = "up" /\ t.hand = s.hand /\ t.merged = Tail(s.merged)
  BY <1>1 DEF WayInv
<1>4. /\ Tail(s.merged) \in Seq(Range(Tail(s.merged))) /\ Head(s.merged) \in Range(s.merged)
      /\ Range(Tail(s.merged)) \subseteq Range(s.merged) /\ Range(s.merged) \subseteq Range(Tail(s.merged)) \cup {Head(s.merged)}
  BY <1>1, RangeTail DEF WayInv
<1>5. m \in OnTheWay(c, s) /\ OnTheWay(c, t) \subseteq OnTheWay(c, s) /\ OnTheWay(c, s) \subseteq OnTheWay(c, t) \cup {m}
  BY <1>3, <1>4 DEF OnTheWay
<1>6. PICK e : e = m.entry
  OBVIOUS
<1>7. /\ e \in Entries /\ m.at \in Nat /\ e.id <= m.at /\ m.at <= c.next /\ e.id \in 1 .. c.next /\ Recorded(h, c, e)
      /\ e.boot = c.boot /\ (e.kind = "onset" => Holds(h, m.at, e.id))
  <2>1. /\ m \in [entry : Entries, at : Nat] /\ m.at \in m.entry.id .. c.next /\ Recorded(h, c, m.entry)
        /\ m.entry.kind = "onset" => Holds(h, m.at, m.entry.id)
    BY <1>1, <1>5 DEF WayInv
  <2>2. e.id \in 1 .. c.next /\ e.boot = c.boot /\ e \in Entries
    BY <1>6, <2>1 DEF Recorded
  <2> QED
    BY <1>2, <1>6, <2>1, <2>2
<1>8. WayInv(h, c, t)
  BY <1>1, <1>3, <1>4, <1>5 DEF WayInv
<1>9. /\ DOMAIN b = {"boot", "items", "next", "up", "timer", "loads", "started", "applied", "failed", "late"}
      /\ b = [k \in DOMAIN b |-> b[k]] /\ b.timer \in {None, "backoff", "resync"} /\ b.next \in Nat /\ b.up /\ b.late \in BOOLEAN
      /\ (b.boot = None => b.items = {} /\ b.next = 0) /\ (b.boot # None => b.boot \in Nat /\ b.boot <= c.boot)
      /\ (b.boot = c.boot => b.next <= c.next + 1 /\ \A f \in b.items : Recorded(h, c, f) /\ f.id < b.next)
  BY <1>1 DEF ItemsInv
<1>10. FoldedIn(b, e, c.boot, late, y)
  <2>1. PICK x : x = ApplyLive(b, e)
    OBVIOUS
  <2>2. y = [x EXCEPT !.late = b.late \/ late] /\ e.id \in Nat
    BY <1>6, <1>7, <2>1
  <2>3. b.up
    BY <1>9
  <2>4. FoldedIn(b, e, e.boot, late, y)
    BY ONLY <1>9, <2>1, <2>2, <2>3, LiveFolds
  <2> QED
    BY <1>7, <2>4
<1>11. ASSUME NEW items, NEW next, NEW boot, NEW resync, Folded(b, items, next, boot, resync, b.late \/ late, y)
       PROVE  LoadsInv(h, c, y)
  BY <1>1, <1>11 DEF Folded, LoadsInv
<1>12. CASE b.boot \notin {None, c.boot}
  <2>1. Folded(b, b.items, b.next, b.boot, TRUE, b.late \/ late, y)
    BY <1>10, <1>12 DEF FoldedIn
  <2>2. LoadsInv(h, c, y)
    BY <1>11, <2>1
  <2>3. ItemsInv(h, c, t, y)
    BY <1>3, <1>9, <1>12, <2>1 DEF Folded, ItemsInv
  <2>4. y.timer = "resync"
    BY <2>1 DEF Folded
  <2>5. PendingInv(h, c, t, y) /\ SyncedInv(h, c, t, y)
    BY <2>4 DEF PendingInv, SyncedInv
  <2> QED
    BY <1>1, <1>8, <2>2, <2>3, <2>5 DEF PageInv
<1>13. CASE b.boot \in {None, c.boot}
  <2>1. PICK items, next : items = {f \in b.items : f.id # e.id} \cup {e} /\ next = IF e.id >= b.next THEN e.id + 1 ELSE b.next
    OBVIOUS
  <2>2. Folded(b, Pruned(items, next), next, c.boot, e.id > b.next, b.late \/ late, y)
    BY <1>10, <1>13, <2>1 DEF FoldedIn
  <2>3. /\ DOMAIN y = DOMAIN b /\ y = [k \in DOMAIN y |-> y[k]] /\ y.up = b.up
        /\ y.boot = c.boot /\ y.items = Pruned(items, next) /\ y.next = next /\ y.loads = b.loads
        /\ y.started = b.started /\ y.applied = b.applied /\ y.late = (b.late \/ late)
        /\ y.timer \in {None, "backoff", "resync"} /\ (e.id > b.next => y.timer = "resync") /\ (y.timer # "resync" => b.timer # "resync")
    BY <2>2 DEF Folded
  <2>4. /\ next \in Nat /\ next <= c.next + 1 /\ e.id < next /\ b.next <= next
        /\ e.id <= b.next => (next = b.next \/ (next = b.next + 1 /\ e.id = b.next))
    <3>1. b.next <= c.next + 1
      BY <1>2, <1>9, <1>13
    <3>2. e.id \in Nat /\ e.id <= c.next
      BY <1>2, <1>7
    <3> QED
      BY <1>2, <1>9, <2>1, <3>1, <3>2
  <2>5. \A f \in b.items : b.boot = c.boot /\ Recorded(h, c, f) /\ f.id < b.next
    BY <1>9, <1>13
  <2>6. \A f \in items : Recorded(h, c, f) /\ f.id \in 1 .. c.next /\ f.id < next
    <3>1. \A f \in b.items : Recorded(h, c, f) /\ f.id \in 1 .. c.next /\ f.id < next
      <4>1. \A f \in b.items : f.id \in 1 .. c.next
        BY <2>5 DEF Recorded
      <4> QED
        BY <1>2, <1>9, <2>4, <2>5, <4>1
    <3> QED
      BY <1>7, <2>1, <2>4, <3>1
  <2>7. y.items \subseteq items
    BY <2>3 DEF Pruned
  <2>8. LoadsInv(h, c, y)
    BY <1>11, <2>2
  <2>9. ItemsInv(h, c, t, y)
    <3>1. /\ y.next \in Nat /\ y.next <= c.next + 1 /\ y.boot = c.boot /\ y.boot \in Nat /\ y.boot <= c.boot
          /\ \A f \in y.items : Recorded(h, c, f) /\ f.id < y.next
      BY <1>2, <2>3, <2>4, <2>6, <2>7
    <3>2. y.late \in BOOLEAN /\ (y.up <=> t.st = "up")
      BY <1>3, <1>9, <2>3
    <3> QED
      BY <1>2, <1>9, <2>3, <3>1, <3>2 DEF ItemsInv
  <2>10. CASE e.id > b.next
    <3>1. y.timer = "resync"
      BY <2>3, <2>10
    <3>2. PendingInv(h, c, t, y) /\ SyncedInv(h, c, t, y)
      BY <3>1 DEF PendingInv, SyncedInv
    <3> QED
      BY <1>1, <1>8, <2>8, <2>9, <3>2 DEF PageInv
  <2>11. CASE e.id <= b.next
    \* What the page has below the ring's depth stays.
    <3>1. b.boot = c.boot
      BY <1>7, <1>9, <1>13, <2>11
    <3>2. \A i \in Ids(b.items) : i \in Ids(items)
      BY <2>1 DEF Ids
    <3>3. ASSUME NEW i \in Ids(items), i > c.next - Capacity PROVE i \in Ids(y.items)
      <4>1. PICK f \in items : f.id = i
        BY <3>3 DEF Ids
      <4>2. f.id >= next - Capacity
        BY <1>2, <2>4, <2>6, <3>3, <4>1
      <4> QED
        BY <2>3, <4>1, <4>2 DEF Pruned, Ids
    <3>4. e.id \in Ids(items)
      BY <2>1 DEF Ids
    <3>5. \A i \in Int : i < next => i < b.next \/ i = e.id
      BY <1>9, <2>4, <2>11
    <3>6. Coming(c, s) => Coming(c, t) \/ y.next > c.next
      <4>1. m.entry.id = c.next => y.next > c.next
        BY <1>2, <1>6, <1>7, <2>3, <2>4
      <4> QED
        BY <1>5, <4>1 DEF Coming
    <3>7. b.next > c.next => y.next > c.next
      BY <1>2, <1>9, <2>3, <2>4
    <3>8. PendingInv(h, c, t, y)
      <4> SUFFICES ASSUME NEW l \in y.loads, y.timer # "resync", l.token = y.started
                   PROVE  /\ \A i \in From(c, l) .. y.next - 1 : i > c.next - Capacity => i \in Ids(y.items)
                          /\ From(c, l) <= c.next => Coming(c, t) \/ (y.boot = c.boot /\ y.next > c.next)
        BY DEF PendingInv
      <4>1. /\ \A i \in From(c, l) .. b.next - 1 : i > c.next - Capacity => i \in Ids(b.items)
            /\ From(c, l) <= c.next => Coming(c, s) \/ (b.boot = c.boot /\ b.next > c.next)
        BY <1>1, <2>3, <3>1 DEF PendingInv
      <4>2. From(c, l) \in Int
        BY <1>1, <1>2, <2>3 DEF LoadsInv, From
      <4>3. ASSUME NEW i \in From(c, l) .. y.next - 1, i > c.next - Capacity PROVE i \in Ids(y.items)
        <5>1. i \in Int /\ i < next /\ i >= From(c, l)
          BY <2>3, <2>4, <4>2, <4>3
        <5>2. CASE i < b.next
          <6>1. i \in From(c, l) .. b.next - 1
            BY <1>9, <4>2, <5>1, <5>2
          <6> QED
            BY <3>2, <3>3, <4>1, <4>3, <6>1
        <5>3. CASE i = e.id
          BY <3>3, <3>4, <4>3, <5>3
        <5> QED
          BY <3>5, <5>1, <5>2, <5>3
      <4> QED
        BY <2>3, <3>6, <3>7, <4>1, <4>3
    <3>9. SyncedInv(h, c, t, y)
      <4> SUFFICES ASSUME y.timer # "resync", y.applied = y.started, ~y.late
                   PROVE  /\ \A i \in 1 .. y.next - 1 : i > c.next - Capacity \/ Holds(h, c.next, i) => i \in Ids(y.items)
                          /\ \A x \in ActiveConditions(y.items) : Holds(h, y.next - 1, x.id)
                          /\ y.next <= c.next => Coming(c, t)
        BY <2>3 DEF SyncedInv
      <4>1. ~b.late /\ ~late /\ b.timer # "resync" /\ b.applied = b.started
        BY <2>3
      <4>2. /\ \A i \in 1 .. b.next - 1 : i > c.next - Capacity \/ Holds(h, c.next, i) => i \in Ids(b.items)
            /\ \A x \in ActiveConditions(b.items) : Holds(h, b.next - 1, x.id)
            /\ b.next <= c.next => Coming(c, s)
        BY <1>1, <4>1 DEF SyncedInv
      <4>3. m.at > c.next - Capacity
        <5>1. ~(m.at + Capacity <= c.next)
          BY <4>1
        <5> QED
          BY <1>2, <1>7, <5>1
      <4>4. \A i \in 1 .. next - 1 : i \in 1 .. b.next - 1 \/ i = e.id
        BY <1>9, <2>4, <3>5
      <4>5. ASSUME NEW i \in 1 .. next - 1, i > c.next - Capacity \/ Holds(h, c.next, i) PROVE i \in Ids(y.items)
        <5>1. i \in Ids(items)
          BY <3>2, <3>4, <4>2, <4>4, <4>5
        <5>2. CASE Holds(h, c.next, i)
          <6>1. PICK x \in items : x.id = i
            BY <5>1 DEF Ids
          <6>2. x.kind = "onset" /\ \A f \in items : f.key = x.key => f.id <= x.id
            BY <2>6, <5>2, <6>1 DEF Holds, Recorded
          <6>3. x \in y.items
            BY <2>3, <6>2 DEF Pruned, ActiveConditions
          <6> QED
            BY <6>1, <6>3 DEF Ids
        <5> QED
          BY <3>3, <4>5, <5>1, <5>2
      <4>6. ASSUME NEW x \in ActiveConditions(y.items) PROVE Holds(h, next - 1, x.id)
        <5>1. x \in y.items /\ x.kind = "onset" /\ (\A f \in y.items : f.key = x.key => f.id <= x.id)
          BY <4>6 DEF ActiveConditions
        <5>2. x \in items /\ Recorded(h, c, x) /\ x.id \in 1 .. next - 1 /\ h[x.id].kind = "onset" /\ h[x.id].key = x.key
          <6>1. x \in items /\ Recorded(h, c, x) /\ x.id \in 1 .. c.next /\ x.id < next
            BY <2>6, <2>7, <5>1
          <6> QED
            BY <1>2, <2>4, <5>1, <6>1 DEF Recorded
        <5>3. ASSUME NEW f \in items, f.key = x.key PROVE f.id <= x.id
          <6>1. CASE x \in ActiveConditions(items)
            BY <5>3, <6>1 DEF ActiveConditions
          <6>2. CASE x.id >= next - Capacity
            <7> SUFFICES ASSUME ~(f.id <= x.id) PROVE FALSE
              OBVIOUS
            <7>1. f.id >= next - Capacity
              BY <1>2, <2>4, <2>6, <5>2, <5>3, <6>2
            <7>2. f \in y.items
              BY <2>3, <5>3, <7>1 DEF Pruned
            <7> QED
              BY <5>1, <5>3, <7>2
          <6> QED
            BY <2>3, <5>1, <6>1, <6>2 DEF Pruned
        <5>4. ASSUME NEW j \in 1 .. next - 1, h[j].key = h[x.id].key, j \in Ids(items) PROVE j <= x.id
          <6>1. PICK f \in items : f.id = j
            BY <5>4 DEF Ids
          <6>2. f.key = x.key
            BY <2>6, <5>2, <5>4, <6>1 DEF Recorded
          <6> QED
            BY <5>3, <6>1, <6>2
        <5>5. CASE x = e
          <6>1. Holds(h, m.at, e.id)
            BY <1>7, <5>1, <5>5
          <6>2. ASSUME NEW j \in 1 .. next - 1, h[j].key = h[x.id].key PROVE j <= x.id
            <7>1. CASE j <= m.at
              <8>1. j \in 1 .. m.at
                BY <1>7, <6>2, <7>1
              <8> QED
                BY <5>5, <6>1, <6>2, <8>1 DEF Holds
            <7>2. CASE j > m.at
              <8>1. j > c.next - Capacity
                BY <1>2, <1>7, <4>3, <6>2, <7>2
              <8>2. j \in Ids(items)
                BY <3>2, <3>4, <4>2, <4>4, <6>2, <8>1
              <8> QED
                BY <5>4, <6>2, <8>2
            <7> QED
              BY <1>7, <6>2, <7>1, <7>2
          <6> QED
            BY <5>2, <6>2 DEF Holds
        <5>6. CASE x # e
          <6>1. x \in b.items
            BY <2>1, <5>2, <5>6
          <6>2. ASSUME NEW f \in b.items, f.key = x.key PROVE f.id <= x.id
            <7>1. CASE f.id = e.id
              <8>1. e.key = f.key /\ e \in items
                BY <1>7, <2>1, <2>5, <7>1 DEF Recorded
              <8> QED
                BY <5>3, <6>2, <7>1, <8>1
            <7>2. CASE f.id # e.id
              BY <2>1, <5>3, <6>2, <7>2
            <7> QED
              BY <7>1, <7>2
          <6>3. x \in ActiveConditions(b.items)
            BY <5>1, <6>1, <6>2 DEF ActiveConditions
          <6>4. Holds(h, b.next - 1, x.id)
            BY <4>2, <6>3
          <6>5. ASSUME NEW j \in 1 .. next - 1, h[j].key = h[x.id].key PROVE j <= x.id
            <7>1. CASE j \in 1 .. b.next - 1
              BY <6>4, <6>5, <7>1 DEF Holds
            <7>2. CASE j = e.id
              BY <3>4, <5>4, <6>5, <7>2
            <7> QED
              BY <4>4, <7>1, <7>2
          <6> QED
            BY <5>2, <6>5 DEF Holds
        <5> QED
          BY <5>5, <5>6
      <4>7. y.next <= c.next => Coming(c, t)
        BY <1>2, <1>9, <2>3, <2>4, <3>6, <4>2
      <4> QED
        BY <2>3, <4>5, <4>6, <4>7
    <3> QED
      BY <1>1, <1>8, <2>8, <2>9, <3>8, <3>9 DEF PageInv
  <2>12. e.id > b.next \/ e.id <= b.next
    BY <1>7, <1>9
  <2> QED
    BY <2>10, <2>11, <2>12
<1> QED
  BY <1>12, <1>13

\* The page has no connection and no load, and what it holds is of an earlier boot.
Outdated(boot, s, b) ==
    /\ s = [st |-> "down", hand |-> None, merged |-> <<>>]
    /\ DOMAIN b = {"boot", "items", "next", "up", "timer", "loads", "started", "applied", "failed", "late"}
    /\ b = [k \in DOMAIN b |-> b[k]]
    /\ b.up = FALSE /\ b.timer = None /\ b.loads = {} /\ b.started \in Nat /\ b.applied \in 0 .. b.started
    /\ b.next \in Nat /\ b.late \in BOOLEAN
    /\ b.boot = None => b.items = {} /\ b.next = 0
    /\ b.boot # None => b.boot \in Nat /\ b.boot < boot

\* A center that is new begins a history.
LEMMA NewCenterFits ==
    ASSUME NEW boot \in Nat, NEW s, NEW b, Outdated(boot, s, b)
    PROVE  \E g : PageInv(g, Publish(NewCenter(boot)), s, b)
<1>1. PICK c : c = NewCenter(boot)
  OBVIOUS
<1>2. PICK h : h = [i \in 1 .. 0 |-> [kind |-> "event", key |-> None]]
  OBVIOUS
<1>3. /\ c = [boot |-> c.boot, next |-> c.next, ring |-> c.ring, active |-> c.active, sub |-> c.sub]
      /\ c.boot = boot /\ c.next = 0 /\ c.ring = <<>> /\ c.active = [k \in Keys |-> None]
      /\ c.sub = [on |-> FALSE, q |-> <<>>, lost |-> FALSE]
  BY <1>1 DEF NewCenter, NoSubscriber
<1>4. /\ c.sub = [on |-> c.sub.on, q |-> c.sub.q, lost |-> c.sub.lost] /\ c.sub.on = FALSE /\ c.sub.q = <<>>
      /\ <<>> \in Seq(Range(<<>>)) /\ Range(<<>>) = {} /\ 1 .. 0 = {} /\ Len(<<>>) = 0
  BY <1>3 DEF Range
<1>5. s = [st |-> s.st, hand |-> s.hand, merged |-> s.merged] /\ s.st = "down" /\ s.hand = None /\ s.merged = <<>>
  BY DEF Outdated
<1>6. HistoryOf(h, c)
  BY <1>2, <1>3, <1>4 DEF HistoryOf
<1>7. RingInv(h, c)
  BY <1>3, <1>4, NotificationBounds DEF RingInv
<1>8. ActiveInv(h, c)
  BY <1>3, <1>4 DEF ActiveInv
<1>9. WayInv(h, c, s)
  BY <1>4, <1>5 DEF WayInv, OnTheWay
<1>10. LoadsInv(h, c, b)
  BY DEF Outdated, LoadsInv
<1>11. ItemsInv(h, c, s, b)
  <2>1. b.boot # c.boot
    BY <1>3, NoneAssumption DEF Outdated
  <2>2. b.boot # None => b.boot \in Nat /\ b.boot <= c.boot
    BY <1>3 DEF Outdated
  <2> QED
    BY <1>5, <2>1, <2>2 DEF Outdated, ItemsInv
<1>12. PendingInv(h, c, s, b) /\ SyncedInv(h, c, s, b)
  BY <1>5 DEF PendingInv, SyncedInv
<1>13. PageInv(h, c, s, b)
  BY <1>6, <1>7, <1>8, <1>9, <1>10, <1>11, <1>12 DEF PageInv
<1> QED
  BY <1>1, <1>13, PublishFits

\* What the connection and the page do.
LEMMA PageStep ==
    ASSUME NEW h, PageInv(h, center, stream, browser), StreamStep
    PROVE  PageInv(h, center', stream', browser')
<1>1. /\ WayInv(h, center, stream) /\ LoadsInv(h, center, browser) /\ ItemsInv(h, center, stream, browser)
      /\ DOMAIN browser = {"boot", "items", "next", "up", "timer", "loads", "started", "applied", "failed", "late"}
      /\ browser = [k \in DOMAIN browser |-> browser[k]] /\ browser.timer \in {None, "backoff", "resync"}
  BY DEF PageInv, ItemsInv
<1>2. CASE StreamOpens
  BY <1>2, OpensFits DEF StreamOpens
<1>3. CASE StreamConnects
  <2>1. PICK t : t = [stream EXCEPT !.st = "up"]
    OBVIOUS
  <2>2. t = [st |-> t.st, hand |-> t.hand, merged |-> t.merged] /\ t.st = "up" /\ t.hand = stream.hand /\ t.merged = stream.merged
    BY <1>1, <2>1 DEF WayInv
  <2>3. WayInv(h, center, t)
    BY <1>1, <1>3, <2>2 DEF WayInv, OnTheWay, StreamConnects
  <2>4. PICK x : x = [browser EXCEPT !.up = TRUE]
    OBVIOUS
  <2>5. x = [[browser EXCEPT !.up = TRUE] EXCEPT !.timer = browser.timer]
    BY <1>1, <2>4
  <2>6. TRUE <=> t.st = "up"
    BY <2>2
  <2>7. PageInv(h, center, t, BeginLoad(x))
    BY <1>1, <2>3, <2>5, <2>6, LoadBegins
  <2> QED
    BY <1>3, <2>1, <2>4, <2>7 DEF StreamConnects
<1>4. CASE ForwardTakes
  BY <1>4, TakesFits DEF ForwardTakes
<1>5. CASE ForwardPuts
  BY <1>5, PutsFits DEF ForwardPuts
<1>6. CASE WriteEvent
  <2>1. PICK m, late, t, y : /\ m = Head(stream.merged) /\ late = (m.at + Capacity <= center.next)
                             /\ t = [stream EXCEPT !.merged = Tail(stream.merged)]
                             /\ y = [ApplyLive(browser, m.entry) EXCEPT !.late = browser.late \/ late]
    OBVIOUS
  <2>2. stream' = t /\ center' = center
    BY <1>6, <2>1 DEF WriteEvent
  <2>3. PICK x : x = ApplyLive(browser, m.entry)
    OBVIOUS
  <2>4. browser' = [x EXCEPT !.late = x.late \/ late]
    BY <1>6, <2>1, <2>3 DEF WriteEvent, Overtaken
  <2>5. x.late = browser.late
    BY <1>1, <2>3 DEF ApplyLive, PruneToRing, ScheduleReload
  <2>6. browser' = y
    BY <2>1, <2>3, <2>4, <2>5
  <2>7. stream.st = "up" /\ stream.merged # <<>>
    BY <1>6 DEF WriteEvent
  <2>8. PageInv(h, center, t, y)
    BY ONLY PageInv(h, center, stream, browser), <2>1, <2>7, WriteFits
  <2> QED
    BY <2>2, <2>6, <2>8
<1>7. CASE Resync
  <2>1. PICK x : x = [browser EXCEPT !.timer = None]
    OBVIOUS
  <2>2. x = [[browser EXCEPT !.up = browser.up] EXCEPT !.timer = None]
    BY <1>1, <2>1
  <2>3. browser.up <=> stream.st = "up"
    BY <1>1 DEF ItemsInv
  <2>4. PageInv(h, center, stream, BeginLoad(x))
    BY <1>1, <2>2, <2>3, LoadBegins
  <2> QED
    BY <1>7, <2>1, <2>4 DEF Resync
<1>8. CASE StreamBreaks
  BY <1>8, BreaksFits DEF StreamBreaks
<1>9. ASSUME NEW l \in browser.loads, ListNotifications(l) PROVE PageInv(h, center', stream', browser')
  BY <1>9, ListsFits DEF ListNotifications
<1>10. ASSUME NEW l \in browser.loads, LoadAnswered(l) PROVE PageInv(h, center', stream', browser')
  <2>1. PICK x, late : x = [browser EXCEPT !.loads = browser.loads \ {l}] /\ late = ((l.snap.nextId - 1) + Capacity <= center.next)
    OBVIOUS
  <2>2. l.snap # None /\ center' = center /\ stream' = stream
    BY <1>10 DEF LoadAnswered
  <2>3. /\ DOMAIN x = DOMAIN browser /\ x = [k \in DOMAIN x |-> x[k]] /\ x.up = browser.up /\ x.timer = browser.timer
        /\ x.boot = browser.boot /\ x.items = browser.items /\ x.next = browser.next /\ x.loads = browser.loads \ {l}
        /\ x.started = browser.started /\ x.applied = browser.applied /\ x.late = browser.late
    BY <1>1, <2>1
  <2>4. CASE l.token < browser.applied
    <3>1. browser' = x
      BY <1>10, <2>1, <2>3, <2>4 DEF LoadAnswered
    <3>2. OneLess(browser, l, x)
      BY <1>1, <2>3 DEF OneLess
    <3> QED
      BY <2>2, <3>1, <3>2, OneLessFits
  <2>5. CASE ~(l.token < browser.applied)
    <3>1. PICK y : y = [ApplySnapshot(x, l.snap) EXCEPT !.applied = l.token, !.failed = FALSE, !.late = late,
                                                        !.timer = IF @ = "backoff" THEN None ELSE @]
      OBVIOUS
    <3>2. browser' = y
      BY <1>10, <2>1, <2>3, <2>5, <3>1 DEF LoadAnswered, Overtaken
    <3>3. PageInv(h, center, stream, y)
      BY <2>1, <2>2, <2>5, <3>1, AnswerFits
    <3> QED
      BY <2>2, <3>2, <3>3
  <2> QED
    BY <2>4, <2>5
<1>11. ASSUME NEW l \in browser.loads, LoadFails(l) PROVE PageInv(h, center', stream', browser')
  <2>1. PICK failed : failed = (browser.failed \/ l.token >= browser.applied)
    OBVIOUS
  <2>2. PICK x : x = [browser EXCEPT !.loads = browser.loads \ {l}, !.failed = failed]
    OBVIOUS
  <2>3. center' = center /\ stream' = stream /\ (browser' = x \/ browser' = ScheduleReload(x, "backoff"))
    BY <1>11, <2>1, <2>2 DEF LoadFails
  <2>4. PageInv(h, center, stream, x) /\ PageInv(h, center, stream, ScheduleReload(x, "backoff"))
    BY <2>2, FailsFits
  <2> QED
    BY <2>3, <2>4
<1> QED
  BY <1>2, <1>3, <1>4, <1>5, <1>6, <1>7, <1>8, <1>9, <1>10, <1>11 DEF StreamStep

----------------------------------------------------------------------------
\* With nothing on its way, the page has what the center has.

\* A page that has seen everything holds the active conditions.
LEMMA SettledIsCurrent ==
    ASSUME NEW h, PageInv(h, center, stream, browser)
    PROVE  ViewIsCurrent
<1> SUFFICES ASSUME stream = [st |-> "up", hand |-> None, merged |-> <<>>], center.sub.q = <<>>, ~center.sub.lost,
                    browser.timer = None, browser.applied = browser.started, ~browser.late
             PROVE  {<<e.boot, e.id>> : e \in ActiveConditions(browser.items)}
                        = {<<center.boot, center.active[k].id>> : k \in {j \in Keys : center.active[j] # None}}
  BY DEF ViewIsCurrent
<1>1. HistoryOf(h, center) /\ ActiveInv(h, center) /\ ItemsInv(h, center, stream, browser) /\ SyncedInv(h, center, stream, browser)
  BY DEF PageInv
<1>2. center.next \in Nat /\ browser.next \in Nat /\ browser.timer # "resync" /\ stream.st = "up"
  BY <1>1, NoneAssumption DEF HistoryOf, ItemsInv
<1>3. OnTheWay(center, stream) = {}
  BY DEF OnTheWay, Range
<1>4. ~Coming(center, stream)
  BY <1>3 DEF Coming
<1>5. /\ browser.boot = center.boot /\ browser.next > center.next
      /\ \A i \in 1 .. browser.next - 1 : Holds(h, center.next, i) => i \in Ids(browser.items)
      /\ \A e \in ActiveConditions(browser.items) : Holds(h, browser.next - 1, e.id)
  BY <1>1, <1>2, <1>4 DEF SyncedInv
<1>6. browser.next = center.next + 1 /\ \A e \in browser.items : Recorded(h, center, e)
  BY <1>1, <1>2, <1>5 DEF ItemsInv
<1>7. browser.next - 1 = center.next
  BY <1>2, <1>6
<1>8. ASSUME NEW e \in ActiveConditions(browser.items)
      PROVE  \E k \in {j \in Keys : center.active[j] # None} : e.boot = center.boot /\ e.id = center.active[k].id
  <2>1. e \in browser.items /\ e.kind = "onset"
    BY DEF ActiveConditions
  <2>2. Recorded(h, center, e) /\ Holds(h, center.next, e.id)
    BY <1>5, <1>6, <1>7, <2>1
  <2>3. e.id \in 1 .. center.next /\ e.boot = center.boot /\ h[e.id].key \in Keys
    <3>1. e.id \in 1 .. center.next /\ e.boot = center.boot /\ h[e.id].kind = "onset"
      BY <2>2 DEF Recorded, Holds
    <3> QED
      BY <1>1, <3>1 DEF HistoryOf
  <2>4. center.active[h[e.id].key] # None /\ center.active[h[e.id].key].id = e.id
    BY <1>1, <2>2, <2>3 DEF ActiveInv
  <2> QED
    BY <2>3, <2>4
<1>9. ASSUME NEW k \in {j \in Keys : center.active[j] # None}
      PROVE  \E e \in ActiveConditions(browser.items) : e.boot = center.boot /\ e.id = center.active[k].id
  <2>1. Recorded(h, center, center.active[k]) /\ Holds(h, center.next, center.active[k].id)
    BY <1>1 DEF ActiveInv
  <2>2. center.active[k].id \in 1 .. center.next
    BY <2>1 DEF Recorded
  <2>3. center.active[k].id \in Ids(browser.items)
    BY <1>5, <1>7, <2>1, <2>2
  <2>4. PICK e \in browser.items : e.id = center.active[k].id
    BY <2>3 DEF Ids
  <2>5. e.boot = center.boot /\ e.kind = "onset"
    BY <1>6, <2>1, <2>4 DEF Recorded, Holds
  <2>6. ASSUME NEW f \in browser.items, f.key = e.key PROVE f.id <= e.id
    BY <1>6, <2>1, <2>4, <2>6 DEF Recorded, Holds
  <2>7. e \in ActiveConditions(browser.items)
    BY <2>5, <2>6 DEF ActiveConditions
  <2> QED
    BY <2>4, <2>5, <2>7
<1> QED
  BY <1>8, <1>9

=============================================================================
