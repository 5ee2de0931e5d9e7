------------------------- MODULE ProvisioningProofs -------------------------
(***************************************************************************)
(* Proofs about the scripts that prepare the account and those who use     *)
(* what they make: the gateway, for any operators and any number of runs,  *)
(* one after another or at once; the names of tools, for any tools,        *)
(* requests and pages; who is admitted and answered; and the two custom    *)
(* resources, for any clusters and any number of requests, invocations,    *)
(* denials and edits.                                                      *)
(***************************************************************************)
EXTENDS Provisioning, FoldTheorems, SequenceTheorems

-----------------------------------------------------------------------------
(* The gateway, with any operators (create_gateway.py).                    *)

Gateways == Gateway!Ids
Alive == Gateway!Live
GatewaySet == [auth : {"AWS_IAM", "NONE", "none"},
               status : {"absent", "CREATING", "READY", "UPDATING", "FAILED", "DELETING", "gone"},
               targets : SUBSET Targets, leaving : SUBSET Targets]
Signed(g) == gateways[g].auth = "AWS_IAM"
Leaves(g) == gateways[g].leaving # {}
Goes(g) == gateways[g].status = "DELETING"
There(g) == gateways[g].status # "absent"
AtWork == {"update", "updating", "list", "drop", "delete", "deleting"}

\* There is one gateway at a time.
GatewayTypes ==
    /\ gateways \in [Gateways -> GatewaySet]
    /\ \A g \in Gateways : gateways[g].leaving \subseteq gateways[g].targets
    /\ run \in [Operators -> AtWork \cup {"idle", "find", "create", "again", "creating", "targets", "put"}]
    /\ id \in [Operators -> Gateways \cup {None}]
    /\ doomed \in [Operators -> SUBSET Targets]
    /\ gatewaysListed \subseteq Alive
    /\ \A g, h \in Alive : g = h

\* Only the first gateway may do without signed requests, and as long as it does it
\* is listed, so that a run that finds none, or meets a conflict, need not look.
SignedOK ==
    /\ \A g \in Gateways : g = 1 \/ Signed(g) \/ ~There(g)
    /\ \A g \in Gateways : gateways[g].status = "CREATING" => Signed(g)
    /\ \A g \in Alive : g \in gatewaysListed \/ Signed(g)
    /\ \A o \in Operators :
         /\ run[o] \in AtWork => id[o] = 1 /\ There(1)
         /\ run[o] = "updating" => (gateways[1].status = "READY" => Signed(1))
         /\ run[o] \in {"create", "again"} => \A g \in Alive : Signed(g)
         /\ run[o] \in {"creating", "targets", "put"} => id[o] \in Gateways /\ Signed(id[o])
         /\ run[o] = "put" => url \in Gateways /\ Signed(url)

Serves == url \in Alive /\ Targets \subseteq gateways[url].targets

\* Unless a run was stopped while it replaced the gateway, or replaced it beside
\* another, nothing is being deleted but what the one run that is under way replaces.
DeletedByRun ==
    \/ halved
    \/ /\ \A o, p \in Operators : o # p /\ Gateway!Replaces(o) => run[p] = "idle"
       /\ \A g \in Gateways : Goes(g) => \E o \in Operators : run[o] = "deleting" /\ id[o] = g
       /\ \A g \in Gateways : Leaves(g) => \E o \in Operators : run[o] \in {"drop", "delete"} /\ id[o] = g
       /\ \A o \in Operators : run[o] = "put" => Serves

GatewayInv == GatewayTypes /\ SignedOK /\ DeletedByRun

LEMMA OneIsAGateway == 1 \in Gateways /\ Alive \subseteq Gateways /\ \A g \in Alive : There(g)
  BY OperatorAssumption DEF Gateways, Gateway!Ids, Alive, Gateway!Live, There

LEMMA InitGateway == Gateway!GatewayInit => GatewayInv
  <1> SUFFICES ASSUME Gateway!GatewayInit PROVE GatewayInv
    OBVIOUS
  <1>1. PICK auth \in {"AWS_IAM", "NONE"}, there \in BOOLEAN :
          LET first == [auth |-> auth, status |-> "READY", targets |-> Targets, leaving |-> {}]
          IN /\ gateways = [g \in Gateways |-> IF there /\ g = 1 THEN first ELSE Gateway!Absent]
             /\ gatewaysListed = (IF there THEN {1} ELSE {})
    BY DEF Gateway!GatewayInit, Gateways
  <1>2. \A g \in Gateways :
          /\ there /\ g = 1 => gateways[g] = [auth |-> auth, status |-> "READY", targets |-> Targets, leaving |-> {}]
          /\ ~(there /\ g = 1) => gateways[g] = Gateway!Absent
    BY <1>1
  <1>3. gateways \in [Gateways -> GatewaySet]
    BY <1>1 DEF GatewaySet, Gateway!Absent
  <1>4. \A g \in Gateways :
          /\ ~Leaves(g) /\ ~Goes(g) /\ gateways[g].status # "CREATING"
          /\ g \in Alive <=> there /\ g = 1
          /\ g # 1 => ~There(g)
          /\ gateways[g].leaving = {}
    BY <1>2 DEF Alive, Gateway!Live, Gateways, Gateway!Absent, Leaves, Goes, There
  <1>5. Alive = gatewaysListed
    <2> HIDE DEF Alive, Gateways
    <2>1. \A g : g \in Alive <=> there /\ g = 1
      BY <1>4, OneIsAGateway
    <2>2. CASE there
      <3>1. gatewaysListed = {1}
        BY <1>1, <2>2
      <3> QED
        BY <2>1, <2>2, <3>1
    <2>3. CASE ~there
      <3>1. gatewaysListed = {}
        BY <1>1, <2>3
      <3> QED
        BY <2>1, <2>3, <3>1
    <2> QED
      BY <2>2, <2>3
  <1>6. \A g, h \in Alive : g = h
    BY <1>1, <1>5
  <1>7. /\ run = [o \in Operators |-> "idle"] /\ id = [o \in Operators |-> None]
        /\ doomed = [o \in Operators |-> {}]
    BY DEF Gateway!GatewayInit
  <1>8. GatewayTypes
    BY <1>3, <1>4, <1>5, <1>6, <1>7 DEF GatewayTypes
  <1>9. SignedOK /\ DeletedByRun
    <2>1. \A o \in Operators : run[o] = "idle" /\ ~Gateway!Replaces(o)
      BY <1>7 DEF Gateway!Replaces
    <2> HIDE DEF Alive, Gateways
    <2>2. SignedOK
      BY <1>4, <1>5, <2>1 DEF SignedOK, AtWork
    <2>3. DeletedByRun
      BY <1>4, <2>1 DEF DeletedByRun
    <2> QED
      BY <2>2, <2>3
  <1> QED
    BY <1>8, <1>9 DEF GatewayInv

\* What is remembered of a step.
LEMMA Remembered ==
    ASSUME Gateway!Remember
    PROVE  \/ halved'
           \/ /\ ~halved
              /\ \A o \in Operators : Gateway!Replaces(o) => run'[o] # "idle"
              /\ \A o, p \in Operators : o # p /\ Gateway!Replaces(o)' => run'[p] = "idle"
  BY DEF Gateway!Remember, Gateway!Replaces

\* What a step has to show for DeletedByRun: where something is deleted its run
\* goes on, and what is published serves.
DeletedStays ==
    /\ \A g \in Gateways : Goes(g)' =>
          Goes(g) \/ \E o \in Operators : run'[o] = "deleting" /\ id'[o] = g
    /\ \A g \in Gateways : Leaves(g)' =>
          Leaves(g) \/ \E o \in Operators : run'[o] \in {"drop", "delete"} /\ id'[o] = g
    /\ \A g \in Gateways, o \in Operators : run[o] = "deleting" /\ id[o] = g /\ Goes(g)' =>
          run'[o] = "idle" \/ (run'[o] = "deleting" /\ id'[o] = g)
    /\ \A g \in Gateways, o \in Operators : run[o] \in {"drop", "delete"} /\ id[o] = g /\ Leaves(g)' =>
          run'[o] = "idle" \/ (run'[o] \in {"drop", "delete"} /\ id'[o] = g)

LEMMA DeletedKept ==
    ASSUME DeletedByRun, Gateway!Remember, Gateways' = Gateways, DeletedStays,
           ~halved => \A o \in Operators : run'[o] = "put" => Serves'
    PROVE  DeletedByRun'
  <1>1. CASE halved'
    BY <1>1 DEF DeletedByRun
  <1>2. CASE ~halved'
    <2>1. /\ ~halved
          /\ \A o \in Operators : Gateway!Replaces(o) => run'[o] # "idle"
          /\ \A o, p \in Operators : o # p /\ Gateway!Replaces(o)' => run'[p] = "idle"
      BY <1>2, Remembered
    <2>2. /\ \A g \in Gateways : Goes(g) => \E o \in Operators : run[o] = "deleting" /\ id[o] = g
          /\ \A g \in Gateways : Leaves(g) => \E o \in Operators : run[o] \in {"drop", "delete"} /\ id[o] = g
      BY <2>1 DEF DeletedByRun
    <2>3. ASSUME NEW g \in Gateways, Goes(g)'
          PROVE  \E o \in Operators : run'[o] = "deleting" /\ id'[o] = g
      BY <2>1, <2>2, <2>3 DEF DeletedStays, Gateway!Replaces
    <2>4. ASSUME NEW g \in Gateways, Leaves(g)'
          PROVE  \E o \in Operators : run'[o] \in {"drop", "delete"} /\ id'[o] = g
      BY <2>1, <2>2, <2>4 DEF DeletedStays, Gateway!Replaces
    <2> QED
      BY <2>1, <2>3, <2>4 DEF DeletedByRun
  <1> QED
    BY <1>1, <1>2

\* While a run replaces the gateway nothing is taken from the one that is published.
LEMMA ServesWhile ==
    ASSUME DeletedByRun, ~halved, NEW o \in Operators, run[o] = "put"
    PROVE  /\ Serves
           /\ \A g \in Gateways : ~Goes(g) /\ ~Leaves(g)
           /\ \A p \in Operators : ~Gateway!Replaces(p)
  BY DEF DeletedByRun, Gateway!Replaces

\* What the service does on its own.
LEMMA ServiceKeeps ==
    ASSUME GatewayInv, NEW g \in Gateways, Gateway!Remember,
           Gateway!Appear(g) \/ Gateway!Settle(g) \/ Gateway!Vanish(g) \/ Gateway!DropTargets(g)
    PROVE  GatewayInv'
  <1> USE DEF GatewayInv, Gateway!Service, Gateway!Becomes
  <1>1. UNCHANGED <<url, run, id, doomed>> /\ Gateways' = Gateways
    BY DEF Gateway!Appear, Gateway!Settle, Gateway!Vanish, Gateway!DropTargets, Gateways
  <1>2. CASE Gateway!Appear(g)
    <2>1. GatewayTypes'
      BY <1>1, <1>2 DEF Gateway!Appear, GatewayTypes, Alive, Gateway!Live
    <2>2. SignedOK'
      BY <1>1, <1>2 DEF Gateway!Appear, SignedOK, Alive, Gateway!Live, Signed, There
    <2>3. DeletedStays /\ (Serves => Serves')
      BY <1>1, <1>2 DEF Gateway!Appear, DeletedStays, Serves, Alive, Gateway!Live, Goes, Leaves
    <2> QED
      BY <1>1, <2>1, <2>2, <2>3, DeletedKept, ServesWhile
  <1>3. CASE Gateway!Settle(g)
    <2>1. gateways' \in [Gateways -> GatewaySet]
      BY <1>3 DEF Gateway!Settle, GatewayTypes, GatewaySet
    <2>2. \A h \in Gateways : /\ gateways'[h].leaving = gateways[h].leaving /\ gateways'[h].targets = gateways[h].targets
                              /\ Goes(h)' = Goes(h) /\ Leaves(h)' = Leaves(h) /\ (Signed(h) => Signed(h)')
                              /\ There(h)' = There(h)
                              /\ gateways'[h].status = "CREATING" => gateways[h].status = "CREATING"
                              /\ gateways'[h].status = "READY" => gateways[h].status \in {"READY", "CREATING"} \/ Signed(h)'
      BY <1>3 DEF Gateway!Settle, GatewayTypes, GatewaySet, Goes, Leaves, Signed, There
    <2>3. Alive' = Alive
      BY <1>3 DEF Gateway!Settle, GatewayTypes, GatewaySet, Alive, Gateway!Live, Gateways
    <2>4. UNCHANGED gatewaysListed
      BY <1>3 DEF Gateway!Settle
    <2>5. GatewayTypes'
      BY <1>1, <2>1, <2>2, <2>3, <2>4 DEF GatewayTypes
    <2> HIDE DEF Alive, Gateways
    <2>6. SignedOK'
      BY <1>1, <2>2, <2>3, <2>4, OneIsAGateway DEF SignedOK
    <2>7. DeletedStays /\ (Serves => Serves')
      BY <1>1, <2>2, <2>3, OneIsAGateway DEF DeletedStays, Serves, Goes, Leaves
    <2> QED
      BY <1>1, <2>5, <2>6, <2>7, DeletedKept, ServesWhile
  <1>4. CASE Gateway!Vanish(g)
    <2>1. gateways' = [gateways EXCEPT ![g].status = "gone"] /\ gateways[g].status = "DELETING"
          /\ gatewaysListed' = gatewaysListed \ {g}
      BY <1>4 DEF Gateway!Vanish
    <2>2. gateways' \in [Gateways -> GatewaySet]
      BY <2>1 DEF GatewayTypes, GatewaySet
    <2>3. Alive' = Alive \ {g}
      BY <1>1, <2>1, <2>2 DEF GatewayTypes, GatewaySet, Alive, Gateway!Live, Gateways
    <2>4. \A h \in Gateways : /\ gateways'[h].leaving = gateways[h].leaving /\ gateways'[h].targets = gateways[h].targets
                              /\ Leaves(h)' = Leaves(h) /\ (Goes(h)' => Goes(h)) /\ Signed(h)' = Signed(h)
                              /\ There(h)' = There(h)
                              /\ gateways'[h].status \in {"READY", "CREATING"} => gateways'[h].status = gateways[h].status
      BY <2>1 DEF GatewayTypes, GatewaySet, Goes, Leaves, Signed, There
    <2>5. GatewayTypes'
      BY <1>1, <2>1, <2>2, <2>3, <2>4 DEF GatewayTypes
    <2>6. Goes(g)
      BY <2>1 DEF Goes
    <2> HIDE DEF Alive, Gateways
    <2>7. SignedOK'
      BY <1>1, <2>1, <2>3, <2>4, OneIsAGateway DEF SignedOK
    <2>8. DeletedStays
      BY <1>1, <2>4 DEF DeletedStays, Goes, Leaves
    <2>9. ~halved => \A o \in Operators : run'[o] # "put"
      BY <1>1, <2>6, ServesWhile
    <2> QED
      BY <1>1, <2>5, <2>7, <2>8, <2>9, DeletedKept
  <1>5. CASE Gateway!DropTargets(g)
    <2>1. gateways' = [gateways EXCEPT ![g].targets = @ \ gateways[g].leaving, ![g].leaving = {}]
          /\ Leaves(g) /\ UNCHANGED gatewaysListed
      BY <1>5 DEF Gateway!DropTargets, Leaves
    <2>2. gateways' \in [Gateways -> GatewaySet]
      <3>1. gateways \in [Gateways -> GatewaySet]
        BY DEF GatewayTypes
      <3>2. gateways[g] \in GatewaySet
        BY <3>1
      <3>3. [gateways[g] EXCEPT !.targets = @ \ gateways[g].leaving, !.leaving = {}] \in GatewaySet
        BY <3>2 DEF GatewaySet
      <3>4. gateways' = [gateways EXCEPT ![g] = [gateways[g] EXCEPT !.targets = @ \ gateways[g].leaving, !.leaving = {}]]
        BY <2>1, <3>1
      <3> QED
        BY <3>1, <3>3, <3>4
    <2>3. \A h \in Gateways : gateways'[h].status = gateways[h].status /\ gateways'[h].auth = gateways[h].auth
      BY <2>1 DEF GatewayTypes, GatewaySet
    <2>4. Alive' = Alive
      BY <1>1, <2>3 DEF Alive, Gateway!Live, Gateways
    <2>5. \A h \in Gateways : /\ gateways'[h].leaving \subseteq gateways'[h].targets
                              /\ Leaves(h)' => Leaves(h)
      BY <2>1 DEF GatewayTypes, GatewaySet, Leaves
    <2>6. GatewayTypes'
      BY <1>1, <2>1, <2>2, <2>4, <2>5 DEF GatewayTypes
    <2> HIDE DEF Alive, Gateways
    <2>7. SignedOK'
      <3>1. \A h \in Gateways : Signed(h)' = Signed(h) /\ There(h)' = There(h)
        BY <2>3 DEF Signed, There
      <3> HIDE DEF Signed, There
      <3> QED
        BY <1>1, <2>1, <2>3, <2>4, <3>1, OneIsAGateway DEF SignedOK
    <2>8. DeletedStays
      BY <1>1, <2>3, <2>5 DEF DeletedStays, Goes, Leaves
    <2>9. ~halved => \A o \in Operators : run'[o] # "put"
      BY <1>1, <2>1, ServesWhile
    <2> QED
      BY <1>1, <2>6, <2>7, <2>8, <2>9, DeletedKept
  <1> QED
    BY <1>2, <1>3, <1>4, <1>5

\* A run takes a step that leaves the gateways as they are.
LEMMA LookKeeps ==
    ASSUME GatewayInv, NEW o \in Operators, Gateway!Remember,
           \/ Gateway!Start(o) \/ Gateway!Stop(o) \/ Gateway!Find(o) \/ Gateway!Updated(o) \/ Gateway!ListTargets(o)
           \/ Gateway!Drained(o) \/ Gateway!Deleted(o) \/ Gateway!Created(o) \/ Gateway!FindAgain(o) \/ Gateway!PutUrl(o)
    PROVE  GatewayInv'
  <1> USE DEF GatewayInv, Gateway!Goes, Gateway!Works, Gateway!Local
  <1>1. UNCHANGED <<gateways, gatewaysListed>> /\ Gateways' = Gateways /\ Alive' = Alive
    BY DEF Gateway!Start, Gateway!Stop, Gateway!Find, Gateway!Updated, Gateway!Drained, Gateway!Deleted,
       Gateway!Created, Gateway!FindAgain, Gateway!PutUrl, Gateway!ListTargets, Gateways, Alive, Gateway!Live
  <1>2. \A g \in Gateways : Signed(g)' = Signed(g) /\ Goes(g)' = Goes(g) /\ Leaves(g)' = Leaves(g) /\ There(g)' = There(g)
    BY <1>1 DEF Signed, Goes, Leaves, There
  <1>3. PICK place : run' = [run EXCEPT ![o] = place]
    BY DEF Gateway!Start, Gateway!Stop, Gateway!Find, Gateway!Updated, Gateway!Drained, Gateway!Deleted,
       Gateway!Created, Gateway!FindAgain, Gateway!PutUrl, Gateway!ListTargets
  <1>4. PICK g : id' = [id EXCEPT ![o] = g]
    <2>1. id = [id EXCEPT ![o] = id[o]]
      BY DEF GatewayTypes
    <2> QED
      BY <2>1 DEF Gateway!Start, Gateway!Stop, Gateway!Find, Gateway!Updated, Gateway!Drained, Gateway!Deleted,
         Gateway!Created, Gateway!FindAgain, Gateway!PutUrl, Gateway!ListTargets
  <1>5. /\ run'[o] = place /\ id'[o] = g
        /\ \A p \in Operators \ {o} : run'[p] = run[p] /\ id'[p] = id[p]
    BY <1>3, <1>4 DEF GatewayTypes
  <1>6. doomed' \in [Operators -> SUBSET Targets]
    BY DEF Gateway!Start, Gateway!Stop, Gateway!Find, Gateway!Updated, Gateway!Drained, Gateway!Deleted,
       Gateway!Created, Gateway!FindAgain, Gateway!PutUrl, Gateway!ListTargets, GatewayTypes, GatewaySet, Alive,
       Gateway!Live, Gateways
  <1>7. \/ UNCHANGED url /\ place # "put"
        \/ /\ run[o] = "targets" /\ place = "put" /\ g = id[o] /\ url' = g /\ g \in Alive
           /\ Targets \subseteq gateways[g].targets
    <2>1. CASE Gateway!PutUrl(o)
      BY <1>5, <2>1 DEF Gateway!PutUrl, GatewayTypes, Alive
    <2>2. CASE ~Gateway!PutUrl(o)
      BY <1>5, <2>2 DEF Gateway!Start, Gateway!Stop, Gateway!Find, Gateway!Updated, Gateway!Drained, Gateway!Deleted,
         Gateway!Created, Gateway!FindAgain, Gateway!ListTargets, GatewayTypes
    <2> QED
      BY <2>1, <2>2
  <1>8. \/ run[o] = "idle" /\ place = "find" /\ g = id[o]
        \/ place = "idle" /\ g = None
        \/ run[o] = "find" /\ place = "create" /\ g = id[o] /\ gatewaysListed = {}
        \/ run[o] = "find" /\ place \in {"targets", "update"} /\ g \in gatewaysListed
              /\ (place = "targets" <=> Signed(g))
        \/ run[o] = "updating" /\ place \in {"targets", "list"} /\ g = id[o]
              /\ (place = "targets" => gateways[g].status = "READY")
        \/ run[o] = "list" /\ place = "drop" /\ g = id[o]
        \/ run[o] = "drop" /\ place = "delete" /\ g = id[o]
        \/ run[o] = "deleting" /\ place = "create" /\ g = id[o] /\ g \notin Alive
        \/ run[o] = "creating" /\ place = "targets" /\ g = id[o]
        \/ run[o] = "again" /\ place = "targets" /\ g \in gatewaysListed
        \/ run[o] = "targets" /\ place = "put" /\ g = id[o] /\ url' = g
    BY <1>5 DEF Gateway!Start, Gateway!Stop, Gateway!Find, Gateway!Updated, Gateway!Drained, Gateway!Deleted,
       Gateway!Created, Gateway!FindAgain, Gateway!PutUrl, Gateway!ListTargets, Alive, Gateway!Live, Gateways,
       GatewayTypes, Signed
  <1>9. /\ gatewaysListed \subseteq Alive /\ Alive \subseteq Gateways /\ id[o] \in Gateways \cup {None}
        /\ \A h \in Gateways : Goes(h) => h \in Alive
    BY DEF GatewayTypes, Alive, Gateway!Live, Gateways, Goes
  <1> HIDE DEF Alive, Gateways, Signed, Goes, Leaves, There
  <1>10. GatewayTypes'
    <2>1. place \in AtWork \cup {"idle", "find", "create", "again", "creating", "targets", "put"}
      BY <1>8 DEF AtWork
    <2>2. g \in Gateways \cup {None}
      BY <1>8, <1>9
    <2> QED
      BY <1>1, <1>3, <1>4, <1>6, <2>1, <2>2 DEF GatewayTypes
  <1>11. SignedOK'
    <2>1. \A h \in Gateways : gateways'[h] = gateways[h]
      BY <1>1
    <2>2. /\ place \in AtWork => g = 1 /\ There(1)
          /\ place = "updating" => (gateways[1].status = "READY" => Signed(1))
          /\ place \in {"create", "again"} => \A h \in Alive : Signed(h)
          /\ place \in {"creating", "targets", "put"} => g \in Gateways /\ Signed(g)
          /\ place = "put" => url' \in Gateways /\ Signed(url')
      BY <1>7, <1>8, <1>9, OneIsAGateway DEF SignedOK, AtWork
    <2>3. \A p \in Operators : run'[p] = "put" => url' \in Gateways /\ Signed(url')
      BY <1>5, <1>7, <2>2 DEF SignedOK
    <2> QED
      BY <1>1, <1>2, <1>5, <2>1, <2>2, <2>3, OneIsAGateway DEF SignedOK
  <1>12. DeletedStays
    <2>1. /\ run[o] = "deleting" => place = "idle" \/ id[o] \notin Alive
          /\ run[o] \in {"drop", "delete"} => place = "idle" \/ (place = "delete" /\ g = id[o])
      BY <1>8
    <2> QED
      BY <1>1, <1>2, <1>5, <1>9, <2>1 DEF DeletedStays, Goes, Leaves, GatewayTypes
  <1>13. ASSUME ~halved, NEW p \in Operators, run'[p] = "put" PROVE Serves'
    <2>1. CASE UNCHANGED url /\ place # "put"
      <3>1. run[p] = "put"
        BY <1>5, <1>13, <2>1
      <3> QED
        BY <1>1, <1>13, <2>1, <3>1, ServesWhile DEF Serves
    <2>2. CASE ~(UNCHANGED url /\ place # "put")
      BY <1>1, <1>7, <2>2 DEF Serves
    <2> QED
      BY <2>1, <2>2
  <1> QED
    BY <1>1, <1>10, <1>11, <1>12, <1>13, DeletedKept

\* A run tells the gateway it works on to change.
LEMMA ChangeKeeps ==
    ASSUME GatewayInv, NEW o \in Operators, Gateway!Remember,
           Gateway!Update(o) \/ Gateway!DeleteTarget(o) \/ Gateway!DeleteGateway(o) \/ Gateway!CreateTarget(o)
    PROVE  GatewayInv'
  <1> USE DEF GatewayInv, Gateway!Goes, Gateway!Becomes
  <1> DEFINE g == id[o]
  <1>1. /\ UNCHANGED <<gatewaysListed, url, id>> /\ Gateways' = Gateways /\ g \in Gateways
        /\ doomed' \in [Operators -> SUBSET Targets]
    BY OneIsAGateway DEF Gateway!Update, Gateway!DeleteTarget, Gateway!DeleteGateway, Gateway!CreateTarget,
       Gateways, SignedOK, AtWork, GatewayTypes
  <1>2. PICK place : /\ run' = [run EXCEPT ![o] = place]
                     /\ \/ run[o] = "update" /\ place \in {"updating", "list"}
                        \/ run[o] = "drop" /\ place = "drop"
                        \/ run[o] = "delete" /\ place = "deleting"
                        \/ run[o] = "targets" /\ place = "targets"
    <2>1. run = [run EXCEPT ![o] = run[o]]
      BY DEF GatewayTypes
    <2> QED
      BY <2>1 DEF Gateway!Update, Gateway!DeleteTarget, Gateway!DeleteGateway, Gateway!CreateTarget
  <1>3. run'[o] = place /\ \A p \in Operators \ {o} : run'[p] = run[p]
    BY <1>2 DEF GatewayTypes
  <1>4. run' \in [Operators -> AtWork \cup {"idle", "find", "create", "again", "creating", "targets", "put"}]
    BY <1>2 DEF GatewayTypes, AtWork
  <1>5. run[o] # "targets" => g = 1 /\ There(1)
    BY <1>2 DEF SignedOK, AtWork
  <1>6. /\ \A h \in Gateways : gateways[h].status \in {"READY", "FAILED"} => h \in Alive
        /\ Alive \subseteq Gateways
    BY DEF GatewayTypes, Alive, Gateway!Live, Gateways
  \* What all four leave as it is.
  <1>7. ASSUME Alive' = Alive, gateways' \in [Gateways -> GatewaySet],
               \A h \in Gateways : /\ Signed(h)' = Signed(h) /\ There(h)' = There(h)
                                   /\ gateways'[h].leaving \subseteq gateways'[h].targets
                                   /\ gateways'[h].status \in {"READY", "CREATING"} => gateways'[h].status = gateways[h].status,
               place = "updating" => gateways'[g].status # "READY"
        PROVE  GatewayTypes' /\ SignedOK'
    <2>1. GatewayTypes'
      BY <1>1, <1>4, <1>7 DEF GatewayTypes
    <2> HIDE DEF Alive, Gateways, Signed, There
    <2>2. SignedOK'
      BY <1>1, <1>2, <1>3, <1>5, <1>7, OneIsAGateway DEF SignedOK, AtWork
    <2> QED
      BY <2>1, <2>2
  <1>8. CASE Gateway!Update(o)
    <2>1. CASE run'[o] = "list" /\ UNCHANGED gateways
      <3>1. Alive' = Alive /\ place = "list"
        BY <1>1, <1>3, <2>1 DEF Alive, Gateway!Live, Gateways
      <3>2. \A h \in Gateways : Signed(h)' = Signed(h) /\ Goes(h)' = Goes(h) /\ Leaves(h)' = Leaves(h) /\ There(h)' = There(h)
        BY <2>1 DEF Signed, Goes, Leaves, There
      <3>3. GatewayTypes' /\ SignedOK'
        BY <1>7, <2>1, <3>1, <3>2 DEF GatewayTypes
      <3>4. DeletedStays /\ (Serves => Serves')
        BY <1>1, <1>2, <1>3, <2>1, <3>1, <3>2 DEF DeletedStays, Serves, Goes, Leaves
      <3> QED
        BY <1>1, <1>2, <1>3, <3>3, <3>4, DeletedKept, ServesWhile
    <2>2. CASE gateways' = [gateways EXCEPT ![g].status = "UPDATING"] /\ gateways[g].status \in {"READY", "FAILED"}
      <3>1. gateways' \in [Gateways -> GatewaySet]
        BY <1>1, <2>2 DEF GatewayTypes, GatewaySet
      <3>2. \A h \in Gateways : /\ Signed(h)' = Signed(h) /\ (Goes(h)' => Goes(h)) /\ Leaves(h)' = Leaves(h)
                                /\ There(h)' = There(h)
                                /\ gateways'[h].targets = gateways[h].targets
                                /\ gateways'[h].leaving = gateways[h].leaving
                                /\ gateways'[h].status \in {"READY", "CREATING"} => gateways'[h].status = gateways[h].status
        BY <2>2 DEF GatewayTypes, GatewaySet, Signed, Goes, Leaves, There
      <3>3. Alive' = Alive /\ gateways'[g].status = "UPDATING"
        BY <1>1, <2>2 DEF GatewayTypes, GatewaySet, Alive, Gateway!Live, Gateways
      <3>4. GatewayTypes' /\ SignedOK'
        BY <1>7, <3>1, <3>2, <3>3 DEF GatewayTypes
      <3>5. DeletedStays /\ (Serves => Serves')
        BY <1>1, <1>2, <1>3, <1>6, <1>8, <3>2, <3>3 DEF Gateway!Update, DeletedStays, Serves
      <3> QED
        BY <1>1, <1>2, <1>3, <3>4, <3>5, DeletedKept, ServesWhile
    <2> QED
      BY <1>8, <2>1, <2>2 DEF Gateway!Update, GatewayTypes
  <1>9. CASE Gateway!DeleteTarget(o)
    <2>1. PICK t \in gateways[g].targets : gateways' = [gateways EXCEPT ![g].leaving = @ \cup {t}]
      BY <1>9 DEF Gateway!DeleteTarget
    <2>2. run[o] = "drop" /\ place = "drop"
      BY <1>2, <1>9 DEF Gateway!DeleteTarget
    <2>3. gateways' \in [Gateways -> GatewaySet]
      BY <1>1, <2>1 DEF GatewayTypes, GatewaySet
    <2>4. \A h \in Gateways : /\ gateways'[h].status = gateways[h].status /\ gateways'[h].auth = gateways[h].auth
                              /\ gateways'[h].targets = gateways[h].targets
                              /\ gateways'[h].leaving \subseteq gateways'[h].targets
                              /\ (h # g => gateways'[h] = gateways[h])
      BY <1>1, <2>1 DEF GatewayTypes, GatewaySet
    <2>5. Alive' = Alive
      BY <1>1, <2>4 DEF Alive, Gateway!Live, Gateways
    <2>6. GatewayTypes' /\ SignedOK'
      BY <1>7, <2>2, <2>3, <2>4, <2>5 DEF Signed, There
    <2>7. DeletedStays
      BY <1>1, <1>3, <2>2, <2>4 DEF DeletedStays, Goes, Leaves
    <2>8. ~halved => \A p \in Operators : run'[p] # "put"
      BY <1>3, <2>2, ServesWhile DEF Gateway!Replaces
    <2> QED
      BY <1>1, <2>6, <2>7, <2>8, DeletedKept
  <1>10. CASE Gateway!DeleteGateway(o)
    <2>1. /\ gateways' = [gateways EXCEPT ![g].status = "DELETING"] /\ gateways[g].targets = {} /\ g \in Alive
          /\ run[o] = "delete" /\ place = "deleting"
      BY <1>2, <1>10 DEF Gateway!DeleteGateway, Alive
    <2>2. gateways' \in [Gateways -> GatewaySet]
      BY <1>1, <2>1 DEF GatewayTypes, GatewaySet
    <2>3. \A h \in Gateways : /\ Signed(h)' = Signed(h) /\ Leaves(h)' = Leaves(h)
                              /\ gateways'[h].targets = gateways[h].targets
                              /\ gateways'[h].leaving = gateways[h].leaving
                              /\ (h # g => gateways'[h] = gateways[h])
      BY <2>1 DEF GatewayTypes, GatewaySet, Signed, Leaves
    <2>4. Alive' = Alive /\ gateways'[g].status = "DELETING" /\ ~Leaves(g) /\ There(g)
      BY <1>1, <2>1 DEF GatewayTypes, GatewaySet, Alive, Gateway!Live, Gateways, Leaves, There
    <2>5. \A h \in Gateways : /\ There(h)' = There(h)
                              /\ gateways'[h].status \in {"READY", "CREATING"} => gateways'[h].status = gateways[h].status
      BY <2>3, <2>4 DEF There
    <2>6. GatewayTypes' /\ SignedOK'
      BY <1>7, <2>1, <2>2, <2>3, <2>4, <2>5 DEF GatewayTypes
    <2>7. DeletedStays
      BY <1>1, <1>3, <2>1, <2>3, <2>4 DEF DeletedStays, Goes
    <2>8. ~halved => \A p \in Operators : run'[p] # "put"
      BY <1>3, <2>1, ServesWhile DEF Gateway!Replaces
    <2> QED
      BY <1>1, <2>6, <2>7, <2>8, DeletedKept
  <1>11. CASE Gateway!CreateTarget(o)
    <2>1. PICK t \in Targets : gateways' = [gateways EXCEPT ![g].targets = @ \cup {t}]
      BY <1>11 DEF Gateway!CreateTarget
    <2>2. run[o] = "targets" /\ place = "targets"
      BY <1>2, <1>11 DEF Gateway!CreateTarget
    <2>3. gateways' \in [Gateways -> GatewaySet]
      BY <1>1, <2>1 DEF GatewayTypes, GatewaySet
    <2>4. \A h \in Gateways : /\ gateways'[h].status = gateways[h].status /\ gateways'[h].auth = gateways[h].auth
                              /\ gateways'[h].leaving = gateways[h].leaving
                              /\ gateways'[h].leaving \subseteq gateways'[h].targets
                              /\ gateways[h].targets \subseteq gateways'[h].targets
      BY <1>1, <2>1 DEF GatewayTypes, GatewaySet
    <2>5. Alive' = Alive
      BY <1>1, <2>4 DEF Alive, Gateway!Live, Gateways
    <2>6. GatewayTypes' /\ SignedOK'
      BY <1>7, <2>2, <2>3, <2>4, <2>5 DEF Signed, There
    <2>7. DeletedStays /\ (Serves => Serves')
      BY <1>1, <1>3, <1>6, <2>2, <2>4, <2>5 DEF DeletedStays, Goes, Leaves, Serves
    <2> QED
      BY <1>1, <1>3, <2>2, <2>6, <2>7, DeletedKept, ServesWhile
  <1> QED
    BY <1>8, <1>9, <1>10, <1>11

LEMMA CreateKeeps ==
    ASSUME GatewayInv, NEW o \in Operators, Gateway!Remember, Gateway!Create(o)
    PROVE  GatewayInv'
  <1> USE DEF GatewayInv, Gateway!Goes, Gateway!Works
  <1>1. UNCHANGED <<gatewaysListed, url, doomed>> /\ Gateways' = Gateways /\ run[o] = "create"
    BY DEF Gateway!Create, Gateways
  <1>2. CASE UNCHANGED <<gateways, id>> /\ run' \in {run, [run EXCEPT ![o] = "again"]}
    <2>1. /\ Alive' = Alive
          /\ \A h \in Gateways : Signed(h)' = Signed(h) /\ Goes(h)' = Goes(h) /\ Leaves(h)' = Leaves(h) /\ There(h)' = There(h)
      BY <1>1, <1>2 DEF Alive, Gateway!Live, Gateways, Signed, Goes, Leaves, There
    <2>2. /\ run'[o] \in {"create", "again"}
          /\ \A p \in Operators \ {o} : run'[p] = run[p]
      BY <1>1, <1>2 DEF GatewayTypes
    <2>3. GatewayTypes'
      BY <1>1, <1>2, <2>1 DEF GatewayTypes, AtWork
    <2> HIDE DEF Alive, Gateways, Signed, There
    <2>4. SignedOK'
      BY <1>1, <1>2, <2>1, <2>2, OneIsAGateway DEF SignedOK, AtWork
    <2>5. DeletedStays /\ (Serves => Serves')
      BY <1>1, <1>2, <2>1, <2>2 DEF DeletedStays, Serves, Goes, Leaves
    <2> QED
      BY <1>1, <2>2, <2>3, <2>4, <2>5, DeletedKept, ServesWhile
  <1>3. ASSUME Alive = {}, NEW g \in Gateways, ~There(g), Gateway!Make(g),
               \/ id' = [id EXCEPT ![o] = g] /\ run' = [run EXCEPT ![o] = "creating"]
               \/ UNCHANGED <<run, id>>
        PROVE  GatewayInv'
    <2>1. gateways' = [gateways EXCEPT ![g] = [auth |-> "AWS_IAM", status |-> "CREATING", targets |-> {}, leaving |-> {}]]
      BY <1>3 DEF Gateway!Make
    <2>2. gateways' \in [Gateways -> GatewaySet]
      BY <2>1 DEF GatewayTypes, GatewaySet
    <2>3. /\ gateways'[g] = [auth |-> "AWS_IAM", status |-> "CREATING", targets |-> {}, leaving |-> {}]
          /\ \A h \in Gateways : h # g => gateways'[h] = gateways[h]
      BY <2>1 DEF GatewayTypes
    <2>4. Alive' = {g}
      BY <1>1, <1>3, <2>3 DEF Alive, Gateway!Live, Gateways
    <2>5. gatewaysListed = {}
      BY <1>3 DEF GatewayTypes
    <2>6. /\ Signed(g)' /\ There(g)' /\ ~Goes(g)' /\ ~Leaves(g)'
          /\ \A h \in Gateways : h # g =>
                Signed(h)' = Signed(h) /\ Goes(h)' = Goes(h) /\ Leaves(h)' = Leaves(h) /\ There(h)' = There(h)
      BY <2>3 DEF Signed, Goes, Leaves, There
    <2>7. /\ \A p \in Operators : \/ run'[p] = run[p] /\ id'[p] = id[p]
                                  \/ p = o /\ run'[o] = "creating" /\ id'[o] = g
          /\ id' \in [Operators -> Gateways \cup {None}]
      BY <1>3 DEF GatewayTypes
    <2>8. GatewayTypes'
      BY <1>1, <1>3, <2>2, <2>3, <2>4, <2>5, <2>7 DEF GatewayTypes, AtWork
    <2> HIDE DEF Alive, Gateways, Signed, There
    <2>9. SignedOK'
      BY <1>1, <1>3, <2>3, <2>4, <2>6, <2>7, OneIsAGateway DEF SignedOK, AtWork
    <2>10. DeletedStays
      BY <1>1, <2>3, <2>6, <2>7 DEF DeletedStays, Goes, Leaves, GatewayTypes
    <2>11. ~halved => \A p \in Operators : run'[p] # "put"
      BY <1>1, <1>3, <2>7, ServesWhile DEF Serves
    <2> QED
      BY <1>1, <2>8, <2>9, <2>10, <2>11, DeletedKept
  <1>4. CASE Gateway!Live = {} /\ Gateway!Unused # {}
    <2> DEFINE g == CHOOSE u \in Gateway!Unused : \A v \in Gateway!Unused : u <= v
    <2>1. Gateway!Unused \in SUBSET Nat /\ Gateway!Unused \subseteq Gateways
      BY DEF Gateway!Unused, Gateway!Ids, Gateways
    <2>2. \E u \in Gateway!Unused : \A v \in Gateway!Unused : u <= v
      BY <1>4, <2>1, LeastNatural
    <2>3. g \in Gateways /\ ~There(g)
      BY <2>1, <2>2 DEF Gateway!Unused, There
    <2>4. \/ UNCHANGED <<gateways, id>> /\ run' \in {run, [run EXCEPT ![o] = "again"]}
          \/ /\ Gateway!Make(g)
             /\ \/ id' = [id EXCEPT ![o] = g] /\ run' = [run EXCEPT ![o] = "creating"]
                \/ UNCHANGED <<run, id>>
      BY <1>4 DEF Gateway!Create
    <2> HIDE DEF g
    <2> QED
      BY <1>2, <1>3, <1>4, <2>3, <2>4 DEF Alive
  <1>5. CASE ~(Gateway!Live = {} /\ Gateway!Unused # {})
    BY <1>2, <1>5 DEF Gateway!Create
  <1> QED
    BY <1>4, <1>5

LEMMA NextGateway ==
    ASSUME GatewayInv, Gateway!GatewayNext
    PROVE  GatewayInv'
  BY ServiceKeeps, LookKeeps, ChangeKeeps, CreateKeeps DEF Gateway!GatewayNext, Gateways

\* The url of a finished run names a gateway that serves.
LEMMA UrlIsServed == GatewayInv => Gateway!UrlServes
  BY DEF GatewayInv, SignedOK, DeletedByRun, Serves, Signed, Alive, Gateway!UrlServes

-----------------------------------------------------------------------------
(* The names of tools (mcp-client.ts).                                     *)

FreeAt(map, n, i) == Candidates[n][i] \in DOMAIN map => map[Candidates[n][i]] = n
FirstFree(map, n, i) == i \in DOMAIN Candidates[n] /\ FreeAt(map, n, i) /\ \A j \in 1 .. i - 1 : ~FreeAt(map, n, j)

\* Each name of the map is the first of its tool's candidates that is not another's.
MapOK(map) ==
    \A c \in DOMAIN map :
        map[c] \in DOMAIN Candidates /\ \E i : FirstFree(map, map[c], i) /\ c = Candidates[map[c]][i]

Extends(more, map) == \A c \in DOMAIN map : c \in DOMAIN more /\ more[c] = map[c]

LEMMA FirstFreeUnique ==
    ASSUME NEW map, NEW n \in DOMAIN Candidates, NEW i, NEW j, FirstFree(map, n, i), FirstFree(map, n, j)
    PROVE  i = j
  <1>1. i \in Nat \ {0} /\ j \in Nat \ {0}
    BY CandidatesAssumption DEF FirstFree
  <1>2. ~(i < j) /\ ~(j < i)
    BY <1>1 DEF FirstFree
  <1> QED
    BY <1>1, <1>2

LEMMA BedrockAt ==
    ASSUME NEW map, NEW n \in DOMAIN Candidates, NEW i, FirstFree(map, n, i)
    PROVE  Bedrock(map, n) = Candidates[n][i]
  <1> DEFINE k == CHOOSE k \in DOMAIN Candidates[n] : FreeAt(map, n, k) /\ \A j \in 1 .. k - 1 : ~FreeAt(map, n, j)
  <1>1. FirstFree(map, n, k)
    BY DEF FirstFree
  <1>2. Bedrock(map, n) = Candidates[n][k]
    BY DEF Bedrock, FreeAt
  <1> HIDE DEF k
  <1> QED
    BY <1>1, <1>2, FirstFreeUnique

\* The fold that gives a list its names.
Steps(it, map, list) ==
    it = [s \in SUBSET (DOMAIN list) |-> IF s = {} THEN map ELSE Named(it[s \ {Max(s)}], list[Max(s)])]

LEMMA NamesIter ==
    ASSUME NEW map, NEW list
    PROVE  \E it : /\ it = CHOOSE g : Steps(g, map, list)
                   /\ FoldLeft(Named, map, list) = it[DOMAIN list]
  BY DEF FoldLeft, MapThenFoldSet, Steps

\* There is a name left for every tool: if others had all of its candidates, there
\* would be more tools than there are.
LEMMA NameLeft ==
    ASSUME NEW map, MapOK(map), NEW n \in DOMAIN Candidates
    PROVE  \E i : FirstFree(map, n, i)
  <1> DEFINE choices == Candidates[n]
             Owners == DOMAIN Candidates \ {n}
             owner == [c \in ToSet(choices) |-> map[c]]
  <1>1. choices \in Seq(Nat) /\ IsFiniteSet(ToSet(choices)) /\ IsFiniteSet(DOMAIN Candidates)
    <2>1. choices \in Seq(Nat) /\ IsFiniteSet(DOMAIN Candidates)
      BY CandidatesAssumption
    <2>2. IsFiniteSet(1 .. Len(choices)) /\ DOMAIN choices = 1 .. Len(choices)
      BY <2>1, FS_Interval
    <2>3. IsFiniteSet({choices[k] : k \in 1 .. Len(choices)})
      BY <2>2, ImageIsFinite
    <2>4. ToSet(choices) = {choices[k] : k \in 1 .. Len(choices)}
      BY <2>2 DEF ToSet
    <2> QED
      BY <2>1, <2>3, <2>4
  <1>2. \E i \in DOMAIN choices : FreeAt(map, n, i)
    <2> SUFFICES ASSUME \A i \in DOMAIN choices : ~FreeAt(map, n, i) PROVE FALSE
      OBVIOUS
    <2>1. \A c \in ToSet(choices) : c \in DOMAIN map /\ map[c] # n
      BY DEF FreeAt, ToSet
    <2>2. \A c \in ToSet(choices) : map[c] \in Owners
      BY <2>1 DEF MapOK
    <2>3. ASSUME NEW c \in ToSet(choices), NEW d \in ToSet(choices), map[c] = map[d] PROVE c = d
      <3>1. PICK i : FirstFree(map, map[c], i) /\ c = Candidates[map[c]][i]
        BY <2>1 DEF MapOK
      <3>2. PICK j : FirstFree(map, map[d], j) /\ d = Candidates[map[d]][j]
        BY <2>1 DEF MapOK
      <3> QED
        BY <2>2, <2>3, <3>1, <3>2, FirstFreeUnique
    <2>4. owner \in Injection(ToSet(choices), Owners)
      <3> HIDE DEF Owners
      <3> QED
        BY <2>2, <2>3 DEF Injection, IsInjective
    <2>5. /\ IsFiniteSet(Owners)
          /\ Cardinality(Owners) = Cardinality(DOMAIN Candidates) - 1
      BY <1>1, FS_RemoveElement
    <2>6. Cardinality(ToSet(choices)) <= Cardinality(Owners)
      <3> HIDE DEF owner, Owners, choices
      <3> QED
        BY <1>1, <2>4, <2>5, FS_Injection
    <2>7. /\ Cardinality(ToSet(choices)) >= Cardinality(DOMAIN Candidates)
          /\ Cardinality(ToSet(choices)) \in Nat /\ Cardinality(DOMAIN Candidates) \in Nat
      BY <1>1, CandidatesAssumption, FS_CardinalityType
    <2> HIDE DEF owner, Owners, choices
    <2> QED
      BY <2>5, <2>6, <2>7
  <1> DEFINE Frees == {i \in DOMAIN choices : FreeAt(map, n, i)}
  <1>3. Frees \in SUBSET Nat /\ Frees # {}
    BY <1>1, <1>2
  <1>4. PICK i \in Frees : \A k \in Frees : i <= k
    <2> HIDE DEF Frees
    <2> QED
      BY <1>3, LeastNatural
  <1>5. FirstFree(map, n, i)
    <2>1. i \in 1 .. Len(choices) /\ DOMAIN choices = 1 .. Len(choices) /\ FreeAt(map, n, i) /\ Len(choices) \in Nat
      BY <1>1, <1>4
    <2>2. \A j \in 1 .. i - 1 : j \in DOMAIN choices /\ ~(i <= j)
      BY <2>1
    <2> QED
      BY <1>4, <2>1, <2>2 DEF FirstFree
  <1> QED
    BY <1>5

\* A name that is given takes no name away, and is the tool's from then on.
LEMMA NamedKeeps ==
    ASSUME NEW map, MapOK(map), NEW n
    PROVE  /\ MapOK(Named(map, n)) /\ Extends(Named(map, n), map)
           /\ n \in DOMAIN Candidates => \E c \in DOMAIN Named(map, n) : Named(map, n)[c] = n
  <1>1. CASE n \notin DOMAIN Candidates
    BY <1>1 DEF Named, Extends
  <1>2. CASE n \in DOMAIN Candidates
    <2>1. PICK i : FirstFree(map, n, i)
      BY <1>2, NameLeft
    <2> DEFINE b == Candidates[n][i]
               more == [c \in DOMAIN map \cup {b} |-> IF c = b THEN n ELSE map[c]]
    <2>2. Named(map, n) = more
      BY <1>2, <2>1, BedrockAt DEF Named
    <2>3. b \in DOMAIN map => map[b] = n
      BY <2>1 DEF FirstFree, FreeAt
    <2>4. /\ DOMAIN more = DOMAIN map \cup {b} /\ more[b] = n
          /\ \A c \in DOMAIN map : more[c] = map[c]
      BY <2>3
    <2> HIDE DEF more, b
    <2>5. ASSUME NEW p \in DOMAIN Candidates, NEW k, FirstFree(map, p, k), more[Candidates[p][k]] = p
          PROVE  FirstFree(more, p, k)
      BY <2>4, <2>5 DEF FirstFree, FreeAt
    <2>6. ASSUME NEW c \in DOMAIN more
          PROVE  more[c] \in DOMAIN Candidates /\ \E k : FirstFree(more, more[c], k) /\ c = Candidates[more[c]][k]
      <3>1. CASE c \in DOMAIN map
        <4>1. PICK k : FirstFree(map, map[c], k) /\ c = Candidates[map[c]][k]
          BY <3>1 DEF MapOK
        <4> QED
          BY <2>4, <2>5, <3>1, <4>1 DEF MapOK
      <3>2. CASE c = b
        BY <1>2, <2>1, <2>4, <2>5, <3>2 DEF b
      <3> QED
        BY <2>4, <2>6, <3>1, <3>2
    <2>7. MapOK(more)
      BY <2>6 DEF MapOK
    <2>8. Extends(more, map)
      BY <2>4 DEF Extends
    <2> QED
      BY <2>2, <2>4, <2>7, <2>8
  <1> QED
    BY <1>1, <1>2

\* The tool that a name of the map stands for is shown by that name.
LEMMA OwnName ==
    ASSUME NEW map, MapOK(map), NEW c \in DOMAIN map
    PROVE  Bedrock(map, map[c]) = c
  BY BedrockAt DEF MapOK

\* The largest of the first numbers, which is the last.
LEMMA LastOfFirst ==
    ASSUME NEW k \in Nat \ {0}
    PROVE  Max(1 .. k) = k /\ (1 .. k) \ {k} = 1 .. k - 1
  <1>1. 1 .. k \in SUBSET Nat /\ IsFiniteSet(1 .. k) /\ 1 .. k # {} /\ k \in 1 .. k
    <2>1. k \in 1 .. k /\ 1 .. k \in SUBSET Nat
      OBVIOUS
    <2>2. k \in Int /\ 1 \in Int
      OBVIOUS
    <2>3. IsFiniteSet(1 .. k)
      BY <2>2, FS_Interval
    <2> QED
      BY <2>1, <2>3
  <1>2. Max(1 .. k) \in 1 .. k /\ \A a \in 1 .. k : a <= Max(1 .. k)
    BY <1>1, MaxOf
  <1>3. Max(1 .. k) = k
    BY <1>1, <1>2
  <1> QED
    BY <1>3

\* The fold exists: the names of a set of places follow from those of the set
\* without its last.
LEMMA StepsExist ==
    ASSUME NEW map, NEW S, NEW list \in Seq(S)
    PROVE  \E it : Steps(it, map, list)
  <1> DEFINE D == DOMAIN list
             Value(g, s) == IF s = {} THEN map ELSE Named(g[s \ {Max(s)}], list[Max(s)])
             Has(n) == \E g : \A s \in SUBSET D : Cardinality(s) <= n => g[s] = Value(g, s)
             Bad == {n \in Nat : ~Has(n)}
  <1>1. D \in SUBSET Nat /\ IsFiniteSet(D)
    BY FS_Interval
  <1>2. \A s \in SUBSET D : IsFiniteSet(s) /\ Cardinality(s) \in Nat /\ Cardinality(s) <= Cardinality(D)
    BY <1>1, FS_Subset, FS_CardinalityType
  <1>3. \A s \in SUBSET D : (Cardinality(s) = 0 <=> s = {})
    BY <1>2, FS_EmptySet
  <1>4. \A s \in SUBSET D : s # {} => Max(s) \in s
    BY <1>1, <1>2, MaxOf
  <1>5. \A s \in SUBSET D : s # {} => Cardinality(s \ {Max(s)}) = Cardinality(s) - 1 /\ s \ {Max(s)} \in SUBSET D
    BY <1>2, <1>4, FS_RemoveElement
  <1> HIDE DEF D
  <1>6. Has(0)
    <2> DEFINE g == [s \in SUBSET D |-> map]
    <2>1. \A s \in SUBSET D : Cardinality(s) <= 0 => s = {} /\ g[s] = map
      BY <1>2, <1>3
    <2> QED
      BY <2>1
  <1>7. ASSUME NEW n \in Nat, Has(n) PROVE Has(n + 1)
    <2>1. PICK g : \A s \in SUBSET D : Cardinality(s) <= n => g[s] = Value(g, s)
      BY <1>7
    <2> DEFINE h == [s \in SUBSET D |-> IF Cardinality(s) <= n THEN g[s] ELSE Value(g, s)]
    <2>2. ASSUME NEW s \in SUBSET D, Cardinality(s) <= n + 1 PROVE h[s] = Value(h, s)
      <3>1. h[s] = Value(g, s)
        BY <2>1
      <3>2. CASE s = {}
        BY <3>1, <3>2
      <3>3. CASE s # {}
        <4>1. s \ {Max(s)} \in SUBSET D /\ Cardinality(s \ {Max(s)}) <= n
          BY <1>2, <1>5, <2>2, <3>3
        <4>2. h[s \ {Max(s)}] = g[s \ {Max(s)}]
          BY <4>1
        <4> HIDE DEF h
        <4> QED
          BY <3>1, <3>3, <4>2
      <3> QED
        BY <3>2, <3>3
    <2> HIDE DEF h, Value
    <2> QED
      BY <2>2
  <1> HIDE DEF Has
  <1>8. \A n \in Nat : Has(n)
    <2> SUFFICES ASSUME Bad # {} PROVE FALSE
      OBVIOUS
    <2>1. PICK n \in Bad : \A k \in Bad : n <= k
      BY LeastNatural
    <2>2. n # 0
      BY <1>6
    <2>3. n - 1 \in Nat /\ n - 1 < n /\ (n - 1) + 1 = n
      BY <2>2
    <2>4. Has(n - 1)
      BY <2>1, <2>3
    <2> QED
      BY <1>7, <2>3, <2>4
  <1>9. PICK g : \A s \in SUBSET D : Cardinality(s) <= Cardinality(D) => g[s] = Value(g, s)
    BY <1>1, <1>8, FS_CardinalityType DEF Has
  <1> DEFINE it == [s \in SUBSET D |-> g[s]]
  <1>10. ASSUME NEW s \in SUBSET D PROVE it[s] = Value(it, s)
    <2>1. it[s] = Value(g, s)
      BY <1>2, <1>9
    <2>2. s # {} => it[s \ {Max(s)}] = g[s \ {Max(s)}]
      BY <1>5
    <2> HIDE DEF it
    <2> QED
      BY <2>1, <2>2
  <1>11. it = [s \in SUBSET D |-> it[s]]
    OBVIOUS
  <1> HIDE DEF it
  <1>12. it = [s \in SUBSET D |-> Value(it, s)]
    <2> HIDE DEF Value
    <2> QED
      BY <1>10, <1>11
  <1> QED
    BY <1>12 DEF Steps, D

\* What the list of a request makes of the map.
LEMMA NamesGiven ==
    ASSUME NEW map, MapOK(map), NEW S, NEW list \in Seq(S), NEW new, new = FoldLeft(Named, map, list)
    PROVE  /\ MapOK(new) /\ Extends(new, map)
           /\ \A i \in DOMAIN list : list[i] \in DOMAIN Candidates =>
                 Bedrock(new, list[i]) \in DOMAIN new /\ new[Bedrock(new, list[i])] = list[i]
  <1>1. PICK it : /\ it = CHOOSE g : Steps(g, map, list)
                  /\ FoldLeft(Named, map, list) = it[DOMAIN list]
    BY NamesIter
  <1>2. Steps(it, map, list)
    BY <1>1, StepsExist
  <1> DEFINE Has(m, n) == \E c \in DOMAIN m : m[c] = n
             Good(k) == LET m == it[1 .. k]
                        IN /\ MapOK(m) /\ Extends(m, map)
                           /\ \A i \in 1 .. k : list[i] \in DOMAIN Candidates => Has(m, list[i])
             Bad == {k \in 0 .. Len(list) : ~Good(k)}
  <1>3. /\ DOMAIN list = 1 .. Len(list) /\ Len(list) \in Nat
        /\ \A k \in 0 .. Len(list) : 1 .. k \in SUBSET (DOMAIN list)
    OBVIOUS
  <1>4. \A s \in SUBSET (DOMAIN list) : it[s] = IF s = {} THEN map ELSE Named(it[s \ {Max(s)}], list[Max(s)])
    BY <1>2 DEF Steps
  <1>5. it[1 .. 0] = map
    <2>1. 1 .. 0 = {} /\ {} \in SUBSET (DOMAIN list)
      OBVIOUS
    <2> QED
      BY <1>4, <2>1
  <1>6. \A k \in 1 .. Len(list) : it[1 .. k] = Named(it[1 .. k - 1], list[k])
    <2> SUFFICES ASSUME NEW k \in 1 .. Len(list) PROVE it[1 .. k] = Named(it[1 .. k - 1], list[k])
      OBVIOUS
    <2>1. k \in Nat \ {0} /\ 1 .. k \in SUBSET (DOMAIN list) /\ 1 .. k # {}
      BY <1>3
    <2>2. Max(1 .. k) = k /\ (1 .. k) \ {k} = 1 .. k - 1
      BY <2>1, LastOfFirst
    <2> QED
      BY <1>4, <2>1, <2>2
  <1>7. \A k \in 0 .. Len(list) : Good(k)
    <2> SUFFICES ASSUME Bad # {} PROVE FALSE
      OBVIOUS
    <2>1. PICK k \in Bad : \A j \in Bad : k <= j
      <3>1. Bad \in SUBSET Nat
        BY <1>3
      <3> HIDE DEF Bad
      <3> QED
        BY <3>1, LeastNatural
    <2>2. k \in 0 .. Len(list) /\ ~Good(k)
      OBVIOUS
    <2>3. Good(0)
      <3>1. \A i \in 1 .. 0 : FALSE
        OBVIOUS
      <3> QED
        BY <1>5, <3>1 DEF Extends
    <2> HIDE DEF Good
    <2>4. k \in 1 .. Len(list) /\ k - 1 \in 0 .. Len(list) /\ ~(k <= k - 1)
      BY <1>3, <2>2, <2>3
    <2>5. Good(k - 1)
      BY <2>1, <2>4
    <2> DEFINE m == it[1 .. k - 1]
               more == Named(m, list[k])
    <2>6. MapOK(m) /\ Extends(m, map) /\ \A i \in 1 .. k - 1 : list[i] \in DOMAIN Candidates => Has(m, list[i])
      BY <2>5 DEF Good
    <2>7. it[1 .. k] = more
      BY <1>6, <2>4
    <2> HIDE DEF m
    <2>8. MapOK(more) /\ Extends(more, m) /\ (list[k] \in DOMAIN Candidates => Has(more, list[k]))
      BY <2>6, NamedKeeps
    <2> HIDE DEF more
    <2>9. Extends(more, map)
      BY <2>6, <2>8 DEF Extends
    <2>10. \A i \in 1 .. k : list[i] \in DOMAIN Candidates => Has(more, list[i])
      <3>1. \A i \in 1 .. k : i = k \/ i \in 1 .. k - 1
        BY <2>4
      <3>2. \A n : Has(m, n) => Has(more, n)
        BY <2>8 DEF Extends
      <3> HIDE DEF Has
      <3> QED
        BY <2>6, <2>8, <3>1, <3>2
    <2> QED
      BY <2>2, <2>7, <2>8, <2>9, <2>10 DEF Good
  <1>8. new = it[1 .. Len(list)] /\ Len(list) \in 0 .. Len(list)
    BY <1>1, <1>3
  <1>9. MapOK(new) /\ Extends(new, map) /\ \A i \in DOMAIN list : list[i] \in DOMAIN Candidates => Has(new, list[i])
    BY <1>3, <1>7, <1>8
  <1>10. ASSUME NEW i \in DOMAIN list, list[i] \in DOMAIN Candidates
         PROVE  Bedrock(new, list[i]) \in DOMAIN new /\ new[Bedrock(new, list[i])] = list[i]
    BY <1>9, <1>10, OwnName
  <1> QED
    BY <1>9, <1>10

\* Names in their order, each once.
ListOK(list) == list \in Seq(ToolNames) /\ \A i, j \in DOMAIN list : i < j => list[i] < list[j]

\* What the model is shown: names of the map for its tools, or the tools' own.
ShownOK(map, shown) ==
    /\ \A i \in DOMAIN shown :
          LET entry == shown[i]
          IN \/ entry.tool \in DOMAIN Candidates /\ entry.name \in DOMAIN map /\ map[entry.name] = entry.tool
             \/ entry.tool \in ToolNames \ DOMAIN Candidates /\ entry.name = entry.tool
    /\ \A i, j \in DOMAIN shown : shown[i].tool = shown[j].tool => i = j

ClientInv ==
    /\ tools \subseteq ToolNames
    /\ MapOK(truncated)
    /\ toolsCache # NoAnswer => ListOK(toolsCache.list)
    /\ asker = [s \in Askers |-> [at |-> asker[s].at, list |-> asker[s].list, shown |-> asker[s].shown]]
    /\ \A s \in Askers : ListOK(asker[s].list) /\ ShownOK(truncated, asker[s].shown)

LEMMA ShownStays ==
    ASSUME NEW map, NEW more, Extends(more, map), NEW shown, ShownOK(map, shown)
    PROVE  ShownOK(more, shown)
  BY DEF ShownOK, Extends

LEMMA EmptyIsOK == ListOK(<<>>) /\ \A map : ShownOK(map, <<>>)
  BY DEF ListOK, ShownOK

LEMMA AscendingIsOK ==
    ASSUME NEW A \in SUBSET ToolNames
    PROVE  LET left == Ascending(A)
           IN /\ left \in Seq(A) /\ ListOK(left)
  <1>1. A \in SUBSET Nat /\ IsFiniteSet(A)
    BY ToolAssumption, FS_Subset
  <1>2. Cardinality(A) \in Nat
    BY <1>1, FS_CardinalityType
  <1> DEFINE left == [i \in 1 .. Cardinality(A) |-> CHOOSE n \in A : Rank(A, n) = i]
  <1>3. Ascending(A) = left
    BY DEF Ascending, Rank
  <1>4. \A i \in 1 .. Cardinality(A) : left[i] \in A /\ Rank(A, left[i]) = i
    BY <1>1, RanksNumber
  <1>5. DOMAIN left = 1 .. Cardinality(A) /\ left = [i \in 1 .. Cardinality(A) |-> left[i]]
    OBVIOUS
  <1> HIDE DEF left
  <1>6. left \in [1 .. Cardinality(A) -> A]
    BY <1>4, <1>5
  <1>7. left \in Seq(A)
    BY <1>2, <1>6
  <1>8. ASSUME NEW i \in DOMAIN left, NEW j \in DOMAIN left, i < j PROVE left[i] < left[j]
    <2>1. left[i] \in A /\ left[j] \in A /\ Rank(A, left[i]) = i /\ Rank(A, left[j]) = j /\ i \in Nat /\ j \in Nat
      BY <1>4, <1>5
    <2>2. left[i] # left[j]
      BY <1>8, <2>1
    <2>3. ~(left[j] < left[i])
      <3> SUFFICES ASSUME left[j] < left[i] PROVE FALSE
        OBVIOUS
      <3>1. Rank(A, left[j]) < Rank(A, left[i])
        BY <1>1, <2>1, RanksRise
      <3> QED
        BY <1>8, <2>1, <3>1
    <2>4. left[i] \in Nat /\ left[j] \in Nat
      BY <1>1, <2>1
    <2> QED
      BY <2>2, <2>3, <2>4
  <1>9. left \in Seq(ToolNames)
    BY <1>7
  <1> QED
    BY <1>3, <1>7, <1>8, <1>9 DEF ListOK

\* A page goes on where the list ends.
LEMMA PageIsOK ==
    ASSUME NEW list, ListOK(list), NEW A \in SUBSET ToolNames, \A n \in A : \A i \in DOMAIN list : n > list[i],
           NEW k \in Nat, k <= Len(Ascending(A))
    PROVE  ListOK(list \o SubSeq(Ascending(A), 1, k))
  <1> DEFINE left == Ascending(A)
             page == SubSeq(left, 1, k)
             whole == list \o page
  <1>1. left \in Seq(A) /\ ListOK(left)
    BY AscendingIsOK
  <1> HIDE DEF left
  <1>2. /\ page \in Seq(A) /\ Len(page) = k
        /\ \A i \in 1 .. k : page[i] = left[i] /\ i \in DOMAIN left /\ page[i] \in A
    <2>1. Len(left) \in Nat /\ DOMAIN left = 1 .. Len(left) /\ k <= Len(left)
      BY <1>1 DEF left
    <2>2. page = [i \in 1 .. k |-> left[i]]
      BY <2>1
    <2>3. \A i \in 1 .. k : i \in DOMAIN left /\ left[i] \in A
      BY <1>1, <2>1
    <2> HIDE DEF page
    <2>4. page \in [1 .. k -> A] /\ DOMAIN page = 1 .. k
      BY <2>2, <2>3
    <2> QED
      BY <2>2, <2>3, <2>4
  <1> HIDE DEF page
  <1>3. list \in Seq(ToolNames) /\ page \in Seq(ToolNames)
    BY <1>2 DEF ListOK
  <1>4. whole \in Seq(ToolNames) /\ DOMAIN whole = 1 .. Len(list) + k
    BY <1>2, <1>3
  <1>5. /\ \A i \in DOMAIN whole : i <= Len(list) => whole[i] = list[i] /\ i \in DOMAIN list
        /\ \A i \in DOMAIN whole : i > Len(list) => whole[i] = page[i - Len(list)] /\ i - Len(list) \in 1 .. k
    BY <1>2, <1>3
  <1> HIDE DEF whole
  <1>6. ASSUME NEW i \in DOMAIN whole, NEW j \in DOMAIN whole, i < j PROVE whole[i] < whole[j]
    <2>0. i \in Nat /\ j \in Nat /\ Len(list) \in Nat
      BY <1>3, <1>4
    <2>1. CASE j <= Len(list)
      <3>1. i <= Len(list)
        BY <1>6, <2>0, <2>1
      <3> QED
        BY <1>5, <1>6, <2>1, <3>1 DEF ListOK
    <2>2. CASE i > Len(list)
      <3>1. j > Len(list) /\ i - Len(list) < j - Len(list)
        BY <1>6, <2>0, <2>2
      <3> QED
        BY <1>1, <1>2, <1>5, <2>2, <3>1 DEF ListOK
    <2>3. CASE i <= Len(list) /\ j > Len(list)
      <3>1. whole[i] = list[i] /\ i \in DOMAIN list /\ whole[j] \in A
        BY <1>2, <1>5, <2>3
      <3>2. list[i] \in ToolNames /\ whole[j] \in ToolNames
        BY <1>3, <3>1
      <3>3. list[i] \in Nat /\ whole[j] \in Nat
        BY <3>2, ToolAssumption
      <3>4. whole[j] > list[i]
        BY <3>1
      <3> QED
        BY <3>1, <3>3, <3>4
    <2> QED
      BY <2>0, <2>1, <2>2, <2>3
  <1> QED
    BY <1>4, <1>6 DEF ListOK, whole, page, left

\* What toBedrockTools makes of a list is shown under names that stay.
LEMMA ListIsShown ==
    ASSUME ClientInv, NEW s \in Askers, NEW list, ListOK(list), ToBedrockTools(s, list)
    PROVE  /\ MapOK(truncated') /\ Extends(truncated', truncated)
           /\ asker' = [r \in Askers |-> [at |-> asker'[r].at, list |-> asker'[r].list, shown |-> asker'[r].shown]]
           /\ \A r \in Askers : ListOK(asker'[r].list) /\ ShownOK(truncated', asker'[r].shown)
  <1> DEFINE new == FoldLeft(Named, truncated, list)
             shown == [i \in DOMAIN list |-> [name |-> Bedrock(new, list[i]), tool |-> list[i]]]
  <1>1. truncated' = new /\ asker' = [asker EXCEPT ![s] = [at |-> "shown", list |-> <<>>, shown |-> shown]]
    BY DEF ToBedrockTools
  <1>2. /\ MapOK(new) /\ Extends(new, truncated)
        /\ \A i \in DOMAIN list : list[i] \in DOMAIN Candidates =>
              Bedrock(new, list[i]) \in DOMAIN new /\ new[Bedrock(new, list[i])] = list[i]
    BY NamesGiven DEF ClientInv, ListOK
  <1> HIDE DEF new
  <1>3. ShownOK(new, shown)
    <2>1. \A i \in DOMAIN list : list[i] \in ToolNames /\ (list[i] \notin DOMAIN Candidates => Bedrock(new, list[i]) = list[i])
      BY DEF ListOK, Bedrock
    <2>2. /\ DOMAIN shown = DOMAIN list
          /\ \A i \in DOMAIN list : shown[i].tool = list[i] /\ shown[i].name = Bedrock(new, list[i])
      OBVIOUS
    <2>3. \A i, j \in DOMAIN list : list[i] = list[j] => i = j
      <3>1. \A i \in DOMAIN list : i \in Nat /\ list[i] \in Nat
        <4>1. \A i \in DOMAIN list : i \in Nat /\ list[i] \in ToolNames
          BY DEF ListOK
        <4> QED
          BY <4>1, ToolAssumption
      <3> QED
        BY <3>1 DEF ListOK
    <2> HIDE DEF shown
    <2> QED
      BY <1>2, <2>1, <2>2, <2>3 DEF ShownOK
  <1> HIDE DEF shown
  <1>4. /\ asker'[s].list = <<>> /\ asker'[s].shown = shown
        /\ asker'[s] = [at |-> asker'[s].at, list |-> asker'[s].list, shown |-> asker'[s].shown]
        /\ \A r \in Askers : r # s => asker'[r] = asker[r]
        /\ asker' = [r \in Askers |-> asker'[r]]
    BY <1>1 DEF ClientInv
  <1>5. \A r \in Askers : asker'[r] = [at |-> asker'[r].at, list |-> asker'[r].list, shown |-> asker'[r].shown]
    BY <1>4 DEF ClientInv
  <1>6. asker' = [r \in Askers |-> [at |-> asker'[r].at, list |-> asker'[r].list, shown |-> asker'[r].shown]]
    BY <1>4, <1>5
  <1>7. \A r \in Askers : ListOK(asker'[r].list) /\ ShownOK(truncated', asker'[r].shown)
    BY <1>1, <1>2, <1>3, <1>4, EmptyIsOK, ShownStays DEF ClientInv
  <1> QED
    BY <1>1, <1>2, <1>6, <1>7

LEMMA InitClient == ClientInit => ClientInv
  <1> SUFFICES ASSUME ClientInit PROVE ClientInv
    OBVIOUS
  <1>1. MapOK(truncated)
    BY DEF ClientInit, NoMap, MapOK
  <1>2. /\ asker = [s \in Askers |-> [at |-> asker[s].at, list |-> asker[s].list, shown |-> asker[s].shown]]
        /\ \A s \in Askers : asker[s].list = <<>> /\ asker[s].shown = <<>>
    BY DEF ClientInit
  <1> QED
    BY <1>1, <1>2, EmptyIsOK DEF ClientInv, ClientInit

\* A step that changes one request's place and its list.
LEMMA OneAsks ==
    ASSUME ClientInv, NEW s \in Askers, NEW list, ListOK(list), NEW place, Lists(s, place, list),
           UNCHANGED <<tools, toolsCache, truncated>>
    PROVE  ClientInv'
  <1>1. /\ asker'[s] = [at |-> place, list |-> list, shown |-> <<>>]
        /\ \A r \in Askers : r # s => asker'[r] = asker[r]
        /\ asker' = [r \in Askers |-> asker'[r]]
    BY DEF ClientInv, Lists
  <1>2. \A r \in Askers : asker'[r] = [at |-> asker'[r].at, list |-> asker'[r].list, shown |-> asker'[r].shown]
    BY <1>1 DEF ClientInv
  <1>3. asker' = [r \in Askers |-> [at |-> asker'[r].at, list |-> asker'[r].list, shown |-> asker'[r].shown]]
    BY <1>1, <1>2
  <1>4. \A r \in Askers : ListOK(asker'[r].list) /\ ShownOK(truncated', asker'[r].shown)
    BY <1>1, EmptyIsOK DEF ClientInv
  <1> QED
    BY <1>3, <1>4 DEF ClientInv

LEMMA NextClient ==
    ASSUME ClientInv, ClientNext
    PROVE  ClientInv'
  <1>1. CASE Redeploy \/ ToolTick
    BY <1>1 DEF Redeploy, ToolTick, ClientInv
  <1>2. ASSUME NEW s \in Askers, ListCached(s) \/ ListPages(s) \/ ListPage(s) \/ ListFails(s) \/ Ended(s)
        PROVE  ClientInv'
    <2>1. CASE ListCached(s)
      <3>1. ListOK(toolsCache.list) /\ ToBedrockTools(s, toolsCache.list) /\ UNCHANGED <<tools, toolsCache>>
        BY <2>1 DEF ListCached, Fresh, ClientInv
      <3> QED
        BY <3>1, ListIsShown DEF ClientInv
    <2>2. CASE ListPages(s) \/ ListFails(s) \/ Ended(s)
      <3>1. PICK place : Lists(s, place, <<>>) /\ UNCHANGED <<tools, toolsCache, truncated>>
        BY <2>2 DEF ListPages, ListFails, Ended
      <3> QED
        BY <3>1, EmptyIsOK, OneAsks
    <2>3. CASE ListPage(s)
      <3> DEFINE l == asker[s].list
                 rest == {n \in tools : \A i \in DOMAIN l : n > l[i]}
                 left == Ascending(rest)
                 upto == Min({ToolPage, Len(left)})
                 page == l \o SubSeq(left, 1, upto)
      <3>1. rest \in SUBSET ToolNames /\ \A n \in rest : \A i \in DOMAIN l : n > l[i]
        BY DEF ClientInv
      <3>2. \/ /\ Lists(s, "listing", page) /\ UNCHANGED <<tools, toolsCache, truncated>>
            \/ /\ toolsCache' = [list |-> page, at |-> toolClock] /\ ToBedrockTools(s, page) /\ UNCHANGED tools
        BY <2>3 DEF ListPage
      <3>0. ListOK(l)
        BY DEF ClientInv
      <3> HIDE DEF l, rest
      <3>3. Len(left) \in Nat
        BY <3>1, AscendingIsOK
      <3> HIDE DEF left
      <3>4. upto \in Nat /\ upto <= Len(left)
        <4>1. \E x \in {ToolPage, Len(left)} : \A y \in {ToolPage, Len(left)} : x <= y
          BY <3>3, ToolAssumption
        <4>2. upto \in {ToolPage, Len(left)} /\ \A y \in {ToolPage, Len(left)} : upto <= y
          BY <4>1 DEF Min
        <4> QED
          BY <3>3, <4>2, ToolAssumption
      <3> HIDE DEF upto
      <3>5. ListOK(page)
        BY <3>0, <3>1, <3>4, PageIsOK DEF left
      <3> HIDE DEF page
      <3>6. CASE Lists(s, "listing", page) /\ UNCHANGED <<tools, toolsCache, truncated>>
        BY <3>5, <3>6, OneAsks
      <3>7. CASE toolsCache' = [list |-> page, at |-> toolClock] /\ ToBedrockTools(s, page) /\ UNCHANGED tools
        BY <3>5, <3>7, ListIsShown DEF ClientInv
      <3> QED
        BY <3>2, <3>6, <3>7
    <2> QED
      BY <1>2, <2>1, <2>2, <2>3
  <1> QED
    BY <1>1, <1>2 DEF ClientNext

\* What is shown is what is called, but for a name that was given away.
LEMMA NamesAreKept == ClientInv => ToolsKeepTheirNames
  <1> SUFFICES ASSUME ClientInv, NEW s \in Askers
               PROVE  LET shown == asker[s].shown IN
                      /\ \A i \in DOMAIN shown :
                            shown[i].tool \in GivenAway \/ RestoreToolName(shown[i].name) = shown[i].tool
                      /\ \A i, j \in DOMAIN shown :
                            shown[i].name = shown[j].name
                               => i = j \/ {shown[i].tool, shown[j].tool} \cap GivenAway # {}
    <2>1. ClientInv => DOMAIN asker = Askers
      BY DEF ClientInv
    <2> QED
      BY <2>1 DEF ToolsKeepTheirNames
  <1> DEFINE shown == asker[s].shown
  <1>1. ShownOK(truncated, shown) /\ MapOK(truncated)
    BY DEF ClientInv
  <1> HIDE DEF shown
  <1>2. \A i \in DOMAIN shown : shown[i].tool \in GivenAway \/ RestoreToolName(shown[i].name) = shown[i].tool
    BY <1>1 DEF ShownOK, RestoreToolName, GivenAway
  <1>3. \A i, j \in DOMAIN shown :
          shown[i].name = shown[j].name => i = j \/ {shown[i].tool, shown[j].tool} \cap GivenAway # {}
    BY <1>1, <1>2 DEF ShownOK
  <1> QED
    BY <1>2, <1>3 DEF shown

-----------------------------------------------------------------------------
(* The dashboard as a server of tools (middleware.ts, api/mcp).            *)

Paths == {"health", "static", "api", "page", "mcp"}
Bodies == {"unparsable", "no request", "request"}

\* A request, whatever its presigned part and its call, and an environment.
AnyRequest ==
    [path : Paths, origin : BOOLEAN, scheme : {"sts", "bearer"}, sts : {AnyPresigned} \cup Presigned,
             token : BOOLEAN, session : BOOLEAN, body : Bodies, call : {AnyCall} \cup Methods]
AnyEnvironment == [secret : BOOLEAN, disabled : BOOLEAN, token : BOOLEAN, account : {1}, allowed : {{"user", "runtime"}}]

LEMMA RequestsAreSuch == Calls \subseteq AnyRequest
  <1> SUFFICES ASSUME NEW req \in Calls PROVE req \in AnyRequest
    OBVIOUS
  <1> QED
    BY DEF Calls, AnyRequest, Paths, Bodies

LEMMA EnvironmentsAreSuch == Environments \subseteq AnyEnvironment
  BY DEF Environments, AnyEnvironment

Given(req, env, works) ==
    IF ~Admitted(req, env) THEN Status(Refusal(req, env))
    ELSE IF req.path = "mcp" THEN McpRoute(req, works) ELSE Status(Handled)

\* What an answer shows of who may ask, for any request and environment.
LEMMA AnswerHolds ==
    ASSUME NEW req \in AnyRequest, NEW env \in AnyEnvironment, NEW works \in BOOLEAN
    PROVE  /\ Admitted(req, [env EXCEPT !.disabled = TRUE]) # Admitted(req, [env EXCEPT !.disabled = FALSE])
                => req.path \in {"page", "api"} /\ Perimeter(req, env) /\ ~req.session
           /\ req.path = "mcp" => Admitted(req, env) = Admitted([req EXCEPT !.session = ~@], env)
           /\ req.path = "mcp" /\ req.scheme = "sts"
                => Admitted(req, env) = Admitted([req EXCEPT !.token = ~@], [env EXCEPT !.token = ~@])
           /\ Given(req, env, works).reply # <<>> => req.origin \/ ~env.secret
           /\ Given(req, env, works).http \in {200, 204} =>
                 /\ (Given(req, env, works).reply = <<>>) = (req.call.method = "notification")
                 /\ \A i \in DOMAIN Given(req, env, works).reply : Given(req, env, works).reply[i].id = req.call.id
  <1> DEFINE given == Given(req, env, works)
  <1>1. \A e, f : /\ McpCaller(req, e) \in BOOLEAN /\ Perimeter(req, e) \in BOOLEAN
                  /\ Admitted(req, e) \in BOOLEAN
    BY DEF McpCaller, Perimeter, Admitted
  <1>2. ASSUME NEW d \in BOOLEAN
        PROVE  LET e == [env EXCEPT !.disabled = d]
               IN /\ e.disabled = d /\ McpCaller(req, e) = McpCaller(req, env) /\ Perimeter(req, e) = Perimeter(req, env)
    BY DEF AnyEnvironment, McpCaller, Perimeter, IsAllowed
  <1>3. Admitted(req, [env EXCEPT !.disabled = TRUE]) # Admitted(req, [env EXCEPT !.disabled = FALSE])
          => req.path \in {"page", "api"} /\ Perimeter(req, env) /\ ~req.session
    BY <1>1, <1>2 DEF Admitted, Public, AnyRequest, Paths
  <1>4. req.path = "mcp" => Admitted(req, env) = Admitted([req EXCEPT !.session = ~@], env)
    BY DEF Admitted, AnyRequest, Perimeter, McpCaller
  <1>5. req.path = "mcp" /\ req.scheme = "sts"
          => Admitted(req, env) = Admitted([req EXCEPT !.token = ~@], [env EXCEPT !.token = ~@])
    BY DEF Admitted, AnyRequest, AnyEnvironment, Perimeter, McpCaller, IsAllowed
  <1>6. given.reply # <<>> => req.path = "mcp" /\ Admitted(req, env) /\ given = McpRoute(req, works)
    BY DEF Given, Status
  <1>7. given.reply # <<>> => req.origin \/ ~env.secret
    BY <1>6 DEF Admitted, Perimeter
  <1>8. given.http \in {200, 204} => req.path = "mcp" /\ Admitted(req, env) /\ given = McpRoute(req, works)
    <2>1. ~Admitted(req, env) => Refusal(req, env) \in {403, 404, 401, 302}
      BY DEF Admitted, Refusal, Public, AnyRequest, Paths
    <2> QED
      BY <2>1 DEF Given, Status, Handled
  <1>9. given = McpRoute(req, works) /\ given.http \in {200, 204} => given.reply = HandleMcpRequest(req.call, works)
    <2>0. CASE req.body = "request" /\ req.call.method = "malformed"
      <3>1. McpRoute(req, works).http = 500
        BY <2>0 DEF McpRoute, Status
      <3> QED
        BY <3>1
    <2>1. CASE req.body = "request" /\ req.call.method # "malformed"
      BY <2>1 DEF McpRoute
    <2>2. CASE req.body # "request"
      <3>1. McpRoute(req, works).http = 400
        BY <2>2 DEF McpRoute
      <3> QED
        BY <3>1
    <2> QED
      BY <2>0, <2>1, <2>2
  <1>10. LET reply == HandleMcpRequest(req.call, works)
         IN /\ (reply = <<>>) = (req.call.method = "notification")
            /\ \A i \in DOMAIN reply : reply[i].id = req.call.id
    BY DEF HandleMcpRequest
  <1> QED
    BY <1>3, <1>4, <1>5, <1>7, <1>8, <1>9, <1>10

\* Whoever calls is answered as configured.
LEMMA ServeKeeps == ServeNext(Calls, Environments) => CallersAreAnswered'
  <1> SUFFICES ASSUME ServeNext(Calls, Environments) PROVE CallersAreAnswered'
    OBVIOUS
  <1>1. PICK req \in Calls, env \in Environments, works \in BOOLEAN :
          served' = [req |-> req, env |-> env,
                     answer |-> IF ~Admitted(req, env) THEN Status(Refusal(req, env))
                                ELSE IF req.path = "mcp" THEN McpRoute(req, works) ELSE Status(Handled)]
    BY DEF ServeNext
  <1>2. req \in AnyRequest /\ env \in AnyEnvironment
    BY RequestsAreSuch, EnvironmentsAreSuch
  <1> DEFINE given == Given(req, env, works)
  <1>3. served'.req = req /\ served'.env = env /\ served'.answer = given
    BY <1>1 DEF Given
  <1>4. /\ Admitted(req, [env EXCEPT !.disabled = TRUE]) # Admitted(req, [env EXCEPT !.disabled = FALSE])
             => req.path \in {"page", "api"} /\ Perimeter(req, env) /\ ~req.session
        /\ req.path = "mcp" => Admitted(req, env) = Admitted([req EXCEPT !.session = ~@], env)
        /\ req.path = "mcp" /\ req.scheme = "sts"
             => Admitted(req, env) = Admitted([req EXCEPT !.token = ~@], [env EXCEPT !.token = ~@])
        /\ given.reply # <<>> => req.origin \/ ~env.secret
        /\ given.http \in {200, 204} =>
              /\ (given.reply = <<>>) = (req.call.method = "notification")
              /\ \A i \in DOMAIN given.reply : given.reply[i].id = req.call.id
    BY <1>2, AnswerHolds
  <1> HIDE DEF given
  <1> QED
    BY <1>3, <1>4 DEF CallersAreAnswered

-----------------------------------------------------------------------------
(* The three together.                                                     *)

ToolInv ==
    /\ stack = "gateway" => GatewayInv
    /\ IF stack = "client" THEN ClientInv ELSE DOMAIN asker = {}
    /\ CallersAreAnswered

LEMMA InitToolInv == Init => ToolInv
  <1> SUFFICES ASSUME Init PROVE ToolInv
    OBVIOUS
  <1>1. stack = "gateway" => GatewayInv
    BY InitGateway DEF Init
  <1>2. IF stack = "client" THEN ClientInv ELSE DOMAIN asker = {}
    BY InitClient DEF Init, ClientRest
  <1>3. CallersAreAnswered
    BY DEF Init, CallersAreAnswered
  <1> QED
    BY <1>1, <1>2, <1>3 DEF ToolInv

LEMMA NextToolInv == ToolInv /\ [Next]_<<stack, scriptState, toolState>> => ToolInv'
  <1> SUFFICES ASSUME ToolInv, [Next]_<<stack, scriptState, toolState>> PROVE ToolInv'
    OBVIOUS
  <1>1. stack' = stack
    BY DEF Next
  <1>2. stack = "gateway" => GatewayInv'
    <2> SUFFICES ASSUME stack = "gateway" PROVE GatewayInv'
      OBVIOUS
    <2>1. CASE Gateway!GatewayNext
      BY <2>1, NextGateway DEF ToolInv
    <2>2. CASE ~Gateway!GatewayNext
      <3>1. UNCHANGED gatewayState
        BY <2>2 DEF Next, scriptState
      <3> QED
        BY <3>1 DEF ToolInv, gatewayState, GatewayInv, GatewayTypes, SignedOK, DeletedByRun, Gateways, Alive,
           Gateway!Live, Signed, Goes, Leaves, There, Serves, Gateway!Replaces
    <2> QED
      BY <2>1, <2>2
  <1>3. IF stack = "client" THEN ClientInv' ELSE DOMAIN asker' = {}
    <2>1. CASE stack = "client" /\ ClientNext
      BY <2>1, NextClient DEF ToolInv
    <2>2. CASE ~(stack = "client" /\ ClientNext)
      <3>1. UNCHANGED clientVars
        BY <2>2 DEF Next, toolState
      <3> QED
        BY <3>1 DEF ToolInv, clientVars, ClientInv
    <2> QED
      BY <2>1, <2>2
  <1>4. CallersAreAnswered'
    <2>1. CASE ServeNext(Calls, Environments)
      BY <2>1, ServeKeeps
    <2>2. CASE ~ServeNext(Calls, Environments)
      <3>1. served' = served
        BY <2>2 DEF Next, toolState
      <3> QED
        BY <3>1 DEF ToolInv, CallersAreAnswered
    <2> QED
      BY <2>1, <2>2
  <1> QED
    BY <1>1, <1>2, <1>3, <1>4 DEF ToolInv

\* The url of a finished run serves, a name that is shown stays its tool's, and
\* callers are admitted and answered as configured (create_gateway.py, mcp-client.ts,
\* middleware.ts, api/mcp).
THEOREM ToolsAreServed == Spec => []ToolsAreReached
  <1>1. Spec => []ToolInv
    BY InitToolInv, NextToolInv, PTL DEF Spec
  <1>2. ToolInv => ToolsAreReached
    <2> SUFFICES ASSUME ToolInv PROVE ToolsAreReached
      OBVIOUS
    <2>1. stack = "gateway" => Gateway!UrlServes
      BY UrlIsServed DEF ToolInv
    <2>2. ToolsKeepTheirNames
      <3>1. CASE stack = "client"
        BY <3>1, NamesAreKept DEF ToolInv
      <3>2. CASE stack # "client"
        BY <3>2 DEF ToolInv, ToolsKeepTheirNames
      <3> QED
        BY <3>1, <3>2
    <2>3. CallersAreAnswered
      BY DEF ToolInv
    <2> QED
      BY <2>1, <2>2, <2>3 DEF ToolsAreReached
  <1> QED
    BY <1>1, <1>2, PTL

-----------------------------------------------------------------------------
(* The two custom resources.                                               *)

USE RequestAssumption, BackupAssumption

Requests == {"Create", "Update", "Delete"}
Processed == Clusters \ todo   \* the clusters an invocation is done with

\* What is to be of a cluster by the end of an invocation that did not fail on it.
Done(c) ==
    c \in edited \/
        IF request = "Delete" THEN corefile[c] \in written[c] /\ backup[c] = None
        ELSE corefile[c].form = "logs" \/ (corefile[c].form = "closed" /\ corefile[c] \in written[c])

\* The script makes no file but those that log.
FileTypes ==
    /\ \A c \in Clusters : corefile[c].form = "logs" \/ corefile[c] \in written[c]
    /\ corefile \in [Clusters -> Corefiles]
    /\ backup \in [Clusters -> Corefiles \cup {None}]
    /\ written \in [Clusters -> SUBSET Corefiles]

\* What was read is still good to be written.
SeenOK ==
    /\ seen \in [file : Corefiles, backup : Corefiles \cup {None}]
    /\ request = "Delete" => seen.backup # None
    /\ seen.backup # None => seen.backup \in written[cluster]
    /\ seen.backup = None => seen.file \in written[cluster]
    /\ request # "Delete" => seen.file.form = "open"

\* The function is where the outstanding request put it.
ResourceOK == request \in Requests \cup {None} /\ todo \subseteq Clusters /\ (at # "idle" => request # None)

DnsInv ==
    /\ ResourceOK /\ at \in {"idle", "next", "read", "patch", "revoke"}
    /\ at \in {"read", "patch", "revoke"} => cluster \in todo
    /\ at = "patch" => SeenOK
    /\ at # "idle" => \A c \in Processed : (c \in admin => c \in unrevoked) /\ (c \in failed \/ Done(c))
    /\ at = "revoke" => cluster \in failed \/ Done(cluster)
    /\ SuccessIsWholeDns

Whole(c) == addons[c] = {"identity", "agent"} /\ role[c] # "none" /\ c \in assoc

OnboardInv ==
    /\ ResourceOK
    /\ at \in {"idle", "scope", "next", "identity", "role", "attach", "assoc", "agent", "done"}
    /\ addons \in [Clusters -> SUBSET {"identity", "agent"}]
    /\ role \in [Clusters -> {"none", "bare", "ready"}]
    /\ at \in {"identity", "role", "attach", "assoc", "agent"} =>
          onboarded \in todo /\ listed \subseteq addons[onboarded]
    /\ at \in {"role", "attach", "assoc", "agent"} => "identity" \in addons[onboarded]
    /\ at \in {"attach", "assoc", "agent"} => role[onboarded] # "none"
    /\ at = "agent" => onboarded \in assoc
    /\ at = "scope" => todo = Clusters
    /\ at = "done" => request = "Delete"
    /\ at \notin {"idle", "scope", "done"} => scope /\ \A c \in Processed : Whole(c)
    /\ SuccessIsWholeOnboarding

IInv ==
    /\ FileTypes /\ Reversible
    /\ stack = "dns" => DnsInv
    /\ stack = "onboarding" => OnboardInv
-----------------------------------------------------------------------------
\* Nothing is outstanding at first.
LEMMA InitIInv == Init => IInv
  BY DEF Init, InitResource, CorednsInit, OnboardInit, IInv, FileTypes, Reversible, Plain, Corefiles,
         DnsInv, ResourceOK, SuccessIsWholeDns, OnboardInv, SuccessIsWholeOnboarding, Onboarded

\* An admin's edit is one of the files that admins wrote.
LEMMA EditDns ==
    ASSUME FileTypes, Reversible, DnsInv, NEW c \in Clusters, Edit(c)
    PROVE  FileTypes' /\ Reversible' /\ DnsInv'
  <1>1. PICK form \in {"logs", "open", "closed"} :
            LET new == [text |-> corefile[c].text + 1, form |-> form]
            IN corefile' = [corefile EXCEPT ![c] = new] /\ written' = [written EXCEPT ![c] = @ \cup {new}]
    BY DEF Edit
  <1> DEFINE new == [text |-> corefile[c].text + 1, form |-> form]
  <1>2. corefile[c] \in Corefiles
    BY DEF FileTypes
  <1>3. new \in Corefiles
    <2>1. corefile[c].text \in Nat
      BY <1>2 DEF Corefiles
    <2> QED
      BY <2>1 DEF Corefiles
  <1> HIDE DEF new
  <1>4. corefile' = [corefile EXCEPT ![c] = new] /\ written' = [written EXCEPT ![c] = @ \cup {new}]
    BY <1>1 DEF new
  <1>5. UNCHANGED <<resource, backup, admin, cluster, tried, seen, unrevoked>> /\ edited' = edited \cup {c}
    BY DEF Edit
  <1>6. FileTypes'
    BY <1>3, <1>4, <1>5 DEF FileTypes
  <1>7. \A d \in Clusters : written[d] \subseteq written'[d] /\ (d # c => corefile'[d] = corefile[d])
    BY <1>4 DEF FileTypes
  <1>8. Reversible'
    BY <1>4, <1>5, <1>7 DEF Reversible, FileTypes
  <1>9. \A d \in Clusters : Done(d) => Done(d)'
    BY <1>5, <1>7 DEF Done, resource
  <1>10. SeenOK /\ cluster \in Clusters => SeenOK'
    BY <1>5, <1>7 DEF SeenOK, resource
  <1>11. SuccessIsWholeDns'
    BY <1>5, <1>7 DEF DnsInv, SuccessIsWholeDns, resource
  <1>12. DnsInv'
    BY <1>5, <1>9, <1>10, <1>11 DEF DnsInv, ResourceOK, Processed, resource
  <1> QED
    BY <1>6, <1>8, <1>12

\* What add_log_plugin leaves as it is.
LEMMA FilesLeft == \A file \in Corefiles : WithLog(file) = file <=> file.form # "open"
  BY DEF WithLog, Corefiles

\* Requests, invocations, kills and answers change no Corefile.
LEMMA LifeDns ==
    ASSUME FileTypes, Reversible, DnsInv, CorednsRequest \/ CorednsInvoke \/ CorednsDies \/ CorednsReply
    PROVE  FileTypes' /\ Reversible' /\ DnsInv'
  <1>1. UNCHANGED <<corefile, backup, written>>
    BY DEF CorednsRequest, CorednsInvoke, CorednsDies, CorednsReply, Aside, corednsVars
  <1>2. FileTypes' /\ Reversible'
    BY <1>1 DEF FileTypes, Reversible
  <1>3. CASE CorednsRequest
    BY <1>1, <1>2, <1>3 DEF CorednsRequest, SendRequest, DnsInv, ResourceOK, Requests, SuccessIsWholeDns
  <1>4. CASE CorednsInvoke
    BY <1>1, <1>2, <1>4 DEF CorednsInvoke, Invoke, DnsInv, ResourceOK, Processed, SuccessIsWholeDns
  <1>5. CASE CorednsDies
    <2>1. CASE Die
      BY <1>1, <1>2, <1>5, <2>1 DEF CorednsDies, Die, Rest, DnsInv, ResourceOK, SuccessIsWholeDns, Aside
    <2>2. CASE TimeOut
      BY <1>1, <1>2, <1>5, <2>2 DEF CorednsDies, TimeOut, Reply, Rest, DnsInv, ResourceOK, SuccessIsWholeDns, Aside
    <2> QED
      BY <1>5, <2>1, <2>2 DEF CorednsDies
  <1>6. CASE CorednsReply
    <2>1. at = "next" /\ request \in Requests /\ UNCHANGED corednsVars
      BY <1>6 DEF CorednsReply, DnsInv, ResourceOK
    <2>2. PICK status : Reply(status) /\ (status = "ok" => todo = {} /\ failed = {})
      BY <1>6 DEF CorednsReply, Outcome, Caught
    <2>3. answer' = "ok" => \A c \in Clusters : (c \in admin => c \in unrevoked) /\ Done(c)
      BY <2>1, <2>2 DEF DnsInv, Processed, Reply
    <2>4. SuccessIsWholeDns'
      BY <2>1, <2>2, <2>3 DEF SuccessIsWholeDns, Done, Reply, corednsVars
    <2> QED
      BY <1>2, <2>1, <2>2, <2>4 DEF DnsInv, ResourceOK, Reply, Rest
  <1> QED
    BY <1>2, <1>3, <1>4, <1>5, <1>6

\* The loop over the clusters, but for the patch.
LEMMA LoopDns ==
    ASSUME FileTypes, Reversible, DnsInv, Grant \/ Read \/ Denied \/ Break \/ Revoke
    PROVE  FileTypes' /\ Reversible' /\ DnsInv'
  <1>1. UNCHANGED <<corefile, backup, written, edited, request, last, answer>> /\ at # "idle"
    BY DEF Grant, Read, Denied, Break, Revoke, Then, Aside
  <1>2. FileTypes' /\ Reversible'
    BY <1>1 DEF FileTypes, Reversible
  <1>3. \A c \in Clusters : Done(c)' <=> Done(c)
    BY <1>1 DEF Done
  <1>4. SuccessIsWholeDns' /\ request \in Requests
    BY <1>1 DEF DnsInv, ResourceOK, SuccessIsWholeDns
  <1>5. CASE Grant
    BY <1>1, <1>2, <1>3, <1>4, <1>5 DEF Grant, DnsInv, ResourceOK, Processed
  <1>6. CASE Read
    <2>1. /\ cluster \in Clusters /\ cluster \in todo
          /\ cluster' = cluster /\ todo' = todo /\ UNCHANGED <<admin, unrevoked, failed>>
      BY <1>6 DEF Read, Then, DnsInv, ResourceOK
    <2>2. seen' = [file |-> corefile[cluster], backup |-> backup[cluster]]
      BY <1>6 DEF Read
    <2>3. at' = IF Settled(corefile[cluster], backup[cluster]) THEN "revoke" ELSE "patch"
      BY <1>6 DEF Read, Then
    <2>8. corefile[cluster] \in Corefiles /\ backup[cluster] \in Corefiles \cup {None}
      BY <2>1 DEF FileTypes
    <2>9. request # "Delete" => (Settled(corefile[cluster], backup[cluster]) <=> corefile[cluster].form # "open")
      BY <2>8, FilesLeft DEF Settled
    <2>4. at' = "patch" => SeenOK'
      BY <1>1, <2>1, <2>2, <2>3, <2>8, <2>9 DEF SeenOK, Settled, FileTypes, Reversible
    <2>5. at' = "revoke" => Done(cluster)'
      <3>1. CASE request = "Delete"
        BY <1>1, <2>1, <2>3, <3>1 DEF Settled, Done, Reversible
      <3>2. CASE request # "Delete"
        BY <1>1, <2>1, <2>3, <2>8, <2>9, <3>2 DEF Done, FileTypes, Corefiles
      <3> QED
        BY <3>1, <3>2
    <2>6. at' \in {"revoke", "patch"}
      BY <2>3
    <2>7. \A c \in Processed' : ((c \in admin => c \in unrevoked) /\ (c \in failed \/ Done(c)))'
      BY <1>1, <1>3, <2>1 DEF DnsInv, Processed
    <2> QED
      BY <1>1, <1>2, <1>4, <2>1, <2>4, <2>5, <2>6, <2>7 DEF DnsInv, ResourceOK
  <1>7. CASE Denied \/ Break
    <2>1. /\ cluster \in todo /\ cluster' = cluster /\ todo' = todo /\ UNCHANGED <<admin, unrevoked>>
          /\ failed \subseteq failed' /\ at' \in {"read", "revoke"}
          /\ at' = "revoke" => cluster \in failed'
      BY <1>7 DEF Denied, Break, Then, DnsInv
    <2> QED
      BY <1>1, <1>2, <1>3, <1>4, <2>1 DEF DnsInv, ResourceOK, Processed
  <1>8. CASE Revoke
    BY <1>1, <1>2, <1>3, <1>4, <1>8 DEF Revoke, DnsInv, ResourceOK, Processed
  <1> QED
    BY <1>5, <1>6, <1>7, <1>8

\* A patch writes what its admins wrote, or keeps that beside what it writes.
LEMMA PatchDns ==
    ASSUME FileTypes, Reversible, DnsInv, Patch
    PROVE  FileTypes' /\ Reversible' /\ DnsInv'
  <1>1. /\ cluster \in Clusters /\ cluster \in todo /\ SeenOK /\ request \in Requests
        /\ at' = "revoke" /\ failed \subseteq failed'
        /\ UNCHANGED <<request, last, answer, todo, admin, cluster, unrevoked, written, edited>>
    BY DEF Patch, PatchMap, Write, Then, DnsInv, ResourceOK
  <1>2. PICK file, kept : /\ corefile' = [corefile EXCEPT ![cluster] = file]
                          /\ backup' = [backup EXCEPT ![cluster] = kept]
                          /\ request = "Delete" => file = seen.backup /\ kept = None
                          /\ request # "Delete" => file = WithLog(seen.file)
                                /\ kept = IF seen.backup = None THEN seen.file ELSE seen.backup
    BY DEF Patch, PatchMap, Write
  <1>3. seen.file \in Corefiles /\ seen.backup \in Corefiles \cup {None}
    BY <1>1 DEF SeenOK
  <1>4. /\ WithLog(seen.file) \in Corefiles
        /\ request # "Delete" => WithLog(seen.file).form = "logs"
    BY <1>1, <1>3 DEF SeenOK, WithLog, Corefiles
  <1>5. file \in Corefiles /\ kept \in Corefiles \cup {None}
    BY <1>1, <1>2, <1>3, <1>4 DEF SeenOK
  <1>6. FileTypes'
    <2>1. file.form = "logs" \/ file \in written[cluster]
      BY <1>1, <1>2, <1>4 DEF SeenOK
    <2> QED
      BY <1>1, <1>2, <1>5, <2>1 DEF FileTypes
  <1>7. /\ corefile'[cluster] = file /\ backup'[cluster] = kept
        /\ \A c \in Clusters \ {cluster} : corefile'[c] = corefile[c] /\ backup'[c] = backup[c]
    BY <1>1, <1>2 DEF FileTypes
  <1>8. /\ file \in written[cluster] \/ kept # None
        /\ kept # None => kept \in written[cluster]
    BY <1>1, <1>2, <1>3 DEF SeenOK
  <1>9. Reversible'
    BY <1>1, <1>7, <1>8 DEF Reversible
  <1>10. Done(cluster)'
    BY <1>1, <1>2, <1>4, <1>7 DEF Done, SeenOK
  <1>11. \A c \in Processed : c \in Clusters /\ c # cluster /\ (Done(c) => Done(c)')
    BY <1>1, <1>7 DEF Processed, Done
  <1>12. SuccessIsWholeDns'
    BY <1>1 DEF SuccessIsWholeDns, Requests
  <1>13. \A c \in Processed' : ((c \in admin => c \in unrevoked) /\ (c \in failed \/ Done(c)))'
    <2>1. at # "idle" /\ Processed' = Processed
      BY <1>1 DEF Patch, Processed
    <2> QED
      BY <1>1, <1>11, <2>1 DEF DnsInv
  <1>14. ResourceOK'
    BY <1>1 DEF DnsInv, ResourceOK, Requests
  <1>15. at' = "revoke" => (cluster \in failed \/ Done(cluster))'
    BY <1>10
  <1>16. DnsInv'
    BY <1>1, <1>12, <1>13, <1>14, <1>15 DEF DnsInv
  <1> QED
    BY <1>6, <1>9, <1>16

LEMMA NextDns ==
    ASSUME FileTypes, Reversible, DnsInv, CorednsNext
    PROVE  FileTypes' /\ Reversible' /\ DnsInv'
  <1>1. CASE \E c \in Clusters : Edit(c)
    BY <1>1, EditDns
  <1>2. CASE CorednsRequest \/ CorednsInvoke \/ CorednsDies \/ CorednsReply
    BY <1>2, LifeDns
  <1>3. CASE Grant \/ Read \/ Denied \/ Break \/ Revoke
    BY <1>3, LoopDns
  <1>4. CASE Patch
    BY <1>4, PatchDns
  <1> QED
    BY <1>1, <1>2, <1>3, <1>4 DEF CorednsNext

\* Requests, invocations, kills and answers take nothing away.
LEMMA LifeOnboard ==
    ASSUME OnboardInv, OnboardRequest \/ OnboardInvoke \/ OnboardDies \/ OnboardReply
    PROVE  OnboardInv'
  <1>1. UNCHANGED <<scope, addons, role, assoc, monitors>>
    BY DEF OnboardRequest, OnboardInvoke, OnboardDies, OnboardReply, onboardVars
  <1>2. CASE OnboardRequest
    BY <1>1, <1>2 DEF OnboardRequest, SendRequest, onboardVars, OnboardInv, ResourceOK, Requests, Processed, Whole,
       SuccessIsWholeOnboarding, Onboarded
  <1>3. CASE OnboardInvoke
    BY <1>1, <1>3 DEF OnboardInvoke, Invoke, onboardVars, OnboardInv, ResourceOK, Requests,
       SuccessIsWholeOnboarding, Onboarded
  <1>4. CASE OnboardDies
    <2>1. CASE Die
      BY <1>1, <1>4, <2>1 DEF OnboardDies, Die, Rest, OnboardInv, ResourceOK, SuccessIsWholeOnboarding, Onboarded
    <2>2. CASE TimeOut
      BY <1>1, <1>4, <2>2 DEF OnboardDies, TimeOut, Reply, Rest, OnboardInv, ResourceOK,
         SuccessIsWholeOnboarding, Onboarded
    <2> QED
      BY <1>4, <2>1, <2>2 DEF OnboardDies
  <1>5. CASE OnboardReply
    <2>1. PICK status :
             /\ Reply(status)
             /\ status = "ok" => at = "done" \/ (at = "next" /\ todo = {} /\ Desired \subseteq monitors)
      BY <1>5 DEF OnboardReply
    <2>2. at # "idle" /\ request \in Requests
      BY <1>5 DEF OnboardReply, OnboardInv, ResourceOK
    <2>3. status = "ok" /\ request # "Delete" =>
             scope /\ Desired \subseteq monitors /\ \A c \in Clusters : Whole(c)
      BY <2>1, <2>2 DEF OnboardInv, Processed
    <2>4. SuccessIsWholeOnboarding'
      BY <1>1, <2>1, <2>2, <2>3 DEF Reply, SuccessIsWholeOnboarding, Onboarded, Whole
    <2> QED
      BY <1>1, <2>1, <2>4 DEF Reply, Rest, OnboardInv, ResourceOK
  <1> QED
    BY <1>2, <1>3, <1>4, <1>5

\* What is made for a cluster stays, and the cluster is done with when it is whole.
LEMMA LoopOnboard ==
    ASSUME OnboardInv,
           EnsureScope \/ ListAddons \/ IdentityAddon \/ CreateRole \/ AttachPolicy
              \/ Associate \/ AgentAddon \/ CreateMonitor
    PROVE  OnboardInv'
  <1>1. UNCHANGED <<request, last, answer>> /\ at # "idle"
    BY DEF EnsureScope, ListAddons, IdentityAddon, CreateRole, AttachPolicy, Associate, AgentAddon, CreateMonitor,
           Goto, resource
  <1>2. SuccessIsWholeOnboarding' /\ request \in Requests
    BY <1>1 DEF OnboardInv, ResourceOK, SuccessIsWholeOnboarding, Onboarded
  <1>3. CASE EnsureScope
    BY <1>1, <1>2, <1>3 DEF EnsureScope, Goto, OnboardInv, ResourceOK, Processed
  <1>4. CASE ListAddons
    BY <1>1, <1>2, <1>4 DEF ListAddons, Goto, OnboardInv, ResourceOK, Processed, Whole
  <1>5. CASE IdentityAddon
    <2>1. onboarded \in Clusters /\ listed \subseteq addons[onboarded]
      BY <1>5 DEF IdentityAddon, OnboardInv, ResourceOK
    <2>2. /\ addons' \in [Clusters -> SUBSET {"identity", "agent"}] /\ "identity" \in addons'[onboarded]
          /\ \A c \in Clusters : addons[c] \subseteq addons'[c]
      BY <1>5, <2>1 DEF IdentityAddon, CreateAddon, OnboardInv
    <2>3. \A c \in Clusters : Whole(c) => Whole(c)'
      BY <1>5, <2>2 DEF IdentityAddon, Whole
    <2> QED
      BY <1>1, <1>2, <1>5, <2>1, <2>2, <2>3 DEF IdentityAddon, Goto, OnboardInv, ResourceOK, Processed
  <1>6. CASE CreateRole
    <2>1. onboarded \in Clusters /\ onboarded \in todo /\ at = "role" /\ at' \in {"attach", "assoc"}
      BY <1>6 DEF CreateRole, Goto, OnboardInv, ResourceOK
    <2>2. /\ role' \in [Clusters -> {"none", "bare", "ready"}] /\ role'[onboarded] # "none"
          /\ \A c \in Clusters \ {onboarded} : role'[c] = role[c]
      BY <1>6, <2>1 DEF CreateRole, OnboardInv
    <2>3. UNCHANGED <<scope, addons, assoc, monitors, onboarded, listed, todo>>
      BY <1>6 DEF CreateRole, Goto
    <2>4. \A c \in Clusters : Whole(c) => Whole(c)'
      BY <2>2, <2>3 DEF Whole
    <2> QED
      BY <1>1, <1>2, <2>1, <2>2, <2>3, <2>4 DEF OnboardInv, ResourceOK, Processed
  <1>7. CASE AttachPolicy
    <2>1. onboarded \in Clusters /\ onboarded \in todo /\ at = "attach" /\ at' = "assoc"
      BY <1>7 DEF AttachPolicy, Goto, OnboardInv, ResourceOK
    <2>2. /\ role' \in [Clusters -> {"none", "bare", "ready"}] /\ role'[onboarded] # "none"
          /\ \A c \in Clusters \ {onboarded} : role'[c] = role[c]
      BY <1>7, <2>1 DEF AttachPolicy, OnboardInv
    <2>3. UNCHANGED <<scope, addons, assoc, monitors, onboarded, listed, todo>>
      BY <1>7 DEF AttachPolicy, Goto
    <2>4. \A c \in Clusters : Whole(c) => Whole(c)'
      BY <2>2, <2>3 DEF Whole
    <2> QED
      BY <1>1, <1>2, <2>1, <2>2, <2>3, <2>4 DEF OnboardInv, ResourceOK, Processed
  <1>8. CASE Associate
    BY <1>1, <1>2, <1>8 DEF Associate, Goto, OnboardInv, ResourceOK, Processed, Whole
  <1>9. CASE AgentAddon
    <2>1. onboarded \in Clusters /\ at = "agent" /\ at' = "next" /\ todo' = todo \ {onboarded}
      BY <1>9 DEF AgentAddon, OnboardInv, ResourceOK
    <2>2. listed \subseteq addons[onboarded] /\ "identity" \in addons[onboarded]
          /\ role[onboarded] # "none" /\ onboarded \in assoc
      BY <2>1 DEF OnboardInv
    <2>3. /\ addons' \in [Clusters -> SUBSET {"identity", "agent"}] /\ addons'[onboarded] = {"identity", "agent"}
          /\ \A c \in Clusters : addons[c] \subseteq addons'[c]
      BY <1>9, <2>1, <2>2 DEF AgentAddon, CreateAddon, OnboardInv
    <2>4. UNCHANGED <<scope, role, assoc, monitors>>
      BY <1>9 DEF AgentAddon
    <2>5. \A c \in Clusters : Whole(c) => Whole(c)'
      BY <2>2, <2>3, <2>4 DEF Whole
    <2>6. \A c \in Clusters \ todo' : Whole(c)'
      <3>1. \A c \in Clusters : (addons'[c] = {"identity", "agent"} /\ role'[c] # "none" /\ c \in assoc') <=> Whole(c)'
        BY DEF Whole
      <3>2. (addons'[onboarded] = {"identity", "agent"} /\ role'[onboarded] # "none" /\ onboarded \in assoc')
        BY <2>2, <2>3, <2>4
      <3> QED
        BY <2>1, <2>5, <3>1, <3>2 DEF OnboardInv, Processed
    <2> QED
      BY <1>1, <1>2, <2>1, <2>3, <2>4, <2>6 DEF OnboardInv, ResourceOK, Processed
  <1>10. CASE CreateMonitor
    BY <1>2, <1>10 DEF CreateMonitor, resource, OnboardInv, ResourceOK, Processed, Whole
  <1> QED
    BY <1>3, <1>4, <1>5, <1>6, <1>7, <1>8, <1>9, <1>10

LEMMA NextIInv == IInv /\ [Next]_<<stack, scriptState, toolState>> => IInv'
  <1> SUFFICES ASSUME IInv, [Next]_<<stack, scriptState, toolState>> PROVE IInv'
    OBVIOUS
  <1>1. stack' = stack
    BY DEF Next
  <1>2. CASE stack = "dns"
    <2>1. CASE CorednsNext
      BY <1>1, <1>2, <2>1, NextDns DEF IInv
    <2>2. CASE ~CorednsNext
      <3>1. UNCHANGED <<scriptState, toolState>>
        BY <1>2, <2>2 DEF Next
      <3> QED
        BY <1>1, <1>2, <3>1 DEF IInv, scriptState, resource, corednsVars, FileTypes, Reversible, DnsInv, ResourceOK,
           Processed, Done, SeenOK, SuccessIsWholeDns
    <2> QED
      BY <2>1, <2>2
  <1>3. CASE stack = "onboarding"
    <2>1. UNCHANGED corednsVars
      BY <1>3 DEF Next, scriptState
    <2>2. FileTypes' /\ Reversible'
      BY <2>1 DEF IInv, FileTypes, Reversible, corednsVars
    <2>3. CASE OnboardNext
      BY <1>1, <1>3, <2>2, <2>3, LifeOnboard, LoopOnboard DEF IInv, OnboardNext
    <2>4. CASE ~OnboardNext
      <3>1. UNCHANGED <<scriptState, toolState>>
        BY <1>3, <2>4 DEF Next
      <3> QED
        BY <1>1, <1>3, <2>2, <3>1 DEF IInv, scriptState, resource, onboardVars, OnboardInv, ResourceOK,
           Processed, Whole, SuccessIsWholeOnboarding, Onboarded
    <2> QED
      BY <2>3, <2>4
  <1>4. CASE stack \notin {"dns", "onboarding"}
    <2>1. UNCHANGED corednsVars
      BY <1>4 DEF Next, scriptState
    <2> QED
      BY <1>1, <1>4, <2>1 DEF IInv, FileTypes, Reversible, corednsVars
  <1> QED
    BY <1>2, <1>3, <1>4

LEMMA Invariance == Spec => []IInv
  BY InitIInv, NextIInv, PTL DEF Spec

\* Whatever is interrupted, denied, lost or edited, a Corefile that is not its
\* admins' own comes with a backup that is (enable_coredns_log.py, patch_map).
THEOREM CorefilesAreReversible == Spec => []Reversible
  <1>1. IInv => Reversible
    BY DEF IInv
  <1> QED
    BY Invariance, <1>1, PTL

\* A success answered by either custom resource is true of every cluster
\* (enable_coredns_log.py, cfn_outcome and handler; onboard_nfm.py, handler).
THEOREM SuccessesAreWhole == Spec => []SuccessIsWhole
  <1>1. IInv => SuccessIsWhole
    BY DEF IInv, SuccessIsWhole, DnsInv, OnboardInv
  <1> QED
    BY Invariance, <1>1, PTL
=============================================================================
