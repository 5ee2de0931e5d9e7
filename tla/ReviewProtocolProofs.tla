------------------------ MODULE ReviewProtocolProofs ------------------------
(***************************************************************************)
(* Proofs about the specialist review, for any roster, number of runners,  *)
(* attempts, preparations and launches.                                    *)
(*                                                                         *)
(* The inductive invariant has four parts over the types.  LockInv: a lock *)
(* has one living holder, and the result it found when it was taken is     *)
(* still there.  NonceInv: a request is answered by one runner.  SaidInv:  *)
(* an answer on its way to the slot, and one in it, is what the provider   *)
(* said to the request that is there.  VerdictInv: nobody is at work once  *)
(* the results are aggregated, so what the aggregation saw stays.          *)
(***************************************************************************)
EXTENDS ReviewProtocol, Integers, TLAPS

USE TagAssumption, NumberAssumption, NoneAssumption

Pcs == {"idle", "issue", "archived", "preflight", "call", "record", "write"}

RunnerRecord ==
    [pc : Pcs, tag : Tags \cup {None}, nonce : Nat, plan : Nat, first : BOOLEAN,
     left : Int, out : ResultRecord]

TypeInv ==
    /\ TypeOK
    /\ runner \in [Runners -> RunnerRecord]
    /\ \A r \in Runners : runner[r].pc # "idle" => runner[r].tag \in Tags

Slot(r) == slot[runner[r].tag]
Holds(r) == runner[r].pc \in {"archived", "write"}

LockInv ==
    /\ \A r \in Runners : Holds(r) => Slot(r).lock
    /\ \A r, s \in Runners : Holds(r) /\ Holds(s) /\ runner[r].tag = runner[s].tag => r = s
    /\ \A r \in Runners : runner[r].pc = "archived" =>
         /\ Slot(r).result.kind \notin Sound
         /\ Slot(r).result.kind = "terminal" => "terminal" \in Slot(r).flags
    /\ \A r \in Runners : runner[r].pc = "write" => Slot(r).result.kind = None

\* A runner between its receipt and the result it writes.
Asking(r) == runner[r].pc \in {"preflight", "call", "record"}
Sending(r) == Asking(r) \/ runner[r].pc = "write"

NonceInv ==
    /\ \A t \in Tags : slot[t].request.nonce <= nonce[t]
    /\ \A r \in Runners : Sending(r) =>
         runner[r].nonce > 0 /\ runner[r].nonce <= nonce[runner[r].tag]
    /\ \A r, s \in Runners :
         Sending(r) /\ Sending(s) /\ runner[r].tag = runner[s].tag
           /\ runner[r].nonce = runner[s].nonce => r = s
    /\ \A r \in Runners : Sending(r) /\ Slot(r).request.nonce = runner[r].nonce =>
         Slot(r).request.plan = runner[r].plan
    /\ \A r \in Runners : Asking(r) => Slot(r).result.nonce # runner[r].nonce
    /\ \A r \in Runners : runner[r].pc = "write" =>
         /\ runner[r].out.nonce \in {0, runner[r].nonce}
         /\ runner[r].out.kind \in Sound => runner[r].out.nonce = runner[r].nonce

SaidInv ==
    /\ \A r \in Runners :
         /\ runner[r].pc = "record" /\ runner[r].out.kind \in Sound
         /\ Slot(r).request.nonce = runner[r].nonce
         => said[runner[r].tag] = [nonce |-> runner[r].nonce, plan |-> runner[r].plan,
                                   kind |-> runner[r].out.kind]
    /\ \A r \in Runners :
         /\ runner[r].pc = "write" /\ runner[r].out.kind \in Sound
         /\ Slot(r).request.nonce = runner[r].out.nonce
         => said[runner[r].tag] = runner[r].out
    /\ \A t \in Tags :
         /\ slot[t].result.kind \in Sound
         /\ slot[t].request.nonce = slot[t].result.nonce
         => said[t] = slot[t].result

SpentInv ==
    \A t \in spent : "terminal" \in slot[t].flags \/ slot[t].result.kind = "terminal"

Supported == plan.complete /\ spent = {} /\ \A t \in plan.required : Validated(t)

VerdictInv ==
    /\ phase # "reviewing" => Running = {}
    /\ phase = "chair" => mode = "review" /\ Supported /\ verdict = None
    /\ verdict = "PASS" =>
         /\ phase = "published" /\ Supported
         /\ mode = "review" \/ \A t \in plan.required : slot[t].result.kind # "major"

IInv == TypeInv /\ LockInv /\ NonceInv /\ SaidInv /\ SpentInv /\ VerdictInv
-----------------------------------------------------------------------------
\* Nothing is prepared and nobody runs at first.
LEMMA InitIInv == Init => IInv
  BY DEF Init, IInv, TypeInv, TypeOK, SlotRecord, RunnerRecord, ResultRecord, Kinds, Sound, Pcs, Free,
         EmptySlot, NoRequest, NoResult, LockInv, NonceInv, SaidInv, SpentInv, VerdictInv,
         Holds, Asking, Sending, Slot, Running

LEMMA EmptyTyped == NoRequest \in [nonce : Nat, plan : Nat] /\ NoResult \in ResultRecord
  BY DEF NoRequest, NoResult, ResultRecord

\* A preparation empties the slots, whoever is at work in them.
LEMMA PrepareIInv ==
    ASSUME IInv, NEW required \in Routes, NEW complete \in BOOLEAN,
           NEW new \in BOOLEAN, NEW fresh \in BOOLEAN,
           Prepare(required, complete, new, fresh)
    PROVE  IInv'
  <1> DEFINE lock(t) == IF fresh THEN FALSE ELSE slot[t].lock
             flags(t) == IF fresh THEN {} ELSE slot[t].flags \cap {"preflight"}
             emptied(t) == [request |-> NoRequest, result |-> NoResult, claim |-> FALSE,
                            lock |-> lock(t), attempts |-> 0, flags |-> flags(t)]
  <1>1. slot' = [t \in Tags |-> emptied(t)]
    <2>1. ASSUME NEW t \in Tags PROVE slot'[t] = emptied(t)
      <3>1. CASE fresh
        BY <3>1 DEF Prepare, EmptySlot
      <3>2. CASE ~fresh
        BY <3>2 DEF Prepare, EmptySlot
      <3> QED
        BY <3>1, <3>2
    <2> HIDE DEF emptied
    <2> QED
      BY <2>1 DEF Prepare
  <1>2. /\ runner' = runner /\ nonce' = nonce /\ spent' = {}
        /\ phase' = "reviewing" /\ verdict' = None
        /\ \A t \in Tags : said'[t] = NoResult
        /\ fresh => \A r \in Runners : runner[r].pc = "idle"
    BY DEF Prepare, Running
  <1>3. TypeInv'
    <2>1. slot' \in [Tags -> SlotRecord]
      <3>1. ASSUME NEW t \in Tags PROVE emptied(t) \in SlotRecord
        <4>1. lock(t) \in BOOLEAN /\ flags(t) \subseteq {"duplicate", "terminal", "preflight"}
          BY DEF IInv, TypeInv, TypeOK, SlotRecord
        <4> HIDE DEF lock, flags
        <4> QED
          BY <4>1, EmptyTyped DEF SlotRecord
      <3> HIDE DEF emptied
      <3> QED
        BY <1>1, <3>1
    <2>2. plan' \in [content : Nat, required : SUBSET Tags, complete : BOOLEAN]
      <3>1. CASE new
        <4>1. plan' = [content |-> plan.content + 1, required |-> required, complete |-> complete]
          BY <3>1 DEF Prepare
        <4> QED
          BY <4>1 DEF Routes, IInv, TypeInv, TypeOK
      <3>2. CASE ~new
        <4>1. plan' = [content |-> plan.content, required |-> plan.required,
                       complete |-> plan.complete]
          BY <3>2 DEF Prepare
        <4> QED
          BY <4>1 DEF IInv, TypeInv, TypeOK
      <3> QED
        BY <3>1, <3>2
    <2>3. said' \in [Tags -> ResultRecord] /\ chair' \in Nat
      BY DEF Prepare, NoResult, ResultRecord
    <2> QED
      BY <1>2, <2>1, <2>2, <2>3 DEF IInv, TypeInv, TypeOK
  <1> USE DEF IInv, TypeInv
  <1>4. \A r \in Runners : runner[r].pc # "idle" =>
          /\ runner[r].tag \in Tags
          /\ Slot(r)'.request.nonce = 0 /\ Slot(r)'.result.nonce = 0
          /\ Slot(r)'.result.kind = None /\ (fresh \/ Slot(r)'.lock = Slot(r).lock)
    BY <1>1, <1>2 DEF Slot, NoResult, NoRequest
  <1>5. LockInv'
    BY <1>2, <1>4 DEF LockInv, Holds, Sound
  <1>6. NonceInv'
    <2>1. \A t \in Tags : slot'[t].request.nonce = 0 /\ nonce[t] \in Nat
      BY <1>1 DEF NoRequest, TypeOK
    <2> QED
      BY <1>2, <1>4, <2>1 DEF NonceInv, Sending, Asking
  <1>7. SaidInv'
    <2>1. \A t \in Tags : slot'[t].result.kind = None
      BY <1>1 DEF NoResult
    <2>2. \A r \in Runners : Sending(r) => runner[r].nonce > 0
      BY DEF NonceInv
    <2>3. \A r \in Runners : Asking(r)' = Asking(r)
      BY <1>2 DEF Asking
    <2>4. \A r \in Runners : runner[r].pc = "write" /\ runner[r].out.kind \in Sound =>
            runner[r].out.nonce > 0
      BY <2>2 DEF NonceInv, Sending
    <2> QED
      BY <1>2, <1>4, <2>1, <2>2, <2>4 DEF SaidInv, Sending, Asking, Sound
  <1>8. SpentInv' /\ VerdictInv'
    BY <1>2 DEF SpentInv, VerdictInv
  <1> QED
    BY <1>3, <1>5, <1>6, <1>7, <1>8
\* Whoever works does so while results are being gathered.
LEMMA AtWork ==
    ASSUME IInv, NEW r \in Runners, runner[r].pc # "idle"
    PROVE  phase = "reviewing" /\ verdict # "PASS" /\ runner[r].tag \in Tags
  BY DEF IInv, TypeInv, VerdictInv, Running

\* A step of runner r that takes or gives up no lock, request or result.
Quiet(r) ==
    /\ UNCHANGED <<phase, plan, mode, verdict, nonce, spent>>
    /\ \A s \in Runners \ {r} : runner'[s] = runner[s]
    /\ runner'[r].pc \in {"idle", "issue", "preflight", "call", "record"}
    /\ \/ runner'[r].pc \in {"idle", "issue"}
       \/ /\ Asking(r)
          /\ runner'[r].tag = runner[r].tag /\ runner'[r].nonce = runner[r].nonce
          /\ runner'[r].plan = runner[r].plan
    /\ \A t \in Tags :
          /\ slot'[t].request = slot[t].request /\ slot'[t].result = slot[t].result
          /\ slot'[t].lock = slot[t].lock /\ slot[t].flags \subseteq slot'[t].flags

LEMMA QuietIInv ==
    ASSUME IInv, TypeInv', NEW r \in Runners, Quiet(r), phase = "reviewing", SaidInv'
    PROVE  IInv'
  <1> USE DEF IInv
  <1>1. /\ \A s \in Runners \ {r} : Slot(s)' = slot'[runner[s].tag]
        /\ \A s \in Runners : runner'[s].pc # "idle" => runner'[s].tag \in Tags
    BY DEF Slot, Quiet, TypeInv
  <1>2. LockInv'
    BY <1>1 DEF LockInv, Holds, Slot, Quiet, TypeInv
  <1>3. NonceInv'
    <2>1. \A s \in Runners : Sending(s)' =>
            /\ Sending(s) /\ runner'[s].tag = runner[s].tag /\ runner[s].tag \in Tags
            /\ runner'[s].nonce = runner[s].nonce /\ runner'[s].plan = runner[s].plan
            /\ Asking(s)' => Asking(s)
            /\ runner'[s].pc = "write" => s # r
      BY DEF Sending, Asking, Quiet, TypeInv
    <2>2. \A s \in Runners : Sending(s)' =>
            Slot(s)'.request = Slot(s).request /\ Slot(s)'.result = Slot(s).result
      BY <2>1 DEF Slot, Quiet
    <2>3. \A s \in Runners : (Sending(s)' /\ Asking(s)') \/ runner'[s].pc = "write" => Sending(s)'
      BY DEF Sending
    <2>4. /\ \A t \in Tags : slot'[t].request.nonce <= nonce'[t]
          /\ \A s \in Runners : Sending(s)' =>
               runner'[s].nonce > 0 /\ runner'[s].nonce <= nonce'[runner'[s].tag]
      BY <2>1 DEF NonceInv, Quiet
    <2>5. \A s, v \in Runners :
            Sending(s)' /\ Sending(v)' /\ runner'[s].tag = runner'[v].tag
              /\ runner'[s].nonce = runner'[v].nonce => s = v
      BY <2>1 DEF NonceInv
    <2>6. \A s \in Runners : Sending(s)' /\ Slot(s)'.request.nonce = runner'[s].nonce =>
            Slot(s)'.request.plan = runner'[s].plan
      BY <2>1, <2>2 DEF NonceInv
    <2>7. \A s \in Runners : Asking(s)' => Slot(s)'.result.nonce # runner'[s].nonce
      BY <2>1, <2>2 DEF NonceInv, Sending
    <2>8. \A s \in Runners : runner'[s].pc = "write" =>
            /\ runner'[s].out.nonce \in {0, runner'[s].nonce}
            /\ runner'[s].out.kind \in Sound => runner'[s].out.nonce = runner'[s].nonce
      BY DEF NonceInv, Quiet
    <2> QED
      BY <2>4, <2>5, <2>6, <2>7, <2>8 DEF NonceInv
  <1>4. SpentInv'
    BY DEF SpentInv, Quiet, TypeInv, TypeOK
  <1>5. VerdictInv'
    BY DEF VerdictInv, Quiet
  <1> QED
    BY <1>2, <1>3, <1>4, <1>5

\* A quiet step that adds no answer on its way keeps what was said true.
LEMMA QuietSaid ==
    ASSUME IInv, NEW r \in Runners, Quiet(r), said' = said,
           runner'[r].pc = "record" => runner'[r].out.kind \notin Sound
    PROVE  SaidInv'
  <1>1. \A s \in Runners : s # r => runner'[s] = runner[s]
    BY DEF Quiet
  <1>2. \A s \in Runners : s # r /\ runner[s].pc # "idle" =>
          Slot(s)'.request = Slot(s).request
    BY <1>1 DEF Quiet, Slot, IInv, TypeInv
  <1>3. runner'[r].pc # "write"
    BY DEF Quiet
  <1> QED
    BY <1>1, <1>2, <1>3 DEF IInv, SaidInv, Quiet

LEMMA FreeTyped == Free \in RunnerRecord /\ Free.pc = "idle"
  BY EmptyTyped DEF Free, RunnerRecord, Pcs

LEMMA RunnerGoes ==
    ASSUME NEW x \in RunnerRecord, NEW pc \in Pcs, NEW out \in ResultRecord
    PROVE  [x EXCEPT !.pc = pc, !.out = out] \in RunnerRecord
  BY DEF RunnerRecord

LEMMA RunnerArchives ==
    ASSUME NEW x \in RunnerRecord, NEW pc \in Pcs, NEW p \in Nat
    PROVE  [x EXCEPT !.pc = pc, !.plan = p] \in RunnerRecord
  BY DEF RunnerRecord

LEMMA RunnerAnswers ==
    ASSUME NEW x \in RunnerRecord, NEW pc \in Pcs, NEW out \in ResultRecord
    PROVE  [x EXCEPT !.left = @ - 1, !.pc = pc, !.out = out] \in RunnerRecord
  <1>1. x.left - 1 \in Int
    BY DEF RunnerRecord
  <1> QED
    BY <1>1 DEF RunnerRecord

\* Launches, refusals, ended runners and the preflight.
LEMMA LaunchIInv ==
    ASSUME IInv, NEW r \in Runners, NEW t \in Tags, Launch(r, t) PROVE IInv'
  <1> DEFINE new == [Free EXCEPT !.pc = "issue", !.tag = t, !.left = Retries]
  <1>1. new \in RunnerRecord /\ new.pc = "issue" /\ new.tag = t
    <2>1. "issue" \in Pcs /\ Retries \in Int /\ t \in Tags \cup {None}
      BY DEF Pcs
    <2> QED
      BY <2>1, FreeTyped DEF RunnerRecord
  <1>2. runner' = [runner EXCEPT ![r] = new]
    BY DEF Launch
  <1> HIDE DEF new
  <1>3. TypeInv'
    BY <1>1, <1>2 DEF IInv, TypeInv, TypeOK, Launch, report
  <1>4. Quiet(r) /\ said' = said /\ phase = "reviewing" /\ runner'[r].pc = "issue"
    BY <1>1, <1>2 DEF Quiet, Launch, IInv, TypeInv, TypeOK, report
  <1> QED
    BY <1>3, <1>4, QuietSaid, QuietIInv

LEMMA EndIInv ==
    ASSUME IInv, NEW r \in Runners, IssueRefused(r) \/ Crash(r) \/ RecordRefused(r)
    PROVE  IInv'
  <1>1. runner[r].pc # "idle" /\ runner' = [runner EXCEPT ![r] = Free]
    BY DEF IssueRefused, Crash, RecordRefused, Ends
  <1>2. phase = "reviewing" /\ runner[r].tag \in Tags
    BY <1>1, AtWork
  <1>3. slot' \in [Tags -> SlotRecord]
    <2>1. CASE slot' = slot
      BY <2>1 DEF IInv, TypeInv, TypeOK
    <2>2. CASE RecordRefused(r)
      BY <1>2, <2>2 DEF RecordRefused, IInv, TypeInv, TypeOK, SlotRecord
    <2> QED
      BY <2>1, <2>2 DEF IssueRefused, Crash
  <1>4. /\ UNCHANGED <<phase, plan, mode, verdict, chair, nonce, said, spent>>
    BY DEF IssueRefused, Crash, RecordRefused, report, counters
  <1>5. TypeInv'
    BY <1>1, <1>3, <1>4, FreeTyped DEF IInv, TypeInv, TypeOK
  <1>6. \A u \in Tags :
          /\ slot'[u].request = slot[u].request /\ slot'[u].result = slot[u].result
          /\ slot'[u].lock = slot[u].lock /\ slot[u].flags \subseteq slot'[u].flags
    <2>1. CASE slot' = slot
      BY <2>1
    <2>2. CASE RecordRefused(r)
      BY <1>2, <2>2 DEF RecordRefused, IInv, TypeInv, TypeOK, SlotRecord
    <2> QED
      BY <2>1, <2>2 DEF IssueRefused, Crash
  <1>7. Quiet(r) /\ runner'[r].pc = "idle"
    BY <1>1, <1>4, <1>6, FreeTyped DEF Quiet, IInv, TypeInv
  <1> QED
    BY <1>2, <1>4, <1>5, <1>7, QuietSaid, QuietIInv

LEMMA PreflightIInv ==
    ASSUME IInv, NEW r \in Runners,
           PreflightPasses(r) \/ \E kind \in {"unsound", "terminal"} : PreflightFails(r, kind)
    PROVE  IInv'
  <1>1. runner[r].pc = "preflight" /\ phase = "reviewing" /\ runner[r].tag \in Tags
    BY AtWork DEF PreflightPasses, PreflightFails
  <1>2. /\ UNCHANGED <<phase, plan, mode, verdict, chair, nonce, said, spent>>
    BY DEF PreflightPasses, PreflightFails, report, counters
  <1>3. CASE PreflightPasses(r)
    <2>1. TypeInv'
      BY <1>1, <1>2, <1>3 DEF PreflightPasses, Goes, IInv, TypeInv, TypeOK, RunnerRecord, Pcs
    <2>2. Quiet(r) /\ runner'[r].pc = "issue"
      BY <1>1, <1>2, <1>3 DEF PreflightPasses, Goes, Quiet, IInv, TypeInv, TypeOK, RunnerRecord
    <2> QED
      BY <1>1, <1>2, <2>1, <2>2, QuietSaid, QuietIInv
  <1>4. ASSUME NEW kind \in {"unsound", "terminal"}, PreflightFails(r, kind) PROVE IInv'
    <2> DEFINE failure == [NoResult EXCEPT !.kind = kind]
    <2>1. failure \in ResultRecord /\ failure.kind \notin Sound
      BY DEF NoResult, ResultRecord, Kinds, Sound
    <2>2. runner' = [runner EXCEPT ![r].pc = "record", ![r].out = failure]
      BY <1>4 DEF PreflightFails
    <2> HIDE DEF failure
    <2>3. /\ slot' \in [Tags -> SlotRecord]
          /\ \A u \in Tags :
               /\ slot'[u].request = slot[u].request /\ slot'[u].result = slot[u].result
               /\ slot'[u].lock = slot[u].lock /\ slot[u].flags \subseteq slot'[u].flags
      <3>1. slot' = [slot EXCEPT ![runner[r].tag].flags = @ \cup {"preflight"}]
        BY <1>4 DEF PreflightFails
      <3>2. slot \in [Tags -> SlotRecord]
        BY DEF IInv, TypeInv, TypeOK
      <3> QED
        BY <1>1, <3>1, <3>2 DEF SlotRecord
    <2>4. TypeInv'
      <3>1. runner' \in [Runners -> RunnerRecord]
        BY <2>1, <2>2, RunnerGoes DEF IInv, TypeInv, Pcs
      <3>2. \A s \in Runners : runner'[s].pc # "idle" => runner'[s].tag \in Tags
        BY <1>1, <2>2 DEF IInv, TypeInv, RunnerRecord
      <3> QED
        BY <1>2, <2>3, <3>1, <3>2 DEF IInv, TypeInv, TypeOK
    <2>5. /\ runner'[r].pc = "record" /\ runner'[r].out = failure /\ Asking(r)
          /\ runner'[r].tag = runner[r].tag /\ runner'[r].nonce = runner[r].nonce
          /\ runner'[r].plan = runner[r].plan
          /\ \A s \in Runners \ {r} : runner'[s] = runner[s]
      BY <1>1, <2>2 DEF IInv, TypeInv, RunnerRecord, Asking
    <2>6. Quiet(r)
      BY <1>2, <2>3, <2>5 DEF Quiet
    <2> QED
      BY <1>1, <1>2, <2>1, <2>4, <2>5, <2>6, QuietSaid, QuietIInv
  <1> QED
    BY <1>3, <1>4

\* A provider's answer is on its way, or the call is tried again.
LEMMA CallIInv ==
    ASSUME IInv, NEW r \in Runners, NEW kind \in Answers, Call(r, kind) PROVE IInv'
  <1> DEFINE t == runner[r].tag
             answer == [NoResult EXCEPT !.kind = Recorded(kind)]
             next == IF kind \in Retried /\ runner[r].left > 1 THEN "issue" ELSE "record"
             word == [nonce |-> runner[r].nonce, plan |-> runner[r].plan, kind |-> kind]
             heard == kind \in Sound /\ slot[t].request.nonce = runner[r].nonce
  <1>1. runner[r].pc = "call" /\ phase = "reviewing" /\ t \in Tags
    BY AtWork DEF Call
  <1>2. /\ UNCHANGED <<phase, plan, mode, verdict, chair, nonce, slot, spent>>
        /\ said' = [said EXCEPT ![t] = IF heard THEN word ELSE @]
    BY DEF Call, report, counters
  <1>3. /\ answer \in ResultRecord /\ answer.kind = Recorded(kind)
        /\ Recorded(kind) \in Sound => Recorded(kind) = kind
        /\ next \in Pcs /\ next \in {"issue", "record"}
    BY DEF NoResult, ResultRecord, Kinds, Sound, Recorded, Answers, Pcs
  <1>4. runner' = [runner EXCEPT ![r].left = @ - 1, ![r].pc = next, ![r].out = answer]
    BY DEF Call
  <1>5. heard => word \in ResultRecord
    BY DEF IInv, TypeInv, RunnerRecord, ResultRecord, Kinds
  <1> HIDE DEF answer, next
  <1>6. /\ runner'[r] = [runner[r] EXCEPT !.left = @ - 1, !.pc = next, !.out = answer]
        /\ \A s \in Runners \ {r} : runner'[s] = runner[s]
        /\ runner'[r].pc = next /\ runner'[r].out = answer
        /\ runner'[r].tag = t /\ runner'[r].nonce = runner[r].nonce
        /\ runner'[r].plan = runner[r].plan
    BY <1>4 DEF IInv, TypeInv, RunnerRecord
  <1>7. TypeInv'
    <2>1. runner' \in [Runners -> RunnerRecord]
      BY <1>3, <1>4, RunnerAnswers DEF IInv, TypeInv
    <2>2. said' \in [Tags -> ResultRecord]
      BY <1>1, <1>2, <1>5 DEF IInv, TypeInv, TypeOK
    <2>3. \A s \in Runners : runner'[s].pc # "idle" => runner'[s].tag \in Tags
      BY <1>1, <1>6 DEF IInv, TypeInv
    <2> QED
      BY <1>2, <2>1, <2>2, <2>3 DEF IInv, TypeInv, TypeOK
  <1>8. Quiet(r)
    BY <1>1, <1>2, <1>3, <1>6 DEF Quiet, Asking
  <1>9. Sending(r) /\ Asking(r)
    BY <1>1 DEF Sending, Asking
  <1>10. \A u \in Tags : said'[u] # said[u] => u = t /\ heard
    BY <1>1, <1>2 DEF IInv, TypeInv, TypeOK
  <1>11. SaidInv'
    <2>1. ASSUME NEW s \in Runners, runner'[s].pc = "record", runner'[s].out.kind \in Sound,
                 Slot(s)'.request.nonce = runner'[s].nonce
          PROVE  said'[runner'[s].tag] = [nonce |-> runner'[s].nonce, plan |-> runner'[s].plan,
                                          kind |-> runner'[s].out.kind]
      <3>1. CASE s = r
        <4>1. kind \in Sound /\ answer.kind = kind
          BY <1>3, <1>6, <2>1, <3>1
        <4>2. slot[t].request.nonce = runner[r].nonce
          BY <1>2, <1>6, <2>1, <3>1 DEF Slot
        <4> QED
          BY <1>1, <1>2, <1>6, <3>1, <4>1, <4>2 DEF IInv, TypeInv, TypeOK
      <3>2. CASE s # r
        <4>1. runner'[s] = runner[s] /\ Sending(s) /\ Slot(s).request.nonce = runner[s].nonce
          BY <1>2, <1>6, <2>1, <3>2 DEF Sending, Asking, Slot
        <4>2. runner[s].tag \in Tags /\ ~(runner[s].tag = t /\ heard)
          BY <1>9, <3>2, <4>1 DEF IInv, TypeInv, NonceInv, Slot, Sending, Asking
        <4> QED
          BY <1>10, <2>1, <4>1, <4>2 DEF IInv, SaidInv
      <3> QED
        BY <3>1, <3>2
    <2>2. ASSUME NEW s \in Runners, runner'[s].pc = "write", runner'[s].out.kind \in Sound,
                 Slot(s)'.request.nonce = runner'[s].out.nonce
          PROVE  said'[runner'[s].tag] = runner'[s].out
      <3>1. s # r /\ runner'[s] = runner[s] /\ Sending(s)
        BY <1>3, <1>6, <2>2 DEF Sending
      <3>2. Slot(s).request.nonce = runner[s].out.nonce /\ runner[s].out.nonce = runner[s].nonce
        BY <1>2, <2>2, <3>1 DEF Slot, IInv, NonceInv
      <3>3. runner[s].tag \in Tags /\ ~(runner[s].tag = t /\ heard)
        BY <1>9, <3>1, <3>2 DEF IInv, TypeInv, NonceInv, Slot, Sending, Asking
      <3> QED
        BY <1>10, <2>2, <3>1, <3>2, <3>3 DEF IInv, SaidInv
    <2>3. ASSUME NEW u \in Tags, slot'[u].result.kind \in Sound,
                 slot'[u].request.nonce = slot'[u].result.nonce
          PROVE  said'[u] = slot'[u].result
      <3>1. ~(u = t /\ heard)
        BY <1>2, <1>9, <2>3 DEF IInv, NonceInv, Slot
      <3> QED
        BY <1>2, <1>10, <2>3, <3>1 DEF IInv, SaidInv
    <2> QED
      BY <2>1, <2>2, <2>3 DEF SaidInv
  <1> QED
    BY <1>1, <1>7, <1>8, <1>11, QuietIInv

\* The lock is taken and the attempt that failed is archived.
LEMMA ArchiveIInv ==
    ASSUME IInv, NEW r \in Runners, Archive(r) PROVE IInv'
  <1> DEFINE t == runner[r].tag
             prior == slot[t].result.kind
  <1>1. runner[r].pc = "issue" /\ phase = "reviewing" /\ t \in Tags
    BY AtWork DEF Archive
  <1>2. ~slot[t].lock /\ prior \notin Sound
    BY DEF Archive, Reissuable
  <1>3. UNCHANGED <<phase, plan, mode, verdict, chair, nonce, said, spent>>
    BY DEF Archive, report, counters
  <1>4. /\ runner' = [runner EXCEPT ![r].pc = "archived", ![r].plan = plan.content]
        /\ runner'[r].pc = "archived" /\ runner'[r].tag = t
        /\ \A s \in Runners \ {r} : runner'[s] = runner[s]
    BY DEF Archive, IInv, TypeInv, RunnerRecord
  <1>5. /\ slot' \in [Tags -> SlotRecord]
        /\ \A u \in Tags : /\ slot'[u].request = slot[u].request
                           /\ slot'[u].result = slot[u].result
                           /\ u # t => slot'[u] = slot[u]
        /\ slot'[t].lock
        /\ slot[t].flags \subseteq slot'[t].flags
        /\ prior = "terminal" => "terminal" \in slot'[t].flags
    <2> DEFINE n == IF prior = None THEN slot[t].attempts ELSE slot[t].attempts + 1
               f == IF prior = "terminal" THEN slot[t].flags \cup {"terminal"}
                                          ELSE slot[t].flags
    <2>1. slot' = [slot EXCEPT ![t].lock = TRUE, ![t].attempts = n, ![t].flags = f]
      BY DEF Archive
    <2>2. slot \in [Tags -> SlotRecord]
      BY DEF IInv, TypeInv, TypeOK
    <2>3. slot[t].attempts \in Nat /\ slot[t].flags \in SUBSET {"duplicate", "terminal", "preflight"}
      BY <1>1, <2>2 DEF SlotRecord
    <2>4. n \in Nat /\ f \in SUBSET {"duplicate", "terminal", "preflight"} /\ slot[t].flags \subseteq f
      BY <2>3
    <2>5. prior = "terminal" => "terminal" \in f
      OBVIOUS
    <2> HIDE DEF prior, t, n, f
    <2>6. slot' \in [Tags -> SlotRecord]
      <3>1. [slot[t] EXCEPT !.lock = TRUE, !.attempts = n, !.flags = f] \in SlotRecord
        <4>1. slot[t] \in SlotRecord
          BY <1>1, <2>2
        <4> QED
          BY <2>4, <4>1 DEF SlotRecord
      <3>2. slot' = [slot EXCEPT ![t] = [slot[t] EXCEPT !.lock = TRUE, !.attempts = n, !.flags = f]]
        BY <1>1, <2>1, <2>2
      <3> QED
        BY <1>1, <2>2, <3>1, <3>2
    <2> QED
      BY <1>1, <2>1, <2>2, <2>4, <2>5, <2>6 DEF SlotRecord
  <1>6. TypeInv'
    <2>1. plan.content \in Nat /\ "archived" \in Pcs /\ runner \in [Runners -> RunnerRecord]
      BY DEF IInv, TypeInv, TypeOK, Pcs
    <2>2. runner' \in [Runners -> RunnerRecord]
      BY <1>4, <2>1, RunnerArchives
    <2>3. \A s \in Runners : runner'[s].pc # "idle" => runner'[s].tag \in Tags
      BY <1>1, <1>4 DEF IInv, TypeInv
    <2> QED
      BY <1>3, <1>5, <2>2, <2>3 DEF IInv, TypeInv, TypeOK
  <1>7. \A s \in Runners \ {r} : runner[s].pc # "idle" =>
          /\ runner[s].tag \in Tags
          /\ Slot(s)'.request = Slot(s).request /\ Slot(s)'.result = Slot(s).result
          /\ runner[s].tag # t => Slot(s)' = Slot(s)
          /\ Holds(s) => runner[s].tag # t
    BY <1>2, <1>4, <1>5 DEF Slot, IInv, TypeInv, LockInv
  <1>8. /\ ~Sending(r)' /\ ~Asking(r)' /\ Holds(r)'
        /\ Slot(r)'.lock /\ Slot(r)'.result.kind \notin Sound
        /\ Slot(r)'.result.kind = "terminal" => "terminal" \in Slot(r)'.flags
    BY <1>1, <1>2, <1>4, <1>5 DEF Sending, Asking, Holds, Slot
  <1> HIDE DEF t, prior
  <1>9. LockInv'
    <2>1. \A s \in Runners \ {r} :
            /\ Holds(s)' = Holds(s) /\ runner'[s] = runner[s]
            /\ Holds(s) => runner[s].pc # "idle" /\ Slot(s)' = Slot(s) /\ runner[s].tag # t
            /\ runner[s].pc \in {"archived", "write"} => Holds(s)
      BY <1>4, <1>7 DEF Holds
    <2>2. \A s \in Runners : Holds(s)' => Slot(s)'.lock
      BY <1>8, <2>1 DEF IInv, LockInv
    <2>3. \A s, v \in Runners :
            Holds(s)' /\ Holds(v)' /\ runner'[s].tag = runner'[v].tag => s = v
      <3>1. ASSUME NEW s \in Runners, s # r, Holds(s)'
            PROVE  Holds(s) /\ runner'[s].tag = runner[s].tag /\ runner'[s].tag # t
        BY <2>1, <3>1
      <3> QED
        BY <1>4, <3>1 DEF IInv, LockInv
    <2>4. ASSUME NEW s \in Runners, runner'[s].pc = "archived"
          PROVE  /\ Slot(s)'.result.kind \notin Sound
                 /\ Slot(s)'.result.kind = "terminal" => "terminal" \in Slot(s)'.flags
      <3>1. CASE s = r
        BY <1>8, <3>1
      <3>2. CASE s # r
        <4>1. runner[s].pc = "archived" /\ Slot(s)' = Slot(s)
          BY <2>1, <2>4, <3>2
        <4> QED
          BY <4>1 DEF IInv, LockInv
      <3> QED
        BY <3>1, <3>2
    <2>5. ASSUME NEW s \in Runners, runner'[s].pc = "write"
          PROVE  Slot(s)'.result.kind = None
      <3>1. s # r
        BY <1>4, <2>5
      <3>2. runner[s].pc = "write" /\ Slot(s)' = Slot(s)
        BY <2>1, <2>5, <3>1
      <3> QED
        BY <3>2 DEF IInv, LockInv
    <2> QED
      BY <2>2, <2>3, <2>4, <2>5 DEF LockInv
  <1>10. NonceInv'
    <2>1. \A s \in Runners \ {r} : Sending(s)' = Sending(s) /\ Asking(s)' = Asking(s)
      BY <1>4 DEF Sending, Asking
    <2>2. \A s \in Runners : Asking(s)' \/ Sending(s)' \/ runner'[s].pc = "write" =>
            /\ s # r /\ runner'[s] = runner[s] /\ runner[s].pc # "idle"
            /\ Slot(s)'.request = Slot(s).request /\ Slot(s)'.result = Slot(s).result
      BY <1>4, <1>7, <1>8 DEF Sending, Asking
    <2>3. \A u \in Tags : slot'[u].request.nonce <= nonce'[u]
      BY <1>3, <1>5 DEF IInv, NonceInv
    <2>4. \A s \in Runners : Sending(s)' =>
            runner'[s].nonce > 0 /\ runner'[s].nonce <= nonce'[runner'[s].tag]
      BY <1>3, <2>1, <2>2 DEF IInv, NonceInv
    <2>5. \A s, v \in Runners :
            Sending(s)' /\ Sending(v)' /\ runner'[s].tag = runner'[v].tag
              /\ runner'[s].nonce = runner'[v].nonce => s = v
      BY <2>1, <2>2 DEF IInv, NonceInv
    <2>6. \A s \in Runners : Sending(s)' /\ Slot(s)'.request.nonce = runner'[s].nonce =>
            Slot(s)'.request.plan = runner'[s].plan
      BY <2>1, <2>2 DEF IInv, NonceInv
    <2>7. \A s \in Runners : Asking(s)' => Slot(s)'.result.nonce # runner'[s].nonce
      BY <2>1, <2>2 DEF IInv, NonceInv
    <2>8. \A s \in Runners : runner'[s].pc = "write" =>
            /\ runner'[s].out.nonce \in {0, runner'[s].nonce}
            /\ runner'[s].out.kind \in Sound => runner'[s].out.nonce = runner'[s].nonce
      BY <2>2 DEF IInv, NonceInv
    <2> QED
      BY <2>3, <2>4, <2>5, <2>6, <2>7, <2>8 DEF NonceInv
  <1>11. SaidInv' /\ SpentInv' /\ VerdictInv'
    <2>1. SaidInv'
      <3>1. \A s \in Runners : runner'[s].pc \in {"record", "write"} =>
              /\ runner'[s] = runner[s] /\ Slot(s)'.request = Slot(s).request
        BY <1>4, <1>7
      <3>2. \A u \in Tags : slot'[u].request = slot[u].request /\ slot'[u].result = slot[u].result
        BY <1>5
      <3> QED
        BY <1>3, <3>1, <3>2 DEF IInv, SaidInv
    <2>2. SpentInv'
      BY <1>3, <1>5 DEF IInv, TypeInv, TypeOK, SpentInv
    <2>3. VerdictInv'
      BY <1>1, <1>3 DEF IInv, VerdictInv
    <2> QED
      BY <2>1, <2>2, <2>3
  <1> QED
    BY <1>6, <1>9, <1>10, <1>11 DEF IInv

\* A new request is issued, with a nonce nobody has, over an emptied slot.
LEMMA ReissueIInv ==
    ASSUME IInv, NEW r \in Runners, Reissue(r) PROVE IInv'
  <1> DEFINE t == runner[r].tag
             n == nonce[t] + 1
             pc == IF ~runner[r].first THEN "call"
                   ELSE IF t \in Kiro THEN "preflight" ELSE "issue"
             flags == slot[t].flags \ {"duplicate"}
             request == [nonce |-> n, plan |-> runner[r].plan]
  <1>1. runner[r].pc = "archived" /\ phase = "reviewing" /\ t \in Tags
    BY AtWork DEF Reissue
  <1>2. /\ UNCHANGED <<phase, plan, mode, verdict, chair, spent>>
        /\ nonce' = [nonce EXCEPT ![t] = n] /\ said' = [said EXCEPT ![t] = NoResult]
    BY DEF Reissue, report
  <1>3. /\ n \in Nat /\ n > 0 /\ n > nonce[t]
        /\ pc \in Pcs /\ pc \in {"issue", "preflight", "call"}
        /\ flags \in SUBSET {"duplicate", "terminal", "preflight"}
        /\ "terminal" \in slot[t].flags => "terminal" \in flags
        /\ request \in [nonce : Nat, plan : Nat]
        /\ request.nonce = n /\ request.plan = runner[r].plan
    BY <1>1 DEF IInv, TypeInv, TypeOK, SlotRecord, RunnerRecord, Pcs
  <1>4. /\ runner' = [runner EXCEPT ![r] = [@ EXCEPT !.nonce = n, !.first = FALSE,
                                                    !.out = NoResult, !.pc = pc]]
        /\ slot' = [slot EXCEPT ![t] = [@ EXCEPT !.lock = FALSE, !.claim = FALSE,
                                                !.result = NoResult, !.flags = flags,
                                                !.request = request]]
    <2>1. runner \in [Runners -> RunnerRecord] /\ slot \in [Tags -> SlotRecord]
      BY DEF IInv, TypeInv, TypeOK
    <2>2. /\ runner' = [runner EXCEPT ![r].nonce = n, ![r].first = FALSE,
                                      ![r].out = NoResult, ![r].pc = pc]
          /\ slot' = [slot EXCEPT ![t].lock = FALSE, ![t].claim = FALSE,
                                  ![t].result = NoResult, ![t].flags = flags,
                                  ![t].request = request]
      BY DEF Reissue
    <2> HIDE DEF t, n, pc, flags, request
    <2> QED
      BY <1>1, <2>1, <2>2
  <1> HIDE DEF n, pc, flags, request
  <1>5. /\ runner'[r] \in RunnerRecord
        /\ runner'[r].pc = pc /\ runner'[r].tag = t
        /\ runner'[r].nonce = n /\ runner'[r].plan = runner[r].plan
        /\ \A s \in Runners \ {r} : runner'[s] = runner[s]
    <2>1. runner[r] \in RunnerRecord /\ NoResult \in ResultRecord
      BY EmptyTyped DEF IInv, TypeInv
    <2>2. /\ runner'[r] = [runner[r] EXCEPT !.nonce = n, !.first = FALSE,
                                            !.out = NoResult, !.pc = pc]
          /\ \A s \in Runners \ {r} : runner'[s] = runner[s]
      BY <1>4 DEF IInv, TypeInv
    <2> QED
      BY <1>3, <2>1, <2>2 DEF RunnerRecord
  <1>6. /\ slot'[t] \in SlotRecord
        /\ slot'[t].request = request /\ slot'[t].result = NoResult
        /\ slot'[t].flags = flags
        /\ \A u \in Tags \ {t} : slot'[u] = slot[u]
    <2>1. slot[t] \in SlotRecord /\ NoResult \in ResultRecord
      BY <1>1, EmptyTyped DEF IInv, TypeInv, TypeOK
    <2>2. /\ slot'[t] = [slot[t] EXCEPT !.lock = FALSE, !.claim = FALSE, !.result = NoResult,
                                        !.flags = flags, !.request = request]
          /\ \A u \in Tags \ {t} : slot'[u] = slot[u]
      BY <1>1, <1>4 DEF IInv, TypeInv, TypeOK
    <2> QED
      BY <1>3, <2>1, <2>2 DEF SlotRecord
  <1>7. TypeInv'
    <2>1. runner' \in [Runners -> RunnerRecord] /\ slot' \in [Tags -> SlotRecord]
      BY <1>1, <1>4, <1>5, <1>6 DEF IInv, TypeInv, TypeOK
    <2>2. nonce' \in [Tags -> Nat] /\ said' \in [Tags -> ResultRecord]
      BY <1>1, <1>2, <1>3, EmptyTyped DEF IInv, TypeInv, TypeOK
    <2>3. \A s \in Runners : runner'[s].pc # "idle" => runner'[s].tag \in Tags
      BY <1>1, <1>5 DEF IInv, TypeInv
    <2> QED
      BY <1>2, <2>1, <2>2, <2>3 DEF IInv, TypeInv, TypeOK
  <1>8. /\ \A u \in Tags \ {t} : nonce'[u] = nonce[u] /\ said'[u] = said[u]
        /\ nonce'[t] = n
    BY <1>1, <1>2 DEF IInv, TypeInv, TypeOK
  <1> HIDE DEF t
  <1>9. ASSUME NEW s \in Runners, s # r
        PROVE  /\ runner'[s] = runner[s]
               /\ Holds(s)' = Holds(s) /\ Sending(s)' = Sending(s) /\ Asking(s)' = Asking(s)
               /\ runner[s].pc # "idle" /\ runner[s].tag # t =>
                    /\ Slot(s)' = Slot(s) /\ runner[s].tag \in Tags
                    /\ said'[runner[s].tag] = said[runner[s].tag]
                    /\ nonce'[runner[s].tag] = nonce[runner[s].tag]
               /\ Holds(s) => runner[s].pc # "idle" /\ runner[s].tag # t
    <2>1. Holds(r)
      BY <1>1 DEF Holds
    <2>2. Holds(s) => runner[s].pc # "idle" /\ runner[s].tag # t
      BY <1>9, <2>1 DEF IInv, LockInv, Holds, t
    <2> QED
      BY <1>5, <1>6, <1>8, <1>9, <2>2 DEF Holds, Sending, Asking, Slot, IInv, TypeInv
  <1>10. /\ ~Holds(r)' /\ runner'[r].pc \notin {"archived", "write", "record"}
         /\ Slot(r)' = slot'[t]
    BY <1>3, <1>5 DEF Holds, Slot
  <1>11. \A s \in Runners : s # r /\ Sending(s) =>
           runner[s].pc # "idle" /\ runner[s].nonce > 0
             /\ runner[s].nonce <= nonce[runner[s].tag] /\ runner[s].nonce \in Nat
    BY DEF IInv, NonceInv, Sending, Asking, TypeInv, RunnerRecord
  <1>12. LockInv'
    <2>1. ASSUME NEW s \in Runners, Holds(s)'
          PROVE  s # r /\ Holds(s) /\ runner'[s] = runner[s] /\ Slot(s)' = Slot(s)
      BY <1>9, <1>10, <2>1
    <2>2. \A s \in Runners : Holds(s)' => Slot(s)'.lock
      BY <2>1 DEF IInv, LockInv
    <2>3. \A s, v \in Runners :
            Holds(s)' /\ Holds(v)' /\ runner'[s].tag = runner'[v].tag => s = v
      BY <2>1 DEF IInv, LockInv
    <2>4. \A s \in Runners : runner'[s].pc \in {"archived", "write"} => Holds(s)'
      BY DEF Holds
    <2>5. \A s \in Runners : runner'[s].pc = "archived" =>
            /\ Slot(s)'.result.kind \notin Sound
            /\ Slot(s)'.result.kind = "terminal" => "terminal" \in Slot(s)'.flags
      BY <2>1, <2>4 DEF IInv, LockInv
    <2>6. \A s \in Runners : runner'[s].pc = "write" => Slot(s)'.result.kind = None
      BY <2>1, <2>4 DEF IInv, LockInv
    <2> QED
      BY <2>2, <2>3, <2>5, <2>6 DEF LockInv
  <1>13. NonceInv'
    <2>1. \A u \in Tags : slot'[u].request.nonce <= nonce'[u]
      BY <1>3, <1>6, <1>8 DEF IInv, NonceInv
    <2>2. ASSUME NEW s \in Runners, Sending(s)'
          PROVE  runner'[s].nonce > 0 /\ runner'[s].nonce <= nonce'[runner'[s].tag]
      <3>1. CASE s = r
        BY <1>3, <1>5, <1>8, <3>1
      <3>2. CASE s # r /\ runner[s].tag = t
        BY <1>3, <1>8, <1>9, <1>11, <2>2, <3>2 DEF IInv, TypeInv, TypeOK
      <3>3. CASE s # r /\ runner[s].tag # t
        BY <1>9, <1>11, <2>2, <3>3
      <3> QED
        BY <3>1, <3>2, <3>3
    <2>3. ASSUME NEW s \in Runners, s # r, Sending(s)', runner'[s].tag = t
          PROVE  runner'[s].nonce # n
      BY <1>3, <1>9, <1>11, <2>3 DEF IInv, TypeInv, TypeOK
    <2>4. \A s, v \in Runners :
            Sending(s)' /\ Sending(v)' /\ runner'[s].tag = runner'[v].tag
              /\ runner'[s].nonce = runner'[v].nonce => s = v
      BY <1>5, <1>9, <2>3 DEF IInv, NonceInv
    <2>5. ASSUME NEW s \in Runners, Sending(s)', Slot(s)'.request.nonce = runner'[s].nonce
          PROVE  Slot(s)'.request.plan = runner'[s].plan
      <3>1. CASE s = r
        BY <1>3, <1>5, <1>6, <1>10, <3>1
      <3>2. CASE s # r
        <4>1. runner[s].tag # t
          BY <1>3, <1>6, <1>9, <2>3, <2>5, <3>2 DEF Slot
        <4> QED
          BY <1>9, <1>11, <2>5, <3>2, <4>1 DEF IInv, NonceInv
      <3> QED
        BY <3>1, <3>2
    <2>6. ASSUME NEW s \in Runners, Asking(s)' PROVE Slot(s)'.result.nonce # runner'[s].nonce
      <3>1. Sending(s)'
        BY <2>6 DEF Sending
      <3>2. CASE runner'[s].tag = t
        BY <1>6, <2>2, <3>1, <3>2 DEF Slot, NoResult
      <3>3. CASE runner'[s].tag # t
        BY <1>5, <1>9, <1>11, <2>6, <3>1, <3>3 DEF IInv, NonceInv
      <3> QED
        BY <3>2, <3>3
    <2>7. \A s \in Runners : runner'[s].pc = "write" =>
            /\ runner'[s].out.nonce \in {0, runner'[s].nonce}
            /\ runner'[s].out.kind \in Sound => runner'[s].out.nonce = runner'[s].nonce
      BY <1>9, <1>10 DEF IInv, NonceInv
    <2> QED
      BY <2>1, <2>2, <2>4, <2>5, <2>6, <2>7 DEF NonceInv
  <1>14. SaidInv'
    <2>1. ASSUME NEW s \in Runners, runner'[s].pc = "record", runner'[s].out.kind \in Sound,
                 Slot(s)'.request.nonce = runner'[s].nonce
          PROVE  said'[runner'[s].tag] = [nonce |-> runner'[s].nonce, plan |-> runner'[s].plan,
                                          kind |-> runner'[s].out.kind]
      <3>1. s # r /\ runner'[s] = runner[s] /\ Sending(s)
        BY <1>9, <1>10, <2>1 DEF Sending, Asking
      <3>2. runner[s].tag # t
        BY <1>3, <1>6, <1>11, <2>1, <3>1 DEF Slot, IInv, TypeInv, TypeOK
      <3> QED
        BY <1>9, <1>11, <2>1, <3>1, <3>2 DEF IInv, SaidInv
    <2>2. ASSUME NEW s \in Runners, runner'[s].pc = "write", runner'[s].out.kind \in Sound,
                 Slot(s)'.request.nonce = runner'[s].out.nonce
          PROVE  said'[runner'[s].tag] = runner'[s].out
      <3>1. s # r /\ runner'[s] = runner[s] /\ Holds(s)
        BY <1>9, <1>10, <2>2 DEF Holds
      <3> QED
        BY <1>9, <2>2, <3>1 DEF IInv, SaidInv
    <2>3. ASSUME NEW u \in Tags, slot'[u].result.kind \in Sound,
                 slot'[u].request.nonce = slot'[u].result.nonce
          PROVE  said'[u] = slot'[u].result
      <3>1. u # t
        BY <1>6, <2>3 DEF NoResult, Sound
      <3> QED
        BY <1>6, <1>8, <2>3, <3>1 DEF IInv, SaidInv
    <2> QED
      BY <2>1, <2>2, <2>3 DEF SaidInv
  <1>15. SpentInv' /\ VerdictInv'
    <2>1. slot[t].result.kind = "terminal" => "terminal" \in slot[t].flags
      BY <1>1 DEF IInv, LockInv, Slot, t
    <2>2. SpentInv'
      BY <1>2, <1>3, <1>6, <2>1 DEF IInv, TypeInv, TypeOK, SpentInv
    <2> QED
      BY <1>1, <1>2, <2>2 DEF IInv, VerdictInv
  <1> QED
    BY <1>7, <1>12, <1>13, <1>14, <1>15 DEF IInv

\* The lock and the claim are taken: the result is one the request vouches for.
LEMMA ClaimIInv ==
    ASSUME IInv, NEW r \in Runners, Claim(r) PROVE IInv'
  <1> DEFINE t == runner[r].tag
             result == Result(r)
  <1>1. runner[r].pc = "record" /\ phase = "reviewing" /\ t \in Tags
        /\ ~slot[t].lock /\ slot[t].result.kind = None
    BY AtWork DEF Claim
  <1>2. UNCHANGED <<phase, plan, mode, verdict, chair, nonce, said, spent>>
    BY DEF Claim, report, counters
  <1>3. /\ result \in ResultRecord
        /\ result.nonce \in {0, runner[r].nonce}
        /\ result.kind \in Sound =>
             /\ result = [nonce |-> runner[r].nonce, plan |-> plan.content,
                          kind |-> runner[r].out.kind]
             /\ slot[t].request.nonce = runner[r].nonce
             /\ slot[t].request.plan = plan.content
    <2> DEFINE known == slot[t].request.plan = plan.content
                          /\ slot[t].request.nonce = runner[r].nonce
               kind == IF known /\ plan.complete /\ t \in plan.required
                         THEN runner[r].out.kind ELSE "unsound"
    <2>1. result = [nonce |-> IF known THEN runner[r].nonce ELSE 0, plan |-> plan.content,
                    kind |-> kind]
      BY DEF Result
    <2>2. runner[r].nonce \in Nat /\ plan.content \in Nat /\ kind \in Kinds \cup {None}
      BY DEF IInv, TypeInv, TypeOK, RunnerRecord, ResultRecord, Kinds
    <2>3. kind \in Sound => known /\ kind = runner[r].out.kind
      BY DEF Sound
    <2> HIDE DEF result, kind
    <2> QED
      BY <2>1, <2>2, <2>3 DEF ResultRecord
  <1> HIDE DEF result
  <1>4. /\ runner' = [runner EXCEPT ![r].pc = "write", ![r].out = result]
        /\ runner'[r].pc = "write" /\ runner'[r].out = result
        /\ runner'[r].tag = t /\ runner'[r].nonce = runner[r].nonce
        /\ runner'[r].plan = runner[r].plan
        /\ \A s \in Runners \ {r} : runner'[s] = runner[s]
    BY DEF Claim, result, IInv, TypeInv, RunnerRecord
  <1>5. /\ slot' \in [Tags -> SlotRecord]
        /\ slot'[t].lock
        /\ \A u \in Tags : /\ slot'[u].request = slot[u].request
                           /\ slot'[u].result = slot[u].result
                           /\ slot'[u].flags = slot[u].flags
                           /\ u # t => slot'[u] = slot[u]
    <2> DEFINE new == [slot[t] EXCEPT !.lock = TRUE, !.claim = TRUE]
    <2>1. slot \in [Tags -> SlotRecord] /\ slot[t] \in SlotRecord
      BY <1>1 DEF IInv, TypeInv, TypeOK
    <2>2. slot' = [slot EXCEPT ![t] = new]
      BY <1>1, <2>1 DEF Claim
    <2>3. /\ new \in SlotRecord /\ new.lock
          /\ new.request = slot[t].request /\ new.result = slot[t].result
          /\ new.flags = slot[t].flags
      BY <2>1 DEF SlotRecord
    <2> HIDE DEF t, new
    <2> QED
      BY <1>1, <2>1, <2>2, <2>3
  <1>6. TypeInv'
    <2>1. runner \in [Runners -> RunnerRecord] /\ "write" \in Pcs
      BY DEF IInv, TypeInv, Pcs
    <2>2. runner' \in [Runners -> RunnerRecord]
      BY <1>3, <1>4, <2>1, RunnerGoes
    <2>3. \A s \in Runners : runner'[s].pc # "idle" => runner'[s].tag \in Tags
      BY <1>1, <1>4 DEF IInv, TypeInv
    <2> QED
      BY <1>2, <1>5, <2>2, <2>3 DEF IInv, TypeInv, TypeOK
  <1>7. ASSUME NEW s \in Runners
        PROVE  /\ s # r => runner'[s] = runner[s] /\ Holds(s)' = Holds(s) /\ Asking(s)' = Asking(s)
               /\ Sending(s)' = Sending(s)
               /\ runner[s].pc # "idle" =>
                    /\ runner[s].tag \in Tags /\ runner'[s].tag = runner[s].tag
                    /\ runner'[s].nonce = runner[s].nonce /\ runner'[s].plan = runner[s].plan
                    /\ Slot(s)'.request = Slot(s).request /\ Slot(s)'.result = Slot(s).result
                    /\ runner[s].tag # t => Slot(s)' = Slot(s)
    BY <1>1, <1>4, <1>5 DEF Holds, Sending, Asking, Slot, IInv, TypeInv
  <1> HIDE DEF t
  <1>8. \A s \in Runners : s # r /\ Holds(s) =>
          runner[s].pc # "idle" /\ runner[s].tag # t /\ Slot(s)' = Slot(s)
    BY <1>1, <1>7 DEF IInv, LockInv, Holds, Slot, t
  <1>9. Holds(r)' /\ Slot(r)' = slot'[t] /\ ~Asking(r)' /\ Sending(r) /\ Asking(r)
    BY <1>1, <1>4 DEF Holds, Slot, Sending, Asking
  <1>10. LockInv'
    <2>1. \A s \in Runners : Holds(s)' => Slot(s)'.lock
      BY <1>5, <1>7, <1>8, <1>9 DEF IInv, LockInv
    <2>2. \A s, v \in Runners :
            Holds(s)' /\ Holds(v)' /\ runner'[s].tag = runner'[v].tag => s = v
      <3>1. ASSUME NEW s \in Runners, s # r, Holds(s)'
            PROVE  Holds(s) /\ runner'[s].tag = runner[s].tag /\ runner'[s].tag # t
        BY <1>7, <1>8, <3>1
      <3> QED
        BY <1>4, <3>1 DEF IInv, LockInv
    <2>3. ASSUME NEW s \in Runners, runner'[s].pc = "archived"
          PROVE  /\ Slot(s)'.result.kind \notin Sound
                 /\ Slot(s)'.result.kind = "terminal" => "terminal" \in Slot(s)'.flags
      <3>1. s # r /\ runner[s].pc = "archived" /\ Holds(s)
        BY <1>4, <2>3 DEF Holds
      <3> QED
        BY <1>8, <3>1 DEF IInv, LockInv
    <2>4. ASSUME NEW s \in Runners, runner'[s].pc = "write"
          PROVE  Slot(s)'.result.kind = None
      <3>1. CASE s = r
        BY <1>1, <1>5, <1>9, <3>1
      <3>2. CASE s # r
        <4>1. runner[s].pc = "write" /\ Holds(s)
          BY <1>7, <2>4, <3>2 DEF Holds
        <4> QED
          BY <1>8, <3>2, <4>1 DEF IInv, LockInv
      <3> QED
        BY <3>1, <3>2
    <2> QED
      BY <2>1, <2>2, <2>3, <2>4 DEF LockInv
  <1>11. NonceInv'
    <2>1. \A u \in Tags : slot'[u].request.nonce <= nonce'[u]
      BY <1>2, <1>5 DEF IInv, NonceInv
    <2>2. \A s \in Runners : Sending(s) => runner[s].pc # "idle"
      BY DEF Sending, Asking
    <2>3. \A s \in Runners : Sending(s)' =>
            runner'[s].nonce > 0 /\ runner'[s].nonce <= nonce'[runner'[s].tag]
      BY <1>2, <1>7, <2>2 DEF IInv, NonceInv
    <2>4. \A s, v \in Runners :
            Sending(s)' /\ Sending(v)' /\ runner'[s].tag = runner'[v].tag
              /\ runner'[s].nonce = runner'[v].nonce => s = v
      BY <1>7, <2>2 DEF IInv, NonceInv
    <2>5. \A s \in Runners : Sending(s)' /\ Slot(s)'.request.nonce = runner'[s].nonce =>
            Slot(s)'.request.plan = runner'[s].plan
      BY <1>7, <2>2 DEF IInv, NonceInv
    <2>6. \A s \in Runners : Asking(s)' => Slot(s)'.result.nonce # runner'[s].nonce
      <3>1. \A s \in Runners : Asking(s)' => s # r /\ Asking(s) /\ Sending(s)
        BY <1>7, <1>9 DEF Sending
      <3> QED
        BY <1>7, <2>2, <3>1 DEF IInv, NonceInv
    <2>7. \A s \in Runners : runner'[s].pc = "write" =>
            /\ runner'[s].out.nonce \in {0, runner'[s].nonce}
            /\ runner'[s].out.kind \in Sound => runner'[s].out.nonce = runner'[s].nonce
      <3>1. result.kind \in Sound => result.nonce = runner[r].nonce
        BY <1>3
      <3>2. \A s \in Runners : s # r => runner'[s] = runner[s]
        BY <1>7
      <3> QED
        BY <1>3, <1>4, <3>1, <3>2 DEF IInv, NonceInv
    <2> QED
      BY <2>1, <2>3, <2>4, <2>5, <2>6, <2>7 DEF NonceInv
  <1>12. SaidInv'
    <2>1. result.kind \in Sound => said[t] = result
      <3> HAVE result.kind \in Sound
      <3>1. /\ Slot(r).request.nonce = runner[r].nonce /\ Slot(r).request.plan = plan.content
            /\ runner[r].out.kind \in Sound
            /\ result = [nonce |-> runner[r].nonce, plan |-> plan.content,
                         kind |-> runner[r].out.kind]
        BY <1>3 DEF Slot, t
      <3>2. runner[r].plan = plan.content
        BY <1>9, <3>1 DEF IInv, NonceInv
      <3> QED
        BY <1>1, <3>1, <3>2 DEF IInv, SaidInv, t
    <2>2. \A s \in Runners : s # r /\ runner[s].pc \in {"record", "write"} =>
            runner'[s] = runner[s] /\ Slot(s)'.request = Slot(s).request
      BY <1>7
    <2>3. \A s \in Runners :
            /\ runner'[s].pc = "record" /\ runner'[s].out.kind \in Sound
            /\ Slot(s)'.request.nonce = runner'[s].nonce
            => said'[runner'[s].tag] = [nonce |-> runner'[s].nonce, plan |-> runner'[s].plan,
                                       kind |-> runner'[s].out.kind]
      <3>1. runner'[r].pc # "record"
        BY <1>4
      <3>2. \A s \in Runners : s # r => runner'[s] = runner[s]
        BY <1>7
      <3> QED
        BY <1>2, <2>2, <3>1, <3>2 DEF IInv, SaidInv
    <2>4. \A s \in Runners :
            /\ runner'[s].pc = "write" /\ runner'[s].out.kind \in Sound
            /\ Slot(s)'.request.nonce = runner'[s].out.nonce
            => said'[runner'[s].tag] = runner'[s].out
      <3>1. runner'[r].out = result /\ runner'[r].tag = t
        BY <1>4 DEF t
      <3>2. \A s \in Runners : s # r => runner'[s] = runner[s]
        BY <1>7
      <3> QED
        BY <1>2, <2>1, <2>2, <3>1, <3>2 DEF IInv, SaidInv
    <2>5. \A u \in Tags :
            /\ slot'[u].result.kind \in Sound
            /\ slot'[u].request.nonce = slot'[u].result.nonce
            => said'[u] = slot'[u].result
      BY <1>2, <1>5 DEF IInv, SaidInv
    <2> QED
      BY <2>3, <2>4, <2>5 DEF SaidInv
  <1>13. SpentInv' /\ VerdictInv'
    BY <1>1, <1>2, <1>5 DEF IInv, TypeInv, TypeOK, SpentInv, VerdictInv
  <1> QED
    BY <1>6, <1>10, <1>11, <1>12, <1>13 DEF IInv

\* The result is written and the lock given up.
LEMMA WriteIInv ==
    ASSUME IInv, NEW r \in Runners, Write(r) PROVE IInv'
  <1> DEFINE t == runner[r].tag
             result == runner[r].out
  <1>1. runner[r].pc = "write" /\ phase = "reviewing" /\ t \in Tags
    BY AtWork DEF Write
  <1>2. UNCHANGED <<phase, plan, mode, verdict, chair, nonce, said>>
    BY DEF Write, report, counters
  <1>3. /\ runner' = [runner EXCEPT ![r] = Free]
        /\ runner'[r].pc = "idle"
        /\ \A s \in Runners \ {r} : runner'[s] = runner[s]
    BY FreeTyped DEF Write, Ends, IInv, TypeInv
  <1>4. /\ slot' \in [Tags -> SlotRecord]
        /\ slot'[t].result = result
        /\ \A u \in Tags : /\ slot'[u].request = slot[u].request
                           /\ slot'[u].flags = slot[u].flags
                           /\ u # t => slot'[u] = slot[u]
    <2> DEFINE new == [slot[t] EXCEPT !.lock = FALSE, !.result = result]
    <2>1. /\ slot \in [Tags -> SlotRecord] /\ slot[t] \in SlotRecord
          /\ result \in ResultRecord
      BY <1>1 DEF IInv, TypeInv, TypeOK, RunnerRecord
    <2>2. slot' = [slot EXCEPT ![t] = new]
      BY <1>1, <2>1 DEF Write
    <2>3. /\ new \in SlotRecord
          /\ new.request = slot[t].request /\ new.result = result
          /\ new.flags = slot[t].flags
      BY <2>1 DEF SlotRecord
    <2> HIDE DEF t, result, new
    <2> QED
      BY <1>1, <2>1, <2>2, <2>3
  <1>5. spent' \subseteq Tags /\ spent' \subseteq spent \cup {t}
        /\ (t \in spent' => t \in spent \/ result.kind = "terminal")
    BY <1>1 DEF Write, IInv, TypeInv, TypeOK
  <1>6. TypeInv'
    BY <1>2, <1>3, <1>4, <1>5, FreeTyped DEF IInv, TypeInv, TypeOK
  <1>7. slot[t].result.kind = None /\ Holds(r) /\ Sending(r)
        /\ result.nonce \in {0, runner[r].nonce} /\ runner[r].nonce > 0
        /\ (result.kind \in Sound /\ slot[t].request.nonce = result.nonce => said[t] = result)
    BY <1>1 DEF Holds, Sending, IInv, LockInv, NonceInv, SaidInv, Slot
  <1> HIDE DEF t, result
  <1>8. ASSUME NEW s \in Runners, runner'[s].pc # "idle"
        PROVE  /\ s # r /\ runner'[s] = runner[s] /\ runner[s].tag \in Tags
               /\ Holds(s)' = Holds(s) /\ Sending(s)' = Sending(s) /\ Asking(s)' = Asking(s)
               /\ Slot(s)'.request = Slot(s).request
               /\ runner[s].tag # t => Slot(s)' = Slot(s)
               /\ Holds(s) => runner[s].tag # t
    <2>1. s # r /\ runner'[s] = runner[s]
      BY <1>3, <1>8
    <2>2. Holds(s) => runner[s].tag # t
      BY <1>7, <2>1 DEF IInv, LockInv, t
    <2> QED
      BY <1>4, <1>8, <2>1, <2>2 DEF Holds, Sending, Asking, Slot, IInv, TypeInv
  <1>9. \A s \in Runners :
          Holds(s)' \/ Sending(s)' \/ Asking(s)' \/ runner'[s].pc \in {"archived", "write", "record"}
            => runner'[s].pc # "idle"
    BY DEF Holds, Sending, Asking
  <1>10. LockInv'
    <2>1. \A s \in Runners : Holds(s)' =>
            Holds(s) /\ runner'[s] = runner[s] /\ Slot(s)' = Slot(s)
      BY <1>8, <1>9
    <2>2. \A s \in Runners : runner'[s].pc \in {"archived", "write"} => Holds(s)'
      BY DEF Holds
    <2> QED
      BY <2>1, <2>2 DEF IInv, LockInv
  <1>11. NonceInv'
    <2>1. \A s \in Runners : Sending(s)' =>
            /\ s # r /\ Sending(s) /\ runner'[s] = runner[s]
            /\ Slot(s)'.request = Slot(s).request
      BY <1>8, <1>9
    <2>2. ASSUME NEW s \in Runners, Asking(s)' PROVE Slot(s)'.result.nonce # runner'[s].nonce
      <3>1. /\ s # r /\ runner'[s] = runner[s] /\ Asking(s) /\ Sending(s)
            /\ (runner[s].tag # t => Slot(s)' = Slot(s))
        BY <1>8, <1>9, <2>2 DEF Sending
      <3>2. CASE runner[s].tag = t
        <4>1. runner[s].nonce # runner[r].nonce /\ runner[s].nonce > 0
          BY <1>7, <3>1, <3>2 DEF IInv, NonceInv, t
        <4>2. Slot(s)'.result = result
          BY <1>4, <3>1, <3>2 DEF Slot
        <4> QED
          BY <1>7, <3>1, <4>1, <4>2
      <3>3. CASE runner[s].tag # t
        BY <3>1, <3>3 DEF IInv, NonceInv
      <3> QED
        BY <3>2, <3>3
    <2>3. \A u \in Tags : slot'[u].request.nonce <= nonce'[u]
      BY <1>2, <1>4 DEF IInv, NonceInv
    <2>4. \A s \in Runners : runner'[s].pc = "write" =>
            /\ runner'[s].out.nonce \in {0, runner'[s].nonce}
            /\ runner'[s].out.kind \in Sound => runner'[s].out.nonce = runner'[s].nonce
      BY <1>8, <1>9 DEF IInv, NonceInv
    <2> QED
      BY <1>2, <2>1, <2>2, <2>3, <2>4 DEF IInv, NonceInv
  <1>12. SaidInv'
    <2>1. \A s \in Runners : runner'[s].pc \in {"record", "write"} =>
            runner'[s] = runner[s] /\ Slot(s)'.request = Slot(s).request
      BY <1>8, <1>9
    <2>2. ASSUME NEW u \in Tags, slot'[u].result.kind \in Sound,
                 slot'[u].request.nonce = slot'[u].result.nonce
          PROVE  said'[u] = slot'[u].result
      <3>1. CASE u = t
        BY <1>2, <1>4, <1>7, <2>2, <3>1
      <3>2. CASE u # t
        BY <1>2, <1>4, <2>2, <3>2 DEF IInv, SaidInv
      <3> QED
        BY <3>1, <3>2
    <2> QED
      BY <1>2, <2>1, <2>2 DEF IInv, SaidInv
  <1>13. SpentInv'
    BY <1>4, <1>5, <1>7 DEF IInv, TypeInv, TypeOK, SpentInv
  <1>14. VerdictInv'
    BY <1>1, <1>2 DEF IInv, VerdictInv
  <1> QED
    BY <1>6, <1>10, <1>11, <1>12, <1>13, <1>14 DEF IInv

\* A step without runners, that leaves the slots and the plan alone.
LEMMA ReportIInv ==
    ASSUME IInv, UNCHANGED <<plan, slot, runner, nonce, said, spent>>,
           phase' \in {"chair", "published"}, chair' \in Nat, VerdictInv'
    PROVE  IInv'
  <1>1. TypeInv'
    BY DEF IInv, TypeInv, TypeOK
  <1>2. \A r \in Runners :
          /\ Slot(r)' = Slot(r) /\ Holds(r)' = Holds(r)
          /\ Asking(r)' = Asking(r) /\ Sending(r)' = Sending(r)
    BY DEF Slot, Holds, Asking, Sending
  <1>3. LockInv'
    BY <1>2 DEF IInv, LockInv
  <1>4. NonceInv'
    BY <1>2 DEF IInv, NonceInv
  <1>5. SaidInv' /\ SpentInv'
    BY <1>2 DEF IInv, SaidInv, SpentInv
  <1> QED
    BY <1>1, <1>3, <1>4, <1>5 DEF IInv

\* What nothing blocks has an answer of every required role, and no terminal
\* failure.
LEMMA UnblockedIsSupported == ASSUME IInv, ~Failures PROVE Supported
  <1>1. plan.complete /\ \A t \in plan.required : Validated(t)
    BY DEF Failures
  <1>2. ASSUME NEW t \in spent PROVE FALSE
    <2>1. t \in Tags
      BY DEF IInv, TypeInv, TypeOK
    <2>2. slot[t].flags = {} /\ slot[t].result.kind = "terminal"
      BY <2>1 DEF Failures, IInv, SpentInv
    <2>3. t \in plan.required
      BY <2>1, <2>2 DEF Failures
    <2> QED
      BY <2>2, <2>3 DEF Failures, Validated, Sound
  <1> QED
    BY <1>1, <1>2 DEF Supported

LEMMA AggregateIInv == ASSUME IInv, Aggregate PROVE IInv'
  <1>1. /\ UNCHANGED <<plan, slot, runner, nonce, said, spent>>
        /\ Running = {} /\ mode' = ModeOf
        /\ phase' = IF ModeOf = "review" THEN "chair" ELSE "published"
        /\ chair' = IF ModeOf = "review" THEN Chairs ELSE 0
    BY DEF Aggregate, counters
  <1>2. chair' \in Nat /\ phase' \in {"chair", "published"}
    BY <1>1
  <1>3. Running' = {} /\ (Supported => Supported')
    BY <1>1 DEF Running, Supported, Validated
  <1>4. CASE ModeOf = "blocked"
    BY <1>1, <1>2, <1>3, <1>4, ReportIInv DEF Aggregate, VerdictInv
  <1>5. CASE ModeOf = "review"
    <2>1. Supported
      BY <1>5, UnblockedIsSupported DEF ModeOf
    <2>2. verdict' = None
      BY <1>5 DEF Aggregate
    <2> QED
      BY <1>1, <1>2, <1>3, <1>5, <2>1, <2>2, ReportIInv DEF VerdictInv
  <1>6. CASE ModeOf = "deterministic"
    <2>1. Supported /\ \A t \in plan.required : slot[t].result.kind # "major"
      BY <1>6, UnblockedIsSupported DEF ModeOf
    <2> QED
      BY <1>1, <1>2, <1>3, <1>6, <2>1, ReportIInv DEF VerdictInv
  <1> QED
    BY <1>4, <1>5, <1>6 DEF ModeOf

LEMMA ChairIInv == ASSUME IInv, ChairStep PROVE IInv'
  <1>1. /\ UNCHANGED <<plan, slot, runner, nonce, said, spent, mode>>
        /\ phase = "chair" /\ chair > 0
    BY DEF ChairStep, ChairAnswers, ChairFails, counters
  <1>2. mode = "review" /\ Supported /\ Running = {}
    BY <1>1 DEF IInv, VerdictInv
  <1>3. Running' = {} /\ Supported'
    BY <1>1, <1>2 DEF Running, Supported, Validated
  <1>4. /\ chair' \in Nat /\ phase' \in {"chair", "published"}
        /\ phase' = "chair" => verdict' = None
        /\ verdict' = "PASS" => phase' = "published"
    BY <1>1 DEF ChairStep, ChairAnswers, ChairFails, IInv, TypeInv, TypeOK
  <1> QED
    BY <1>1, <1>2, <1>3, <1>4, ReportIInv DEF VerdictInv

LEMMA StutterIInv == ASSUME IInv, UNCHANGED vars PROVE IInv'
  <1> USE DEF vars
  <1>1. TypeInv' /\ SaidInv' /\ SpentInv'
    BY DEF IInv, TypeInv, TypeOK, SaidInv, SpentInv, Slot
  <1>2. LockInv' /\ NonceInv'
    BY DEF IInv, LockInv, NonceInv, Slot, Holds, Asking, Sending
  <1>3. VerdictInv'
    BY DEF IInv, VerdictInv, Running, Supported, Validated
  <1> QED
    BY <1>1, <1>2, <1>3 DEF IInv

LEMMA RunnerStepIInv ==
    ASSUME IInv, NEW r \in Runners, RunnerStep(r) \/ Crash(r) PROVE IInv'
  <1>1. CASE IssueRefused(r) \/ RecordRefused(r) \/ Crash(r)
    BY <1>1, EndIInv
  <1>2. CASE Archive(r)
    BY <1>2, ArchiveIInv
  <1>3. CASE Reissue(r)
    BY <1>3, ReissueIInv
  <1>4. CASE PreflightPasses(r) \/ \E kind \in {"unsound", "terminal"} : PreflightFails(r, kind)
    BY <1>4, PreflightIInv
  <1>5. CASE \E kind \in Answers : Call(r, kind)
    BY <1>5, CallIInv
  <1>6. CASE Claim(r)
    BY <1>6, ClaimIInv
  <1>7. CASE Write(r)
    BY <1>7, WriteIInv
  <1> QED
    BY <1>1, <1>2, <1>3, <1>4, <1>5, <1>6, <1>7 DEF RunnerStep

LEMMA StepIInv == IInv /\ [Next]_vars => IInv'
  <1> SUFFICES ASSUME IInv, [Next]_vars PROVE IInv'
    OBVIOUS
  <1>1. CASE \E required \in Routes, complete, new, fresh \in BOOLEAN :
               Prepare(required, complete, new, fresh)
    BY <1>1, PrepareIInv
  <1>2. CASE \E r \in Runners, t \in Tags : Launch(r, t)
    BY <1>2, LaunchIInv
  <1>3. CASE \E r \in Runners : RunnerStep(r) \/ Crash(r)
    BY <1>3, RunnerStepIInv
  <1>4. CASE Aggregate
    BY <1>4, AggregateIInv
  <1>5. CASE ChairStep
    BY <1>5, ChairIInv
  <1>6. CASE UNCHANGED vars
    BY <1>6, StutterIInv
  <1> QED
    BY <1>1, <1>2, <1>3, <1>4, <1>5, <1>6 DEF Next

LEMMA Invariance == Spec => []IInv
  BY InitIInv, StepIInv, PTL DEF Spec
-----------------------------------------------------------------------------
\* Every file and process of a review holds what it should.
THEOREM TypeCorrect == Spec => []TypeOK
  <1>1. IInv => TypeOK
    BY DEF IInv, TypeInv
  <1> QED
    BY <1>1, Invariance, PTL

\* A PASS rests on what the provider of every required role answered to the
\* request that is in the slot (role_review.py aggregate, synthesize_roles.py).
THEOREM PassIsSupported == Spec => []PassNeedsEveryRole
  <1>1. IInv => PassNeedsEveryRole
    <2> SUFFICES ASSUME IInv, verdict = "PASS"
                 PROVE  plan.complete /\ \A t \in plan.required : Answered(t)
      BY DEF PassNeedsEveryRole
    <2>1. Supported /\ (mode = "review" \/ \A t \in plan.required : slot[t].result.kind # "major")
      BY DEF IInv, VerdictInv
    <2>2. ASSUME NEW t \in plan.required PROVE Answered(t)
      <3>1. t \in Tags /\ Validated(t)
        BY <2>1 DEF IInv, TypeInv, TypeOK, Supported
      <3>2. said[t] = slot[t].result
        BY <3>1 DEF Validated, IInv, SaidInv
      <3> QED
        BY <2>1, <3>1, <3>2 DEF Answered, Validated, Sound
    <2> QED
      BY <2>1, <2>2 DEF Supported
  <1> QED
    BY <1>1, Invariance, PTL

\* A terminal diagnostic is never retried into a PASS (role_review.py:599).
THEOREM TerminalFailuresStay == Spec => []TerminalIsFinal
  <1>1. IInv => TerminalIsFinal
    BY DEF IInv, VerdictInv, Supported, TerminalIsFinal
  <1> QED
    BY <1>1, Invariance, PTL

\* Preparations are counted, and nothing but a preparation counts.
LEMMA PrepareCounts ==
  ASSUME NEW required, NEW complete, NEW new, NEW fresh,
         Prepare(required, complete, new, fresh)
  PROVE  plans' = plans + 1
  BY DEF Prepare

LEMMA OthersKeepPlans ==
  ASSUME (\E r \in Runners, t \in Tags : Launch(r, t))
           \/ (\E r \in Runners : RunnerStep(r) \/ Crash(r))
           \/ Aggregate \/ ChairStep \/ UNCHANGED vars
  PROVE  plans' = plans
  <1>1. ASSUME NEW r \in Runners, NEW t \in Tags, Launch(r, t) PROVE plans' = plans
    BY <1>1 DEF Launch
  <1>2. ASSUME NEW r \in Runners, RunnerStep(r) PROVE plans' = plans
    <2>1. CASE IssueRefused(r) \/ Archive(r) \/ RecordRefused(r) \/ Claim(r)
      BY <2>1 DEF IssueRefused, Archive, RecordRefused, Claim, counters
    <2>2. CASE Reissue(r) \/ Write(r) \/ PreflightPasses(r)
      BY <2>2 DEF Reissue, Write, PreflightPasses, counters
    <2>3. ASSUME NEW kind, PreflightFails(r, kind) \/ Call(r, kind) PROVE plans' = plans
      BY <2>3 DEF PreflightFails, Call, counters
    <2> QED
      BY <1>2, <2>1, <2>2, <2>3 DEF RunnerStep
  <1>3. ASSUME NEW r \in Runners, Crash(r) PROVE plans' = plans
    BY <1>3 DEF Crash, counters
  <1>4. Aggregate => plans' = plans
    BY DEF Aggregate, counters
  <1>5. ChairStep => plans' = plans
    BY DEF ChairStep, ChairAnswers, ChairFails, counters
  <1>6. UNCHANGED vars => plans' = plans
    BY DEF vars
  <1> QED
    BY <1>1, <1>2, <1>3, <1>4, <1>5, <1>6

PlansTyped == plans \in Nat

LEMMA PlansCounted == Spec => []PlansTyped
  <1>1. Init => PlansTyped
    BY DEF Init, PlansTyped
  <1>2. PlansTyped /\ [Next]_vars => PlansTyped'
    <2> SUFFICES ASSUME PlansTyped, [Next]_vars PROVE PlansTyped'
      OBVIOUS
    <2>1. CASE \E required \in Routes, complete, new, fresh \in BOOLEAN :
                 Prepare(required, complete, new, fresh)
      <3>1. plans' = plans + 1
        BY <2>1, PrepareCounts
      <3> QED
        BY <3>1 DEF PlansTyped
    <2>2. CASE plans' = plans
      BY <2>2 DEF PlansTyped
    <2> QED
      BY <2>1, <2>2, OthersKeepPlans DEF Next
  <1> QED
    BY <1>1, <1>2, PTL DEF Spec

\* No runner replaces or removes a valid result (role_review.py _issue_request
\* and record): it would have to find none, or an invalid one, under the lock.
THEOREM ValidResultsStay == Spec => ValidResultStays
  <1> DEFINE Stays == \A t \in Tags :
               slot[t].result.kind \in Sound /\ plans' = plans
                 => slot'[t].result = slot[t].result
  <1>1. ASSUME IInv, PlansTyped, [Next]_vars PROVE Stays
    <2>1. CASE slot' = slot
      BY <2>1
    <2>2. ASSUME NEW required \in Routes, NEW complete \in BOOLEAN, NEW new \in BOOLEAN,
                 NEW fresh \in BOOLEAN, Prepare(required, complete, new, fresh)
          PROVE  plans' # plans
      <3>1. plans' = plans + 1
        BY <2>2, PrepareCounts
      <3> QED
        BY <1>1, <3>1 DEF PlansTyped
    <2>3. ASSUME NEW r \in Runners, RunnerStep(r) \/ Crash(r) PROVE Stays
      <3>1. slot \in [Tags -> SlotRecord] /\ (runner[r].pc # "idle" => runner[r].tag \in Tags)
        BY <1>1 DEF IInv, TypeInv, TypeOK
      <3>2. CASE Reissue(r) \/ Write(r)
        <4>1. slot[runner[r].tag].result.kind \notin Sound
          BY <1>1, <3>2 DEF Reissue, Write, IInv, LockInv, Slot, Sound
        <4>2. \A u \in Tags : u # runner[r].tag => slot'[u] = slot[u]
          BY <3>1, <3>2 DEF Reissue, Write
        <4> QED
          BY <4>1, <4>2
      <3>3. CASE Archive(r) \/ Claim(r) \/ RecordRefused(r)
                   \/ \E kind \in {"unsound", "terminal"} : PreflightFails(r, kind)
        <4>1. runner[r].tag \in Tags
          BY <3>1, <3>3 DEF Archive, Claim, RecordRefused, PreflightFails
        <4>2. Archive(r) => \A u \in Tags : slot'[u].result = slot[u].result
          BY <3>1, <4>1 DEF Archive, SlotRecord
        <4>3. Claim(r) \/ RecordRefused(r) => \A u \in Tags : slot'[u].result = slot[u].result
          BY <3>1, <4>1 DEF Claim, RecordRefused, SlotRecord
        <4>4. ASSUME NEW kind \in {"unsound", "terminal"}, PreflightFails(r, kind)
              PROVE  \A u \in Tags : slot'[u].result = slot[u].result
          BY <3>1, <4>1, <4>4 DEF PreflightFails, SlotRecord
        <4> QED
          BY <3>3, <4>2, <4>3, <4>4
      <3>4. CASE IssueRefused(r) \/ PreflightPasses(r) \/ Crash(r)
                   \/ \E kind \in Answers : Call(r, kind)
        BY <3>4 DEF IssueRefused, PreflightPasses, Crash, Call
      <3> QED
        BY <2>3, <3>2, <3>3, <3>4 DEF RunnerStep
    <2>4. ASSUME NEW r \in Runners, NEW t \in Tags, Launch(r, t) PROVE slot' = slot
      BY <2>4 DEF Launch
    <2>5. Aggregate \/ ChairStep \/ UNCHANGED vars => slot' = slot
      BY DEF Aggregate, ChairStep, ChairAnswers, ChairFails, vars
    <2> QED
      BY <1>1, <2>1, <2>2, <2>3, <2>4, <2>5 DEF Next
  <1>2. IInv /\ PlansTyped /\ [Next]_vars => [Stays]_vars
    BY <1>1
  <1> QED
    BY <1>2, Invariance, PlansCounted, PTL DEF Spec, ValidResultStays
=============================================================================
