--------------------------- MODULE UploaderProofs ---------------------------
(***************************************************************************)
(* Theorems about Uploader, for every name, signed or not, and whether or   *)
(* not the server checks.                                                  *)
(***************************************************************************)
EXTENDS Uploader, TLAPS

\* Before an endpoint is found nothing was sent, and once one is found every
\* longer prefix was asked.
Walked ==
  /\ found = {} =>
       endpoint = 0 /\ \A p \in Prefixes : p < turn => p \in attempts \cup cut \/ site[p] = {}
  /\ pc = "open" => endpoint = 0
  /\ endpoint = 0 => pc \in {"open", "walk", "done"} /\ network = {} /\ session = "none"
  /\ \A p \in Prefixes : p < endpoint /\ "push" \in site[p] => p \in attempts \cup cut

\* A reply to a report tells the state of the session, which is final.
Told ==
  /\ pc = "success" /\ reply = "accepted" => session = "published"
  /\ pc = "failure" /\ reply = "accepted" => session = "cancelled"
  /\ session = "published" => (ServerChecks => stored = Parts)

\* Why the client returned.
Ended ==
  /\ pc # "done" => result = "running"
  /\ result = "ok" => session = "published"
  /\ result = "error" =>
       failed \cap Controls # {} \/ session = "cancelled" \/ endpoint = 0

IInv == TypeOK /\ Walked /\ Told /\ Ended

LEMMA PartsType ==
  /\ Len(PartSeq) \in Nat \ {0}
  /\ \A i \in 1..Len(PartSeq) : PartSeq[i] \in Parts
  /\ Parts \cap Controls = {} /\ Parts \subseteq Requests /\ Controls \subseteq Requests
  /\ \A p \in Parts : p \notin {"open", "walk", "part", "done"}
<1>1. CASE Signed
  BY <1>1 DEF PartSeq, Parts, Controls, Requests
<1>2. CASE ~Signed
  BY <1>2 DEF PartSeq, Parts, Controls, Requests
<1>3. QED BY <1>1, <1>2

LEMMA InitInv == Init => IInv
<1> SUFFICES ASSUME Init PROVE IInv  OBVIOUS
<1>1. 1 \in 1..(Depth + 1) /\ 0 \in 0..Depth /\ 1 \in 1..Len(PartSeq)
  BY PartsType, UploaderAssumption
<1>2. TypeOK  BY <1>1 DEF Init, TypeOK
<1>3. Walked /\ Told /\ Ended
  BY UploaderAssumption DEF Init, Walked, Told, Ended, Prefixes
<1>4. QED BY <1>2, <1>3 DEF IInv

\* What the client is at is a request, and a part only at "part".
LEMMA RequestType ==
  ASSUME TypeOK, pc \in {"initiate", "part", "success", "failure"}
  PROVE  /\ Request \in Requests
         /\ pc = "part" => Request \in Parts
         /\ pc # "part" => Request = pc /\ Request \in Controls
BY PartsType DEF TypeOK, Request, Requests, Controls

LEMMA ClientInv == ASSUME IInv, Client PROVE IInv'
<1> USE PartsType, RequestType, UploaderAssumption
      DEF IInv, TypeOK, Walked, Told, Ended, End, walk, server, Prefixes
<1>1. CASE Open
  <2>1. TypeOK'  BY <1>1 DEF Open
  <2>2. Walked' /\ Told'  BY <1>1 DEF Open
  <2>3. Ended'  BY <1>1 DEF Open
  <2>4. QED BY <2>1, <2>2, <2>3
<1>2. CASE Turn /\ (NoAnswer \/ Discover \/ DiscoverPart)
  <2> DEFINE p == LongestFirst
  <2>1. p = turn /\ p \in Prefixes /\ found = {} /\ endpoint = 0 /\ p \in 1..Depth
    BY <1>2 DEF Turn, LongestFirst
  <2>2. site[p] \subseteq Endpoints  BY <2>1
  <2>3. turn' = turn + 1 /\ turn' \in 1..(Depth + 1)  BY <1>2, <2>1 DEF Turn
  <2>4. \A q \in Prefixes : q < turn' => q < turn \/ q = p  BY <2>1, <2>3
  <2>5. CASE NoAnswer
    BY <2>1, <2>3, <2>4, <2>5 DEF NoAnswer, Turn
  <2>6. CASE Discover
    BY <2>1, <2>2, <2>3, <2>4, <2>6 DEF Discover, Turn, Take
  <2>7. CASE DiscoverPart
    <3>1. PICK offered \in SUBSET site[p] : Take(p, offered)
      BY <2>7 DEF DiscoverPart
    <3>2. offered \subseteq Endpoints  BY <2>2, <3>1
    <3>3. TypeOK'  BY <2>1, <2>3, <2>7, <3>1, <3>2 DEF DiscoverPart, Turn, Take
    <3>4. Walked' /\ Told' /\ Ended'
      BY <2>1, <2>3, <2>4, <2>7, <3>1 DEF DiscoverPart, Turn, Take
    <3>5. QED BY <3>3, <3>4
  <2>8. QED BY <1>2, <2>5, <2>6, <2>7
<1>3. CASE EndWalk
  <2>1. TypeOK'  BY <1>3 DEF EndWalk
  <2>2. Walked' /\ Told'  BY <1>3 DEF EndWalk
  <2>3. Ended'  BY <1>3 DEF EndWalk
  <2>4. QED BY <2>1, <2>2, <2>3
<1>4. CASE Send       BY <1>4 DEF Send
<1>5. CASE Initiated  BY <1>5 DEF Initiated, Read
<1>6. CASE PartDone
  <2>1. Len(PartSeq) \in Nat /\ part \in 1..Len(PartSeq)  OBVIOUS
  <2>2. part' \in 1..Len(PartSeq)  BY <1>6, <2>1 DEF PartDone, AtLastPart
  <2>3. TypeOK'  BY <1>6, <2>2 DEF PartDone, Read
  <2>4. Walked' /\ Told'  BY <1>6 DEF PartDone, Read
  <2>5. Ended'  BY <1>6 DEF PartDone, Read
  <2>6. QED BY <2>3, <2>4, <2>5
<1>7. CASE SuccessReported
  BY <1>7 DEF SuccessReported, Complete, Confirmed, Read
<1>8. CASE FailureReported
  BY <1>8 DEF FailureReported, Complete, Confirmed, Read
<1>9. CASE RequestFails  BY <1>9 DEF RequestFails, ReportFailure
<1>10. NoAnswer \/ Discover \/ DiscoverPart => Turn
  BY DEF NoAnswer, Discover, DiscoverPart
<1>11. QED
  BY <1>10, <1>1, <1>2, <1>3, <1>4, <1>5, <1>6, <1>7, <1>8, <1>9 DEF Client

LEMMA ServerInv == ASSUME IInv, Server PROVE IInv'
<1> USE PartsType, UploaderAssumption
      DEF IInv, TypeOK, Walked, Told, Ended, walk, server, Prefixes, Handle, Replies, Request,
          Controls
<1>1. CASE \E r \in Requests : TurnDown(r)  BY <1>1 DEF TurnDown
<1>2. CASE \E p \in Parts : StorePart(p)    BY <1>2 DEF StorePart
<1>3. CASE OpenSession     BY <1>3 DEF OpenSession
<1>4. CASE CancelSession   BY <1>4 DEF CancelSession
<1>5. CASE PublishSession  BY <1>5 DEF PublishSession
<1>6. CASE RejectSession   BY <1>6 DEF RejectSession
<1>7. QED BY <1>1, <1>2, <1>3, <1>4, <1>5, <1>6 DEF Server

LEMMA StepInv == IInv /\ [Next]_vars => IInv'
<1> SUFFICES ASSUME IInv, [Next]_vars PROVE IInv'  OBVIOUS
<1>1. CASE UNCHANGED vars
  BY <1>1 DEF IInv, TypeOK, Walked, Told, Ended, vars, walk, server
<1>2. QED BY <1>1, ClientInv, ServerInv DEF Next

LEMMA Inductive == Spec => []IInv
BY InitInv, StepInv, PTL DEF Spec

\* The invariant that types the variables (push.go:49-60, 131-143).
THEOREM TypeCorrect == Spec => []TypeOK
BY Inductive, PTL DEF IInv

\* Upload returns nil only for what the server has published (push.go:157-162).
THEOREM SuccessCorrect == Spec => []SuccessIsPublished
<1>1. IInv => SuccessIsPublished  BY DEF IInv, Told, Ended, SuccessIsPublished
<1>2. QED BY <1>1, Inductive, PTL

\* An upload that failed is cancelled, or the client knows which report or
\* initiation failed (push.go:145-160).
THEOREM ErrorCorrect == Spec => []ErrorIsKnown
<1>1. IInv => ErrorIsKnown  BY DEF IInv, Walked, Ended, ErrorIsKnown
<1>2. QED BY <1>1, Inductive, PTL

\* No longer prefix with a push endpoint was passed over, unless it could not be
\* asked or its page broke off (discovery.go:96-99, 180-197, 226-241).
THEOREM EndpointCorrect == Spec => []EndpointIsClosest
<1>1. IInv => EndpointIsClosest  BY DEF IInv, Walked, EndpointIsClosest
<1>2. QED BY <1>1, Inductive, PTL

LEMMA StepPromised == IInv /\ [Next]_vars => [Promised!Next]_(Promised!vars)
<1> SUFFICES ASSUME IInv, [Next]_vars PROVE [Promised!Next]_(Promised!vars)  OBVIOUS
<1> USE DEF IInv, Ended, Told, Promised!Next, Promised!vars, Promised!Publish,
        Promised!Succeed, Promised!GiveUp, walk, server, End
<1>1. CASE UNCHANGED vars  BY <1>1 DEF vars
<1>2. CASE Client
  BY <1>2 DEF Client, Open, Turn, NoAnswer, Discover, DiscoverPart, EndWalk, Send, Initiated, PartDone, SuccessReported,
              FailureReported, RequestFails, ReportFailure, Complete, Confirmed, Read
<1>3. CASE Server
  BY <1>3 DEF Server, TurnDown, StorePart, OpenSession, CancelSession, PublishSession,
              RejectSession, Handle
<1>4. QED BY <1>1, <1>2, <1>3 DEF Next

\* What Push takes for one step is one (aci-push.go:39-98, push.go:64-163).
THEOREM PublicationImplemented == Spec => ImplementsPublication
<1>1. Init => Promised!Init  BY DEF Init, Promised!Init
<1>2. QED
  BY <1>1, Inductive, StepPromised, PTL DEF Spec, ImplementsPublication, Promised!Spec
=============================================================================
