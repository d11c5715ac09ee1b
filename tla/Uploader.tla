------------------------------ MODULE Uploader ------------------------------
(***************************************************************************)
(* The upload of one ACI (dgr/push.go): the walk over the prefixes of its  *)
(* name for a push endpoint (dgr/discovery), the initiation, the parts,    *)
(* and the report of success or failure.                                   *)
(*                                                                         *)
(* Each request is on its way for a while: the server may handle it after  *)
(* the client saw its connection break and went on.  The server is modelled *)
(* by what the client expects of it.                                       *)
(***************************************************************************)
EXTENDS Naturals, Sequences

CONSTANTS
  Depth,        \* how many prefixes the name has, itself included
  Signed,       \* whether image.gz.aci.asc exists
  ServerChecks  \* whether the server looks for missing parts before publishing

ASSUME UploaderAssumption ==
  Depth \in Nat \ {0} /\ Signed \in BOOLEAN /\ ServerChecks \in BOOLEAN

\* Prefix 1 is the whole name, the others are ever shorter.
Prefixes  == 1..Depth
Endpoints == {"image", "keys", "push"}

PartSeq == IF Signed THEN <<"manifest", "ACI", "signature">> ELSE <<"manifest", "ACI">>
Parts   == IF Signed THEN {"manifest", "ACI", "signature"} ELSE {"manifest", "ACI"}

Requests == {"initiate", "success", "failure"} \cup Parts

\* The requests that open and close the session at the server.
Controls == {"initiate", "success", "failure"}

\* A reply with status 200, one with status 400 or a negative body, and any
\* other status.
Replies == {"accepted", "refused", "error"}

VARIABLES
  site,      \* the endpoints each prefix offers
  pc,        \* what the client is at
  turn,      \* the turn of the walk
  attempts,  \* the prefixes that gave no answer
  cut,       \* history: the prefixes whose page broke off
  found,     \* the endpoints found
  endpoint,  \* the prefix whose push endpoint is used, 0 for none
  urls,      \* whether the reply to the initiation named the URLs to use
  part,      \* the index of the part the client uploads
  reply,     \* the reply to the client's request, "none" while there is none
  waiting,   \* whether the client's request was sent
  failed,    \* the requests that failed or were answered in the negative
  result,    \* "running", "ok" or "error"
  network,   \* the requests on their way to the server
  session,   \* at the server
  stored     \* the parts the server has

walk   == <<site, turn, attempts, cut, found, endpoint>>
server == <<session, stored>>
vars   == <<walk, pc, urls, part, reply, waiting, failed, result, network, server>>

Init ==
  /\ site \in [Prefixes -> SUBSET Endpoints]
  /\ pc = "open" /\ turn = 1 /\ attempts = {} /\ cut = {} /\ found = {}
  /\ endpoint = 0
  /\ urls = FALSE /\ part = 1 /\ reply = "none" /\ waiting = FALSE /\ failed = {}
  /\ result = "running" /\ network = {} /\ session = "none" /\ stored = {}

End(r) == pc' = "done" /\ result' = r

----------------------------------------------------------------------------
(* The client *)

\* The files, the manifest and its labels, and the name.
Open ==
  /\ pc = "open"
  /\ (pc' = "walk" /\ UNCHANGED result) \/ End("error")
  /\ UNCHANGED <<walk, urls, part, reply, waiting, failed, network, server>>

\* The prefix DiscoverWalk asks in a turn.
ShortestFirst == Depth + 1 - turn
LongestFirst  == turn

Turn == /\ pc = "walk" /\ turn \in Prefixes /\ found = {}
        /\ turn' = turn + 1
        /\ UNCHANGED <<site, pc, urls, part, reply, waiting, failed, result, network, server>>

\* One turn of DiscoverWalk: the prefix cannot be asked, ...
NoAnswer == /\ Turn
            /\ attempts' = attempts \cup {LongestFirst}
            /\ UNCHANGED <<cut, found, endpoint>>

\* ... or what is read of its page names these endpoints.
Take(p, offered) == /\ found' = offered
                    /\ endpoint' = IF "push" \in offered THEN p ELSE 0

Discover == /\ Turn
            /\ Take(LongestFirst, site[LongestFirst])
            /\ UNCHANGED <<attempts, cut>>

\* The page breaks off: the tokenizer gives an ErrorToken as at the end of a
\* page, the tags read so far count, and nothing says that more were coming.
DiscoverPart == /\ Turn
                /\ \E offered \in SUBSET site[LongestFirst] : Take(LongestFirst, offered)
                /\ cut' = cut \cup {LongestFirst}
                /\ UNCHANGED attempts

\* The walk ends at the first prefix that offers anything, or after the last.
EndWalk ==
  /\ pc = "walk"
  /\ found # {} \/ turn \notin Prefixes
  /\ IF endpoint # 0 THEN pc' = "initiate" /\ UNCHANGED result ELSE End("error")
  /\ UNCHANGED <<walk, urls, part, reply, waiting, failed, network, server>>

\* The request the client is at.
Request == IF pc = "part" THEN PartSeq[part] ELSE pc

\* A request goes to the endpoint found, or to a URL of the initiation.
Send ==
  /\ pc \in {"initiate", "part", "success", "failure"} /\ ~waiting
  /\ pc = "initiate" \/ urls
  /\ network' = network \cup {Request}
  /\ waiting' = TRUE
  /\ UNCHANGED <<walk, pc, urls, part, reply, failed, result, server>>

\* A reply read to its end.
Read(at) == /\ pc = at /\ waiting /\ reply \in {"accepted", "refused"}
            /\ waiting' = FALSE /\ reply' = "none"

\* A refusal is read as if it named the URLs, unless it cannot be parsed.
Initiated ==
  /\ Read("initiate")
  /\ \/ pc' = "part" /\ urls' = (reply = "accepted") /\ UNCHANGED <<failed, result>>
     \/ reply = "refused" /\ End("error") /\ failed' = failed \cup {Request} /\ UNCHANGED urls
  /\ UNCHANGED <<walk, part, network, server>>

PastLastPart == part > Len(PartSeq)
AtLastPart   == part = Len(PartSeq)

\* uploadPart closes the reply unread: a part refused with a 400 counts.
PartDone ==
  /\ Read("part")
  /\ IF AtLastPart THEN pc' = "success" /\ UNCHANGED part
                   ELSE part' = part + 1 /\ UNCHANGED pc
  /\ UNCHANGED <<walk, urls, failed, result, network, server>>

\* complete looks at the success field of the reply.
AnyReply  == TRUE
Confirmed == reply = "accepted"

Complete ==
  /\ failed' = IF Confirmed THEN failed ELSE failed \cup {Request}
  /\ UNCHANGED <<walk, urls, part, network, server>>

SuccessReported ==
  /\ Read("success") /\ Complete
  /\ End(IF Confirmed THEN "ok" ELSE "error")

\* Upload returns the error of the part, with that of the report if it has one.
FailureReported == Read("failure") /\ Complete /\ End("error")

\* A part that fails is reported to the server; every other failure ends the
\* upload.
ReturnAtOnce  == End("error")
ReportFailure == pc' = "failure" /\ UNCHANGED result

\* A request cannot be sent, its connection breaks at any time, or the reply
\* has another status.
RequestFails ==
  /\ pc \in {"initiate", "part", "success", "failure"}
  /\ failed' = failed \cup {Request}
  /\ IF pc = "part" THEN ReportFailure ELSE End("error")
  /\ waiting' = FALSE /\ reply' = "none"
  /\ UNCHANGED <<walk, urls, part, network, server>>

----------------------------------------------------------------------------
(* The server *)

\* The server handles a request; its reply is read by a client that waits.
Handle(r, answer) ==
  /\ r \in network /\ network' = network \ {r}
  /\ reply' = IF waiting /\ Request = r THEN answer ELSE reply
  /\ UNCHANGED <<walk, pc, urls, part, waiting, failed, result>>

\* It may turn down any request, and does outside of a session.
TurnDown(r) ==
  /\ \E answer \in {"refused", "error"} : Handle(r, answer)
  /\ UNCHANGED server

OpenSession ==
  /\ session = "none" /\ Handle("initiate", "accepted")
  /\ session' = "open" /\ UNCHANGED stored

StorePart(p) ==
  /\ session = "open" /\ Handle(p, "accepted")
  /\ stored' = stored \cup {p} /\ UNCHANGED session

CancelSession ==
  /\ session = "open" /\ Handle("failure", "accepted")
  /\ session' = "cancelled" /\ UNCHANGED stored

PublishSession ==
  /\ session = "open" /\ Handle("success", "accepted")
  /\ ServerChecks => stored = Parts
  /\ session' = "published" /\ UNCHANGED stored

\* The server does not want the image: the session is over.
RejectSession ==
  /\ session = "open" /\ Handle("success", "refused")
  /\ session' = "cancelled" /\ UNCHANGED stored

Client == \/ Open \/ NoAnswer \/ Discover \/ DiscoverPart \/ EndWalk
          \/ Send \/ Initiated \/ PartDone \/ SuccessReported \/ FailureReported \/ RequestFails

Server == \/ \E r \in Requests : TurnDown(r)
          \/ \E p \in Parts : StorePart(p)
          \/ OpenSession \/ CancelSession \/ PublishSession \/ RejectSession

Next == Client \/ Server
Spec == Init /\ [][Next]_vars

----------------------------------------------------------------------------
(* Properties *)

\* The client is at a request it may send, within the parts, and the server
\* holds only parts of this ACI.
TypeOK ==
  /\ site \in [Prefixes -> SUBSET Endpoints]
  /\ pc \in {"open", "walk", "initiate", "part", "success", "failure", "done"}
  /\ turn \in 1..(Depth + 1) /\ attempts \subseteq Prefixes /\ cut \subseteq Prefixes
  /\ found \subseteq Endpoints /\ endpoint \in 0..Depth
  /\ urls \in BOOLEAN /\ part \in 1..Len(PartSeq)
  /\ reply \in Replies \cup {"none"} /\ waiting \in BOOLEAN
  /\ failed \subseteq Requests /\ result \in {"running", "ok", "error"}
  /\ network \subseteq Requests
  /\ session \in {"none", "open", "cancelled", "published"} /\ stored \subseteq Parts

\* "Upload performs the upload of the ACI and signature" (push.go:62): when it
\* returns nil the server has published, and a server that checks has every
\* part, although refused parts are not noticed (push.go:221-228, 306-307).
SuccessIsPublished ==
  result = "ok" => session = "published" /\ (ServerChecks => stored = Parts)

\* After an error the session is not left open and nothing is published,
\* unless the client knows that the request that opens or closes the session
\* failed (push.go:145-160).
ErrorIsKnown ==
  result = "error" /\ session \in {"open", "published"} => failed \cap Controls # {}

\* The ACI goes to the push endpoint of the longest prefix that has one
\* (discovery.go:180-197, 226-241).  A longer prefix is passed over only when it
\* could not be asked, or when its page broke off, which leaves no failed attempt
\* behind (discovery.go:96-99).
EndpointIsClosest ==
  session # "none" =>
    /\ endpoint # 0
    /\ \A p \in Prefixes : p < endpoint /\ "push" \in site[p] => p \in attempts \cup cut

\* See Publication.
Promised == INSTANCE Publication WITH published <- session = "published"

\* The exchange of requests, however late they are handled, gives what Push
\* takes for one step (aci-push.go:39-98).
ImplementsPublication == Promised!Spec
============================================================================
