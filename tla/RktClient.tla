----------------------------- MODULE RktClient -----------------------------
(***************************************************************************)
(* The arguments of the rkt commands (dgr/common/rkt-client.go).           *)
(*                                                                         *)
(* One RktClient serves all goroutines of dgr.  Every method starts from   *)
(* the slice rkt.globalArgs[1:] and appends the words of its command to    *)
(* it.  Go's append writes into the array under the slice when there is    *)
(* room, so two goroutines may write, and read, the same words.  The       *)
(* global arguments themselves never change and are left out: the module   *)
(* follows the spare room behind them and what each goroutine's slice      *)
(* shows of it.                                                            *)
(***************************************************************************)
EXTENDS Naturals, Sequences

CONSTANTS
  Goroutines,  \* the goroutines that call rkt
  Images,      \* what the calls are about: image names, hashes, uuid files
  GlobalArgs,  \* how many elements globalArgs has, the rkt command included
  StoreArgs,   \* the words of --no-store and --store-only, as configured
  Parallel     \* whether --parallel lets goroutines overlap

Methods == {"Fetch", "CatManifest", "ImageRm", "RmFromFile", "Run"}
Request == [method : Methods, image : Images]

\* rkt and --insecure-options are always there, five more may be configured.
ASSUME RktAssumption ==
  /\ GlobalArgs \in 2..7
  /\ StoreArgs \in Seq({"--no-store", "--store-only"})
  /\ Parallel \in BOOLEAN

\* The capacity append gives a slice that grew one element at a time to n.
Capacity(n) == CHOOSE c \in {1, 2, 4, 8} : n <= c /\ c < 2 * n

Spare == Capacity(GlobalArgs) - GlobalArgs

\* The words each append call of a method adds.  Those of Run stand for the
\* arguments of prepareRktRunArguments: always more than there can be room for.
Appends(r) ==
  CASE r.method = "Fetch"       -> << <<"fetch">>, StoreArgs, <<"--full", r.image>> >>
    [] r.method = "CatManifest" -> << <<"image", "cat-manifest", r.image>> >>
    [] r.method = "ImageRm"     -> << <<"image", "rm", r.image>> >>
    [] r.method = "RmFromFile"  -> << <<"rm", "--uuid-file", r.image>> >>
    [] r.method = "Run"         -> << <<"run">>, <<"--net=host", "--insecure-options=image",
                                                   "--interactive", r.image>> >>

\* The command the caller of the method asks for.
Command(r) ==
  CASE r.method = "Fetch"       -> <<"fetch">> \o StoreArgs \o <<"--full", r.image>>
    [] r.method = "CatManifest" -> <<"image", "cat-manifest", r.image>>
    [] r.method = "ImageRm"     -> <<"image", "rm", r.image>>
    [] r.method = "RmFromFile"  -> <<"rm", "--uuid-file", r.image>>
    [] r.method = "Run"         -> <<"run", "--net=host", "--insecure-options=image",
                                     "--interactive", r.image>>

Words == {"", "fetch", "--no-store", "--store-only", "--full", "image", "cat-manifest",
          "rm", "--uuid-file", "run", "--net=host", "--insecure-options=image",
          "--interactive"} \cup Images

VARIABLES
  room,     \* the elements of the array behind globalArgs, from its length on
  request,  \* per goroutine: the method it is in
  pc,       \* per goroutine: "idle", "append", "started"
  step,     \* per goroutine: how many appends it has done
  slice,    \* per goroutine: its slice args, without the global arguments
  argv      \* per goroutine: what rkt was started with

vars == <<room, request, pc, step, slice, argv>>

\* A slice shares the first len words of the room, or holds words of its own.
GlobalSlice == [shared |-> TRUE, len |-> 0, own |-> <<>>]

\* Where a method starts: rkt.globalArgs[1:], whatever was appended before.
LastSlice(g) == slice[g]
StartSlice(g) == GlobalSlice

Content(s) == IF s.shared THEN SubSeq(room, 1, s.len) ELSE s.own

\* Whether append finds room behind s for the words.
HasRoom(s, words) == s.shared /\ s.len + Len(words) <= Spare

Init ==
  /\ room = [i \in 1..Spare |-> ""]
  /\ request \in [Goroutines -> Request]
  /\ pc = [g \in Goroutines |-> "idle"]
  /\ step = [g \in Goroutines |-> 0]
  /\ slice = [g \in Goroutines |-> GlobalSlice]
  /\ argv = [g \in Goroutines |-> <<>>]

\* A goroutine calls a method of the client.
Call(g, r) ==
  /\ pc[g] = "idle"
  /\ Parallel \/ \A h \in Goroutines : pc[h] = "idle"
  /\ request' = [request EXCEPT ![g] = r]
  /\ pc' = [pc EXCEPT ![g] = "append"]
  /\ step' = [step EXCEPT ![g] = 0]
  /\ slice' = [slice EXCEPT ![g] = StartSlice(g)]
  /\ argv' = [argv EXCEPT ![g] = <<>>]
  /\ UNCHANGED room

\* One append.  There is room: the words go into the shared array.
AppendInPlace(g) ==
  /\ pc[g] = "append" /\ step[g] < Len(Appends(request[g]))
  /\ LET words == Appends(request[g])[step[g] + 1]
         s     == slice[g]
     IN /\ HasRoom(s, words)
        /\ room' = [i \in 1..Spare |-> IF i \in (s.len + 1)..(s.len + Len(words))
                                         THEN words[i - s.len] ELSE room[i]]
        /\ slice' = [slice EXCEPT ![g].len = s.len + Len(words)]
  /\ step' = [step EXCEPT ![g] = @ + 1]
  /\ UNCHANGED <<request, pc, argv>>

\* There is none, or the slice already left the array: the slice is copied.
AppendCopy(g) ==
  /\ pc[g] = "append" /\ step[g] < Len(Appends(request[g]))
  /\ LET words == Appends(request[g])[step[g] + 1]
         s     == slice[g]
     IN /\ ~HasRoom(s, words)
        /\ slice' = [slice EXCEPT ![g] = [shared |-> FALSE, len |-> 0,
                                          own |-> Content(s) \o words]]
  /\ step' = [step EXCEPT ![g] = @ + 1]
  /\ UNCHANGED <<room, request, pc, argv>>

\* exec.Command copies the slice and rkt starts.
Exec(g) ==
  /\ pc[g] = "append" /\ step[g] = Len(Appends(request[g]))
  /\ argv' = [argv EXCEPT ![g] = Content(slice[g])]
  /\ pc' = [pc EXCEPT ![g] = "started"]
  /\ UNCHANGED <<room, request, step, slice>>

\* rkt ends and the method returns.
Return(g) ==
  /\ pc[g] = "started"
  /\ pc' = [pc EXCEPT ![g] = "idle"]
  /\ UNCHANGED <<room, request, step, slice, argv>>

Next == \E g \in Goroutines :
          \/ \E r \in Request : Call(g, r)
          \/ AppendInPlace(g) \/ AppendCopy(g) \/ Exec(g) \/ Return(g)

Spec == Init /\ [][Next]_vars

----------------------------------------------------------------------------
Slice == [shared : BOOLEAN, len : 0..Spare, own : Seq(Words)]

\* How many words a slice shows, and the words the first k appends of a method
\* give.
Length(s) == IF s.shared THEN s.len ELSE Len(s.own)

Appended(r, k) ==
  IF k = 0 THEN <<>>
  ELSE IF k = 1 THEN Appends(r)[1]
  ELSE IF k = 2 THEN Appends(r)[1] \o Appends(r)[2]
  ELSE Appends(r)[1] \o Appends(r)[2] \o Appends(r)[3]

Types ==
  /\ room \in [1..Spare -> Words]
  /\ request \in [Goroutines -> Request]
  /\ pc \in [Goroutines -> {"idle", "append", "started"}]
  /\ step \in [Goroutines -> Nat]
  /\ slice \in [Goroutines -> Slice]
  /\ argv \in [Goroutines -> Seq(Words)]

\* The types; and every slice has as many words as its own call has appended,
\* none of an earlier call and none more for those of other goroutines.
TypeOK ==
  /\ Types
  /\ \A g \in Goroutines :
       pc[g] = "append" =>
         /\ step[g] <= Len(Appends(request[g]))
         /\ Length(slice[g]) = Len(Appended(request[g], step[g]))

\* rkt is started with the command the caller asked for, whatever the other
\* goroutines do with the one client they share: "Run build in parallel for
\* pod" (main.go:96) changes no command (rkt-client.go:112-214).
CommandsIntact ==
  \A g \in Goroutines : pc[g] = "started" => argv[g] = Command(request[g])
============================================================================
