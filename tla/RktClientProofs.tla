-------------------------- MODULE RktClientProofs --------------------------
(***************************************************************************)
(* Theorems about RktClient, for any number of goroutines and any images:  *)
(* the commands are intact when append never finds room behind globalArgs, *)
(* and when calls never overlap.                                           *)
(***************************************************************************)
EXTENDS RktClient, SequenceTheorems, TLAPS

\* What the safe configurations have in common.
Safe == Spare = 0 \/ ~Parallel

\* A goroutine's slice shows what it appended, and nothing overlaps unless
\* --parallel says so.
Inv ==
  /\ \A g \in Goroutines :
       /\ pc[g] = "append" => /\ step[g] <= Len(Appends(request[g]))
                              /\ Content(slice[g]) = Appended(request[g], step[g])
       /\ pc[g] = "started" => argv[g] = Command(request[g])
  /\ Parallel \/ \A g, h \in Goroutines : g # h => pc[g] = "idle" \/ pc[h] = "idle"

\* With the default options there is no room behind globalArgs; nor is there
\* with two more options.
LEMMA NoRoom == GlobalArgs \in {2, 4} => Spare = 0
<1>1. ASSUME GlobalArgs = 2 PROVE Capacity(GlobalArgs) = 2
  BY <1>1 DEF Capacity
<1>2. ASSUME GlobalArgs = 4 PROVE Capacity(GlobalArgs) = 4
  BY <1>2 DEF Capacity
<1>. QED BY <1>1, <1>2 DEF Spare

\* The room has a size, however many options there are.
LEMMA SpareType == Spare \in Nat
<1>. DEFINE fits(c) == GlobalArgs <= c /\ c < 2 * GlobalArgs
<1>1. \E c \in {1, 2, 4, 8} : fits(c)
  BY RktAssumption
<1>2. Capacity(GlobalArgs) \in {1, 2, 4, 8} /\ fits(Capacity(GlobalArgs))
  BY <1>1 DEF Capacity
<1>. QED BY <1>2, RktAssumption DEF Spare

\* Every method appends sequences of words, at most three times.
LEMMA AppendsType ==
  ASSUME NEW r \in Request
  PROVE  /\ Len(Appends(r)) \in 1..3
         /\ \A k \in 1..Len(Appends(r)) : Appends(r)[k] \in Seq(Words)
<1>. r.method \in Methods /\ r.image \in Images
  BY DEF Request
<1>. StoreArgs \in Seq(Words)
  <2>1. {"--no-store", "--store-only"} \subseteq Words BY DEF Words
  <2>. QED BY <2>1, RktAssumption
<1>. {"fetch", "--full", "image", "cat-manifest", "rm", "--uuid-file", "run",
       "--net=host", "--insecure-options=image", "--interactive", r.image} \subseteq Words
  BY DEF Words
<1>1. ASSUME NEW a \in Seq(Words), NEW b \in Seq(Words), NEW c \in Seq(Words),
             Appends(r) \in {<<a>>, <<a, b>>, <<a, b, c>>}
      PROVE  /\ Len(Appends(r)) \in 1..3
             /\ \A k \in 1..Len(Appends(r)) : Appends(r)[k] \in Seq(Words)
  BY <1>1
<1>2. CASE r.method = "Fetch"
  <2>1. Appends(r) = << <<"fetch">>, StoreArgs, <<"--full", r.image>> >>
    BY <1>2, SMT DEF Appends
  <2>2. <<"fetch">> \in Seq(Words) /\ <<"--full", r.image>> \in Seq(Words)
    OBVIOUS
  <2>. QED BY <2>1, <2>2, <1>1
<1>3. CASE r.method \in {"CatManifest", "ImageRm", "RmFromFile"}
  <2>1. \E u, v \in {"image", "cat-manifest", "rm", "--uuid-file"} :
          Appends(r) = << <<u, v, r.image>> >>
    BY <1>3, SMT DEF Appends
  <2>2. \A u, v \in {"image", "cat-manifest", "rm", "--uuid-file"} :
          <<u, v, r.image>> \in Seq(Words)
    OBVIOUS
  <2>. QED BY <2>1, <2>2, <1>1
<1>4. CASE r.method = "Run"
  <2>1. Appends(r) = << <<"run">>, <<"--net=host", "--insecure-options=image",
                                      "--interactive", r.image>> >>
    BY <1>4, SMT DEF Appends
  <2>2. /\ <<"run">> \in Seq(Words)
        /\ <<"--net=host", "--insecure-options=image", "--interactive", r.image>>
             \in Seq(Words)
    OBVIOUS
  <2>. QED BY <2>1, <2>2, <1>1
<1>. QED BY <1>2, <1>3, <1>4 DEF Methods

\* The appends of a method add up to its command.
LEMMA AppendedCommand ==
  ASSUME NEW r \in Request
  PROVE  /\ Appended(r, 0) = <<>>
         /\ \A k \in 0..(Len(Appends(r)) - 1) :
              Appended(r, k + 1) = Appended(r, k) \o Appends(r)[k + 1]
         /\ Appended(r, Len(Appends(r))) = Command(r)
<1>1. /\ Appended(r, 0) = <<>>
      /\ Appended(r, 1) = Appends(r)[1]
      /\ Appended(r, 2) = Appends(r)[1] \o Appends(r)[2]
      /\ Appended(r, 3) = Appends(r)[1] \o Appends(r)[2] \o Appends(r)[3]
  BY DEF Appended
<1>2. ASSUME NEW k \in 0..(Len(Appends(r)) - 1)
      PROVE  Appended(r, k + 1) = Appended(r, k) \o Appends(r)[k + 1]
  <2>1. k \in {0, 1, 2}
    <3> DEFINE n == Len(Appends(r))
    <3>1. n \in 1..3 /\ k \in 0..(n - 1) BY AppendsType
    <3> HIDE DEF n
    <3>. QED BY <3>1
  <2>2. Appends(r)[1] \in Seq(Words)
    BY AppendsType
  <2>3. CASE k = 0
    <3>1. <<>> \o Appends(r)[1] = Appends(r)[1]
      BY <2>2, ConcatEmptySeq
    <3>2. k + 1 = 1 BY <2>3
    <3>. QED BY <2>3, <3>1, <3>2, <1>1, Zenon
  <2>4. CASE k = 1
    <3>1. k + 1 = 2 BY <2>4
    <3>. QED BY <2>4, <3>1, <1>1, Zenon
  <2>5. CASE k = 2
    <3>1. k + 1 = 3 BY <2>5
    <3>. QED BY <2>5, <3>1, <1>1, Zenon
  <2>. QED BY <2>1, <2>3, <2>4, <2>5
<1>3. Appended(r, Len(Appends(r))) = Command(r)
  <2>. r.method \in Methods
    BY DEF Request
  <2>1. CASE r.method = "Fetch" BY <2>1 DEF Appends, Appended, Command
  <2>2. CASE r.method = "CatManifest" BY <2>2 DEF Appends, Appended, Command
  <2>3. CASE r.method = "ImageRm" BY <2>3 DEF Appends, Appended, Command
  <2>4. CASE r.method = "RmFromFile" BY <2>4 DEF Appends, Appended, Command
  <2>5. CASE r.method = "Run"
    <3> DEFINE a == "--net=host" b == "--insecure-options=image" c == "--interactive"
               i == r.image
    <3>1. Appends(r) = << <<"run">>, <<a, b, c, i>> >>
      BY <2>5, SMT DEF Appends
    <3>2. Command(r) = <<"run", a, b, c, i>>
      BY <2>5, SMT DEF Command
    <3> HIDE DEF a, b, c, i
    <3>3. <<"run">> \o <<a, b, c, i>> = <<"run", a, b, c, i>>
      <4> DEFINE S == {"run", a, b, c, i}
                 s == <<"run">>
                 t == <<a, b, c, i>>
                 u == <<"run", a, b, c, i>>
      <4>1. s \in Seq(S) /\ t \in Seq(S) /\ u \in Seq(S)
        OBVIOUS
      <4>2. /\ s \o t \in Seq(S) /\ Len(s \o t) = 5
            /\ \A j \in 1..5 : (s \o t)[j] = IF j <= 1 THEN s[j] ELSE t[j - 1]
        <5> HIDE DEF S
        <5>. QED BY <4>1, ConcatProperties
      <4>3. \A j \in 1..5 : (s \o t)[j] = u[j]
        BY <4>2
      <4>. HIDE DEF S
      <4>. QED BY <4>1, <4>2, <4>3, SeqEqual
    <3>4. Appended(r, Len(Appends(r))) = <<"run">> \o <<a, b, c, i>>
      BY <3>1 DEF Appended
    <3>. QED BY <3>2, <3>3, <3>4
  <2>. QED BY <2>1, <2>2, <2>3, <2>4, <2>5 DEF Methods
<1>. QED BY <1>1, <1>2, <1>3

\* What a slice shows is a sequence of words.
LEMMA ContentType ==
  ASSUME room \in [1..Spare -> Words], NEW s \in Slice
  PROVE  Content(s) \in Seq(Words)
<1>1. CASE s.shared
  <2>1. room \in Seq(Words) /\ s.len \in 0..Spare
    BY SpareType DEF Slice
  <2>. QED BY <1>1, <2>1, SpareType DEF Content
<1>2. CASE ~s.shared
  BY <1>2 DEF Content, Slice
<1>. QED BY <1>1, <1>2

\* Every variable keeps its type.
LEMMA TypesCorrect ==
  /\ Init => Types
  /\ Types /\ [Next]_vars => Types'
<1>1. Init => Types
  <2>. SUFFICES ASSUME Init PROVE Types
    OBVIOUS
  <2>1. GlobalSlice \in Slice
    BY SpareType DEF GlobalSlice, Slice
  <2>2. "" \in Words
    BY DEF Words
  <2>3. slice \in [Goroutines -> Slice]
    BY <2>1 DEF Init
  <2>4. argv \in [Goroutines -> Seq(Words)]
    <3>1. <<>> \in Seq(Words) OBVIOUS
    <3>. QED BY <3>1 DEF Init
  <2>5. room \in [1..Spare -> Words]
    BY <2>2 DEF Init
  <2>. QED BY <2>3, <2>4, <2>5 DEF Init, Types
<1>2. Types /\ [Next]_vars => Types'
  <2>. SUFFICES ASSUME Types, [Next]_vars PROVE Types'
    OBVIOUS
  <2>1. ASSUME NEW g \in Goroutines, NEW r \in Request, Call(g, r) PROVE Types'
    <3>1. GlobalSlice \in Slice
      BY SpareType DEF GlobalSlice, Slice
    <3>2. slice' \in [Goroutines -> Slice]
      BY <2>1, <3>1 DEF Call, StartSlice, Types
    <3>. QED BY <2>1, <3>2 DEF Call, Types
  <2>2. ASSUME NEW g \in Goroutines, AppendInPlace(g) PROVE Types'
    <3> DEFINE r == request[g]
               words == Appends(r)[step[g] + 1]
               s == slice[g]
    <3>1. r \in Request /\ s \in Slice /\ step[g] \in Nat
      BY DEF Types
    <3>2. words \in Seq(Words)
      BY <3>1, <2>2, AppendsType DEF AppendInPlace
    <3>3. Len(words) \in Nat /\ s.len \in Nat
      BY <3>1, <3>2, SpareType DEF Slice
    <3>4. room' \in [1..Spare -> Words]
      BY <2>2, <3>2, <3>3, SpareType DEF AppendInPlace, HasRoom, Types
    <3>5. slice' \in [Goroutines -> Slice]
      <4>1. [s EXCEPT !.len = s.len + Len(words)] \in Slice
        <5>1. s.len + Len(words) <= Spare
          BY <2>2 DEF AppendInPlace, HasRoom
        <5>2. s.len + Len(words) \in 0..Spare
          <6> HIDE DEF words, s
          <6>. QED BY <5>1, <3>3, SpareType
        <5>. HIDE DEF words, s
        <5>. QED BY <5>2, <3>1 DEF Slice
      <4>2. slice' = [slice EXCEPT ![g] = [s EXCEPT !.len = s.len + Len(words)]]
        BY <2>2 DEF AppendInPlace, Types
      <4>. QED BY <4>1, <4>2 DEF Types
    <3>. QED BY <2>2, <3>4, <3>5 DEF AppendInPlace, Types
  <2>3. ASSUME NEW g \in Goroutines, AppendCopy(g) PROVE Types'
    <3> DEFINE r == request[g]
               words == Appends(r)[step[g] + 1]
               s == slice[g]
    <3>1. r \in Request /\ s \in Slice /\ step[g] \in Nat
      BY DEF Types
    <3>2. words \in Seq(Words)
      BY <3>1, <2>3, AppendsType DEF AppendCopy
    <3>3. Content(s) \in Seq(Words)
      BY <3>1, ContentType DEF Types
    <3>4. Content(s) \o words \in Seq(Words)
      BY <3>2, <3>3, ConcatProperties
    <3>5. slice' \in [Goroutines -> Slice]
      BY <2>3, <3>4, SpareType DEF AppendCopy, Types, Slice
    <3>. QED BY <2>3, <3>5 DEF AppendCopy, Types
  <2>4. ASSUME NEW g \in Goroutines, Exec(g) PROVE Types'
    <3>1. Content(slice[g]) \in Seq(Words)
      BY ContentType DEF Types
    <3>. QED BY <2>4, <3>1 DEF Exec, Types
  <2>5. ASSUME NEW g \in Goroutines, Return(g) PROVE Types'
    BY <2>5 DEF Return, Types
  <2>6. CASE UNCHANGED vars
    BY <2>6 DEF vars, Types
  <2>. QED BY <2>1, <2>2, <2>3, <2>4, <2>5, <2>6 DEF Next
<1>. QED BY <1>1, <1>2

\* A slice shows as many words as it is long.
LEMMA ContentLength ==
  ASSUME room \in [1..Spare -> Words], NEW s \in Slice
  PROVE  Len(Content(s)) = Length(s) /\ Length(s) \in Nat
<1>1. CASE s.shared
  <2>1. room \in Seq(Words) /\ Len(room) = Spare /\ s.len \in 0..Spare
    BY SpareType DEF Slice
  <2>. QED BY <1>1, <2>1, SpareType DEF Content, Length
<1>2. CASE ~s.shared
  BY <1>2 DEF Content, Length, Slice
<1>. QED BY <1>1, <1>2

\* The words of an append call, and how many there are with those before.
LEMMA WordsOf ==
  ASSUME TypeOK, NEW g \in Goroutines, pc[g] = "append",
         step[g] < Len(Appends(request[g]))
  PROVE  LET words == Appends(request[g])[step[g] + 1]
         IN /\ words \in Seq(Words) /\ Len(words) \in Nat
            /\ step[g] + 1 <= Len(Appends(request[g]))
            /\ Len(Appended(request[g], step[g] + 1)) = Length(slice[g]) + Len(words)
<1> DEFINE r == request[g]
           k == step[g]
           n == Len(Appends(r))
           words == Appends(r)[k + 1]
<1>1. r \in Request /\ k \in Nat /\ n \in 1..3 /\ k < n /\ Types
  BY AppendsType DEF TypeOK, Types
<1>2. k \in 0..(n - 1) /\ k + 1 \in 1..n /\ k + 1 <= n
  <2> HIDE DEF k, n
  <2>. QED BY <1>1
<1>3. words \in Seq(Words) /\ Len(words) \in Nat
  BY <1>1, <1>2, AppendsType
<1>4. Appended(r, k + 1) = Appended(r, k) \o words
  BY <1>1, <1>2, AppendedCommand
<1>5. Appended(r, k) \in Seq(Words)
  <2>1. \A j \in 1..n : Appends(r)[j] \in Seq(Words)
    BY <1>1, AppendsType
  <2>2. k = 0 \/ k = 1 \/ (k = 2 /\ n = 3)
    <3> HIDE DEF k, n
    <3>. QED BY <1>1
  <2>3. CASE k = 0
    BY <2>3 DEF Appended
  <2>4. CASE k = 1
    <3>1. 1 \in 1..n  BY <1>1
    <3>2. Appended(r, k) = Appends(r)[1]  BY <2>4 DEF Appended
    <3>. QED BY <2>1, <3>1, <3>2, Zenon
  <2>5. CASE k = 2 /\ n = 3
    <3>1. Appends(r)[1] \in Seq(Words) /\ Appends(r)[2] \in Seq(Words)
      <4>1. 1 \in 1..n /\ 2 \in 1..n  BY <2>5
      <4>. QED BY <2>1, <4>1, Zenon
    <3>2. Appended(r, k) = Appends(r)[1] \o Appends(r)[2]
      BY <2>5 DEF Appended
    <3>. QED BY <3>1, <3>2, ConcatProperties
  <2>. QED BY <2>2, <2>3, <2>4, <2>5
<1>6. Len(Appended(r, k)) = Length(slice[g])
  BY DEF TypeOK
<1>7. Len(Appended(r, k) \o words) = Len(Appended(r, k)) + Len(words)
  BY <1>3, <1>5, ConcatProperties
<1>8. Len(Appended(r, k + 1)) = Length(slice[g]) + Len(words)
  BY <1>4, <1>6, <1>7
<1>. QED BY <1>2, <1>3, <1>8

\* Every reachable state has the declared types, and every slice the length of
\* what its own call appended (rkt-client.go:112-214).
THEOREM TypeCorrect == Spec => []TypeOK
<1>1. Init => TypeOK
  BY TypesCorrect DEF Init, TypeOK
<1>2. TypeOK /\ [Next]_vars => TypeOK'
  <2>. SUFFICES ASSUME TypeOK, [Next]_vars PROVE TypeOK'
    OBVIOUS
  <2>0. Types /\ Types'
    BY TypesCorrect DEF TypeOK
  <2>1. ASSUME NEW g \in Goroutines, NEW r \in Request, Call(g, r) PROVE TypeOK'
    <3>1. /\ slice'[g] = GlobalSlice /\ step'[g] = 0 /\ request'[g] = r
          /\ \A h \in Goroutines \ {g} :
               /\ pc'[h] = pc[h] /\ slice'[h] = slice[h] /\ step'[h] = step[h]
               /\ request'[h] = request[h]
      BY <2>0, <2>1 DEF Call, StartSlice, Types
    <3>2. Length(slice'[g]) = Len(Appended(r, 0)) /\ 0 <= Len(Appends(r))
      <4>1. Len(Appends(r)) \in 1..3
        BY AppendsType
      <4>. QED BY <3>1, <4>1 DEF Length, GlobalSlice, Appended
    <3>. QED BY <2>0, <3>1, <3>2 DEF TypeOK, Length
  <2>2. ASSUME NEW g \in Goroutines, pc[g] = "append", step[g] < Len(Appends(request[g])),
               Length(slice'[g])
                 = Length(slice[g]) + Len(Appends(request[g])[step[g] + 1]),
               \A h \in Goroutines \ {g} : slice'[h] = slice[h],
               step' = [step EXCEPT ![g] = @ + 1], pc' = pc, request' = request
        PROVE  TypeOK'
    <3>1. step'[g] = step[g] + 1 /\ \A h \in Goroutines \ {g} : step'[h] = step[h]
      BY <2>0, <2>2 DEF Types
    <3>2. /\ step'[g] <= Len(Appends(request'[g]))
          /\ Length(slice'[g]) = Len(Appended(request'[g], step'[g]))
      BY <2>2, <3>1, WordsOf
    <3>. QED BY <2>0, <2>2, <3>1, <3>2 DEF TypeOK, Length
  <2>3. ASSUME NEW g \in Goroutines, AppendInPlace(g) PROVE TypeOK'
    <3> DEFINE words == Appends(request[g])[step[g] + 1]
    <3>1. /\ slice[g] \in Slice /\ slice[g].shared
          /\ slice' = [slice EXCEPT ![g] = [slice[g] EXCEPT !.len = slice[g].len + Len(words)]]
      BY <2>0, <2>3 DEF AppendInPlace, HasRoom, Types
    <3>2. /\ slice'[g] = [slice[g] EXCEPT !.len = slice[g].len + Len(words)]
          /\ \A h \in Goroutines \ {g} : slice'[h] = slice[h]
      BY <2>0, <3>1 DEF Types
    <3> HIDE DEF words
    <3>3. Length(slice'[g]) = Length(slice[g]) + Len(words)
      BY <3>1, <3>2 DEF Length, Slice
    <3>. QED BY <2>2, <2>3, <3>2, <3>3 DEF AppendInPlace, words
  <2>4. ASSUME NEW g \in Goroutines, AppendCopy(g) PROVE TypeOK'
    <3> DEFINE words == Appends(request[g])[step[g] + 1]
    <3>1. /\ words \in Seq(Words) /\ slice[g] \in Slice
          /\ Content(slice[g]) \in Seq(Words) /\ Len(Content(slice[g])) = Length(slice[g])
      BY <2>0, <2>4, WordsOf, ContentType, ContentLength DEF AppendCopy, Types
    <3>2. /\ slice'[g] = [shared |-> FALSE, len |-> 0, own |-> Content(slice[g]) \o words]
          /\ \A h \in Goroutines \ {g} : slice'[h] = slice[h]
      BY <2>0, <2>4 DEF AppendCopy, Types
    <3> HIDE DEF words
    <3> DEFINE seen == Content(slice[g])
    <3>a. seen \in Seq(Words) /\ Len(seen) = Length(slice[g])
      BY <3>1
    <3>b. slice'[g] = [shared |-> FALSE, len |-> 0, own |-> seen \o words]
      BY <3>2
    <3> HIDE DEF seen
    <3>c. Len(seen \o words) = Len(seen) + Len(words)
      BY <3>1, <3>a, ConcatProperties
    <3>d. Length(slice'[g]) = Len(seen \o words)
      BY <3>b DEF Length
    <3>3. Length(slice'[g]) = Length(slice[g]) + Len(words)
      BY <3>a, <3>c, <3>d
    <3>. QED BY <2>2, <2>4, <3>2, <3>3 DEF AppendCopy, words
  <2>5. ASSUME NEW g \in Goroutines, Exec(g) PROVE TypeOK'
    BY <2>0, <2>5 DEF Exec, TypeOK, Types, Length
  <2>6. ASSUME NEW g \in Goroutines, Return(g) PROVE TypeOK'
    BY <2>0, <2>6 DEF Return, TypeOK, Types, Length
  <2>7. CASE UNCHANGED vars
    BY <2>0, <2>7 DEF vars, TypeOK, Length
  <2>. QED BY <2>1, <2>3, <2>4, <2>5, <2>6, <2>7 DEF Next
<1>. QED BY <1>1, <1>2, PTL DEF Spec

(***************************************************************************)
(* Commands are intact.                                                    *)
(***************************************************************************)

\* One more append of g, wherever it is done, as long as the others' slices
\* show what they showed.
LEMMA AppendInv ==
  ASSUME TypeOK, Inv, NEW g \in Goroutines, pc[g] = "append",
         step[g] < Len(Appends(request[g])),
         request' = request, pc' = pc, argv' = argv,
         step' = [step EXCEPT ![g] = @ + 1],
         Content(slice[g])' = Content(slice[g]) \o Appends(request[g])[step[g] + 1],
         \A h \in Goroutines \ {g} :
           pc[h] = "append" => Content(slice[h])' = Content(slice[h])
  PROVE  Inv'
<1>1. ASSUME NEW h \in Goroutines, pc'[h] = "append"
      PROVE  /\ step'[h] <= Len(Appends(request'[h]))
             /\ Content(slice[h])' = Appended(request'[h], step'[h])
  <2>1. CASE h = g
    <3> DEFINE r == request[g]
               k == step[g]
               n == Len(Appends(r))
    <3>1. k \in Nat /\ n \in 1..3 /\ r \in Request /\ k < n /\ step'[g] = k + 1
      BY AppendsType DEF TypeOK, Types
    <3>2. Appended(r, k + 1) = Appended(r, k) \o Appends(r)[k + 1]
      <4>1. k \in 0..(n - 1)
        <5> HIDE DEF k, n
        <5>. QED BY <3>1
      <4>. QED BY <4>1, <3>1, AppendedCommand
    <3>3. Content(slice[g]) = Appended(r, k)
      BY DEF Inv
    <3>4. k + 1 <= n
      <4> HIDE DEF k, n
      <4>. QED BY <3>1
    <3>. QED BY <2>1, <3>1, <3>2, <3>3, <3>4
  <2>2. CASE h # g
    BY <1>1, <2>2 DEF Inv, TypeOK, Types
  <2>. QED BY <2>1, <2>2
<1>2. ASSUME NEW h \in Goroutines, pc'[h] = "started"
      PROVE  argv'[h] = Command(request'[h])
  BY <1>2 DEF Inv
<1>3. Parallel \/ \A h, i \in Goroutines : h # i => pc'[h] = "idle" \/ pc'[i] = "idle"
  BY DEF Inv
<1>. QED BY <1>1, <1>2, <1>3 DEF Inv

\* The inductive step, in the two kinds of configurations that are safe.
LEMMA StepInv ==
  ASSUME TypeOK, Inv, Safe, [Next]_vars
  PROVE  Inv'
<1>1. ASSUME NEW g \in Goroutines, NEW r \in Request, Call(g, r) PROVE Inv'
  <2>1. /\ room' = room /\ slice'[g] = GlobalSlice /\ step'[g] = 0 /\ request'[g] = r
        /\ pc'[g] = "append"
        /\ \A h \in Goroutines \ {g} :
             /\ pc'[h] = pc[h] /\ slice'[h] = slice[h] /\ step'[h] = step[h]
             /\ request'[h] = request[h] /\ argv'[h] = argv[h]
    BY <1>1 DEF Call, StartSlice, TypeOK, Types
  <2>2. Content(slice[g])' = <<>>
    <3>1. Content(slice[g])' = SubSeq(room', 1, 0)
      BY <2>1 DEF Content, GlobalSlice
    <3>. QED BY <3>1, SpareType, <2>1 DEF TypeOK, Types
  <2>3. Appended(r, 0) = <<>> /\ 0 <= Len(Appends(r))
    BY AppendedCommand, AppendsType
  <2>4. \A h \in Goroutines \ {g} : Content(slice[h])' = Content(slice[h])
    BY <2>1 DEF Content
  <2>5. Parallel \/ \A h \in Goroutines \ {g} : pc'[h] = "idle"
    BY <1>1, <2>1 DEF Call
  <2>. QED BY <2>1, <2>2, <2>3, <2>4, <2>5 DEF Inv
<1>2. ASSUME NEW g \in Goroutines, AppendInPlace(g) PROVE Inv'
  <2> DEFINE s == slice[g]
             words == Appends(request[g])[step[g] + 1]
  <2>1. words \in Seq(Words) /\ s \in Slice
    <3>1. request[g] \in Request /\ step[g] \in Nat /\ s \in Slice
      BY DEF TypeOK, Types
    <3>. QED BY <1>2, <3>1, AppendsType DEF AppendInPlace
  <2>2. s.shared /\ s.len + Len(words) <= Spare
    BY <1>2 DEF AppendInPlace, HasRoom
  <2>3. /\ room' = [i \in 1..Spare |-> IF i \in (s.len + 1)..(s.len + Len(words))
                                         THEN words[i - s.len] ELSE room[i]]
        /\ slice' = [slice EXCEPT ![g] = [s EXCEPT !.len = s.len + Len(words)]]
    BY <1>2 DEF AppendInPlace, TypeOK, Types
  <2>4. Content(slice[g])' = Content(slice[g]) \o words
    <3>1. slice'[g] = [s EXCEPT !.len = s.len + Len(words)]
      BY <2>3 DEF TypeOK, Types
    <3>2. slice'[g].shared /\ slice'[g].len = s.len + Len(words)
      BY <2>1, <2>2, <3>1 DEF Slice
    <3>3. Content(slice[g])' = SubSeq(room', 1, s.len + Len(words))
      BY <3>2 DEF Content
    <3>4. Content(slice[g]) = SubSeq(room, 1, s.len)
      BY <2>2 DEF Content
    <3>5. SubSeq(room', 1, s.len + Len(words)) = SubSeq(room, 1, s.len) \o words
      <4> DEFINE m == s.len
                 n == Len(words)
      <4>1. m \in Nat /\ n \in Nat /\ m + n <= Spare
        BY <2>1, <2>2, SpareType DEF Slice
      <4> HIDE DEF s, words, m, n
      <4>2. room \in Seq(Words) /\ Len(room) = Spare
        BY SpareType DEF TypeOK, Types
      <4>3. room' = [i \in 1..Spare |-> IF i \in (m + 1)..(m + n) THEN words[i - m] ELSE room[i]]
        BY <2>3 DEF m, n
      <4>4. room' \in Seq(Words) /\ Len(room') = Spare
        BY <2>1, <4>1, <4>2, <4>3, SpareType DEF n
      <4> DEFINE left == SubSeq(room', 1, m + n)
                 start == SubSeq(room, 1, m)
      <4>5. /\ left \in Seq(Words) /\ Len(left) = m + n
            /\ \A i \in 1..(m + n) : left[i] = room'[i]
        BY <4>1, <4>4, SpareType
      <4>6. /\ start \in Seq(Words) /\ Len(start) = m
            /\ \A i \in 1..m : start[i] = room[i]
        BY <4>1, <4>2, SpareType
      <4>7. words \in Seq(Words) /\ Len(words) = n
        BY <2>1 DEF n
      <4> HIDE DEF left, start
      <4>8. /\ start \o words \in Seq(Words) /\ Len(start \o words) = m + n
            /\ \A i \in 1..(m + n) : (start \o words)[i]
                                     = IF i <= m THEN start[i] ELSE words[i - m]
        BY <4>1, <4>6, <4>7, ConcatProperties
      <4>9. \A i \in 1..(m + n) : left[i] = (start \o words)[i]
        <5>. SUFFICES ASSUME NEW i \in 1..(m + n) PROVE left[i] = (start \o words)[i]
          OBVIOUS
        <5>1. i \in 1..Spare /\ left[i] = room'[i]
          BY <4>1, <4>5, SpareType
        <5>2. CASE i <= m
          <6>1. i \in 1..m /\ i \notin (m + 1)..(m + n)
            BY <5>2, <4>1
          <6>2. room'[i] = room[i]
            BY <6>1, <5>1, <4>3
          <6>. QED BY <6>1, <6>2, <5>1, <5>2, <4>6, <4>8
        <5>3. CASE ~(i <= m)
          <6>1. i \in (m + 1)..(m + n)
            BY <5>3, <4>1
          <6>2. room'[i] = words[i - m]
            BY <6>1, <5>1, <4>3
          <6>. QED BY <6>2, <5>1, <5>3, <4>8
        <5>. QED BY <5>2, <5>3
      <4>10. left = start \o words
        BY <4>5, <4>8, <4>9, SeqEqual
      <4>. QED BY <4>10 DEF left, start, m, n
    <3>. QED BY <3>3, <3>4, <3>5
  <2>5. ASSUME NEW h \in Goroutines \ {g}, pc[h] = "append"
        PROVE  Content(slice[h])' = Content(slice[h])
    <3>1. Spare = 0
      BY <1>2, <2>5 DEF Safe, Inv, AppendInPlace
    <3>2. room' = room
      BY <2>3, <3>1 DEF TypeOK, Types
    <3>3. slice'[h] = slice[h]
      BY <2>3 DEF TypeOK, Types
    <3>. QED BY <3>2, <3>3 DEF Content
  <2>. QED BY <1>2, <2>4, <2>5, AppendInv DEF AppendInPlace
<1>3. ASSUME NEW g \in Goroutines, AppendCopy(g) PROVE Inv'
  <2>1. Content(slice[g])' = Content(slice[g]) \o Appends(request[g])[step[g] + 1]
    BY <1>3 DEF AppendCopy, Content, TypeOK, Types
  <2>2. \A h \in Goroutines \ {g} : Content(slice[h])' = Content(slice[h])
    BY <1>3 DEF AppendCopy, Content, TypeOK, Types
  <2>. QED BY <1>3, <2>1, <2>2, AppendInv DEF AppendCopy
<1>4. ASSUME NEW g \in Goroutines, Exec(g) PROVE Inv'
  <2>1. argv'[g] = Command(request[g])
    BY <1>4, AppendedCommand DEF Exec, Inv, TypeOK, Types
  <2>2. \A h \in Goroutines : Content(slice[h])' = Content(slice[h])
    BY <1>4 DEF Exec, Content
  <2>. QED BY <1>4, <2>1, <2>2 DEF Exec, Inv, TypeOK, Types
<1>5. ASSUME NEW g \in Goroutines, Return(g) PROVE Inv'
  <2>1. \A h \in Goroutines : Content(slice[h])' = Content(slice[h])
    BY <1>5 DEF Return, Content
  <2>. QED BY <1>5, <2>1 DEF Return, Inv, TypeOK, Types
<1>6. CASE UNCHANGED vars
  <2>1. \A h \in Goroutines : Content(slice[h])' = Content(slice[h])
    BY <1>6 DEF vars, Content
  <2>. QED BY <1>6, <2>1 DEF vars, Inv
<1>. QED BY <1>1, <1>2, <1>3, <1>4, <1>5, <1>6 DEF Next

\* Every rkt command is the one its caller asked for when globalArgs has no
\* room behind it (the default options, and any two more), and when no two
\* goroutines call rkt at the same time: for any goroutines and any images.
THEOREM CommandsIntactWhenSafe ==
  ASSUME GlobalArgs \in {2, 4} \/ ~Parallel
  PROVE  Spec => []CommandsIntact
<1>1. Safe
  BY NoRoom DEF Safe
<1>2. Init => Inv
  BY DEF Init, Inv
<1>3. TypeOK /\ Inv /\ [Next]_vars => Inv'
  BY <1>1, StepInv
<1>4. Inv => CommandsIntact
  BY DEF Inv, CommandsIntact
<1>. QED BY <1>2, <1>3, <1>4, TypeCorrect, PTL DEF Spec
============================================================================
