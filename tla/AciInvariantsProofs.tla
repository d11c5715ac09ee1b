------------------------- MODULE AciInvariantsProofs -------------------------
(***************************************************************************)
(* The invariants of AciInvariants are inductive, and the properties of    *)
(* Aci that follow from them, for all values of the constants.             *)
(***************************************************************************)
EXTENDS AciInvariants, AciProofs

----------------------------------------------------------------------------
(* Positions in the stack *)

\* The stack is a function on its positions, and its first element is Head.
LEMMA Positions ==
  ASSUME TypeOK
  PROVE  /\ Len(calls) \in Nat /\ DOMAIN calls = 1..Len(calls)
         /\ \A n \in DOMAIN calls : calls[n] \in Calls
         /\ calls = <<>> <=> Len(calls) = 0
         /\ calls # <<>> => Head(calls) = calls[1] /\ 1 \in DOMAIN calls
<1>1. calls \in Seq(Calls) BY DEF TypeOK
<1>. QED BY <1>1, EmptySeq, LenProperties, ElementOfSeq

\* What is where after the call at the top was taken.
LEMMA Popped ==
  ASSUME TypeOK, calls # <<>>, calls' = Tail(calls)
  PROVE  /\ Len(calls') = Len(calls) - 1 /\ DOMAIN calls' = 1..(Len(calls) - 1)
         /\ \A n \in DOMAIN calls' : n + 1 \in DOMAIN calls /\ calls'[n] = calls[n + 1]
<1>1. calls \in Seq(Calls) BY DEF TypeOK
<1>2. calls' \in Seq(Calls) BY <1>1, TailType
<1>3. Len(calls') = Len(calls) - 1 /\ \A n \in 1..Len(calls') : calls'[n] = calls[n + 1]
  BY <1>1, HeadTailProperties
<1>. QED BY <1>1, <1>2, <1>3, LenProperties, Positions

\* What is where after the call at the top was replaced by the calls it makes.
LEMMA Pushed ==
  ASSUME TypeOK, calls # <<>>, NEW body \in Seq(Calls), calls' = body \o Tail(calls)
  PROVE  /\ Len(calls') = Len(body) + Len(calls) - 1 /\ DOMAIN calls' = 1..Len(calls')
         /\ Len(body) \in Nat
         /\ \A n \in DOMAIN calls' :
              IF n <= Len(body)
                THEN n \in 1..Len(body) /\ calls'[n] = body[n]
                ELSE /\ n - Len(body) + 1 \in 2..Len(calls)
                     /\ calls'[n] = calls[n - Len(body) + 1]
<1>. DEFINE t == Tail(calls)
<1>1. calls \in Seq(Calls) BY DEF TypeOK
<1>2. /\ t \in Seq(Calls) /\ Len(t) = Len(calls) - 1
      /\ \A n \in 1..Len(t) : t[n] = calls[n + 1]
  BY <1>1, HeadTailProperties
<1>3. /\ calls' \in Seq(Calls) /\ Len(calls') = Len(body) + Len(t)
      /\ \A n \in 1..(Len(body) + Len(t)) :
           calls'[n] = IF n <= Len(body) THEN body[n] ELSE t[n - Len(body)]
  BY <1>2, ConcatProperties
<1>4. Len(body) \in Nat /\ Len(calls) \in Nat /\ DOMAIN calls' = 1..Len(calls')
  BY <1>1, <1>3, LenProperties
<1>. HIDE DEF t
<1>5. ASSUME NEW n \in DOMAIN calls'
      PROVE  IF n <= Len(body)
               THEN n \in 1..Len(body) /\ calls'[n] = body[n]
               ELSE /\ n - Len(body) + 1 \in 2..Len(calls)
                    /\ calls'[n] = calls[n - Len(body) + 1]
  <2>1. n \in 1..(Len(body) + Len(t)) BY <1>3, <1>4
  <2>2. CASE n <= Len(body) BY <2>1, <2>2, <1>3, <1>4
  <2>3. CASE ~(n <= Len(body))
    <3>1. n - Len(body) \in 1..Len(t) BY <2>1, <2>3, <1>2, <1>4
    <3>. QED BY <2>1, <2>3, <3>1, <1>2, <1>3, <1>4
  <2>. QED BY <2>2, <2>3
<1>. QED BY <1>2, <1>3, <1>4, <1>5

\* The calls a method is replaced by.
ExpandsTo(op, body) ==
  \/ op = "Sign"          /\ body = SignCalls
  \/ op = "Install"       /\ body = InstallCalls
  \/ op = "Push"          /\ body = PushCalls
  \/ op = "Test"          /\ body = TestCalls
  \/ op = "EnsureBuilt"   /\ body = <<"CleanAndRun">>
  \/ op = "EnsureSign"    /\ body = <<"Sign">>
  \/ op = "EnsureZip"     /\ body = <<"EnsureBuilt", "Zip">>
  \/ op = "EnsureZipSign" /\ body = <<"EnsureZip", "SignZip">>

\* What a step does to the stack.
Stays    == calls' = calls /\ testFlag' = testFlag
Pops     == calls # <<>> /\ calls' = Tail(calls) /\ testFlag' = testFlag
Expands  == /\ calls # <<>> /\ testFlag' = testFlag
            /\ \E body \in Seq(Calls) : /\ ExpandsTo(Head(calls), body)
                                        /\ calls' = body \o Tail(calls)
Tests1st == /\ calls # <<>> /\ Head(calls) = "TestFirst" /\ testFlag = TRUE
            /\ testFlag' = FALSE /\ calls' = <<"Test">> \o Tail(calls)
Unwinds  == calls' \in {<<>>, <<"Clean">>} /\ testFlag' = testFlag

\* The methods that return when their file is there.
Ensures == {"EnsureBuilt", "EnsureSign", "EnsureZip", "EnsureZipSign"}

\* A method that only calls others is replaced by its body, or returns.
LEMMA ExpandStep ==
  ASSUME TypeOK,
         \/ Sign \/ Install \/ Push \/ Test \/ EnsureBuilt \/ EnsureSign
         \/ EnsureZip \/ EnsureZipSign
  PROVE  (Pops /\ Head(calls) \in Ensures) \/ Expands
<1>1. calls \in Seq(Calls) BY DEF TypeOK
<1>2. ASSUME NEW op, NEW body \in Seq(Calls), Expand(op, body),
             (body = <<>> /\ op \in Ensures) \/ ExpandsTo(op, body)
      PROVE  (Pops /\ Head(calls) \in Ensures) \/ Expands
  <2>1. calls # <<>> /\ Head(calls) = op /\ calls' = body \o Tail(calls) /\ testFlag' = testFlag
    BY <1>2 DEF Expand, Calling, session
  <2>2. Tail(calls) \in Seq(Calls) BY <1>1, <2>1, TailType
  <2>3. CASE body = <<>> /\ op \in Ensures
    BY <2>1, <2>2, <2>3, ConcatEmptySeq DEF Pops
  <2>. QED BY <1>2, <2>1, <2>3 DEF Expands
<1>3. /\ <<"CleanAndRun">> \in Seq(Calls) /\ <<"Sign">> \in Seq(Calls)
      /\ <<"EnsureBuilt", "Zip">> \in Seq(Calls)
      /\ <<"EnsureZip", "SignZip">> \in Seq(Calls)
  BY DEF Calls
<1>. USE <1>2, <1>3, BodiesAreCalls DEF Ensures
<1>4. CASE Sign BY <1>4 DEF Sign, ExpandsTo
<1>5. CASE Install BY <1>5 DEF Install, ExpandsTo
<1>6. CASE Push BY <1>6 DEF Push, ExpandsTo
<1>7. CASE Test BY <1>7 DEF Test, ExpandsTo
<1>8. CASE EnsureBuilt BY <1>8 DEF EnsureBuilt, ExpandsTo
<1>9. CASE EnsureSign BY <1>9 DEF EnsureSign, ExpandsTo
<1>10. CASE EnsureZip BY <1>10 DEF EnsureZip, ExpandsTo
<1>11. CASE EnsureZipSign BY <1>11 DEF EnsureZipSign, ExpandsTo
<1>. QED BY <1>4, <1>5, <1>6, <1>7, <1>8, <1>9, <1>10, <1>11

\* TestFirst is replaced by Test, or returns.
LEMMA TestFirstStep ==
  ASSUME TypeOK, TestFirst
  PROVE  Tests1st \/ (Pops /\ Head(calls) = "TestFirst" /\ testFlag = FALSE)
<1>1. /\ calls # <<>> /\ Head(calls) = "TestFirst" /\ testFlag' = FALSE /\ testFlag \in BOOLEAN
      /\ calls' = (IF testFlag THEN <<"Test">> ELSE <<>>) \o Tail(calls)
  BY DEF TestFirst, Calling, FlagAfterTest, TypeOK
<1>2. CASE testFlag = TRUE BY <1>1, <1>2 DEF Tests1st
<1>3. CASE testFlag = FALSE
  <2>1. Tail(calls) \in Seq(Calls) BY <1>1, TailType DEF TypeOK
  <2>. QED BY <1>1, <1>3, <2>1, ConcatEmptySeq DEF Pops
<1>. QED BY <1>1, <1>2, <1>3

\* Every step does one of these things to the stack, or types a command.
LEMMA CallsStep ==
  ASSUME TypeOK, [Next]_vars
  PROVE  \/ Stays \/ Pops \/ Expands \/ Tests1st \/ Unwinds
         \/ \E c \in Commands : Start(c)
<1>. USE DEF session
<1>1. ASSUME Fail, testFlag' = testFlag PROVE Unwinds
  BY <1>1 DEF Fail, Unwind, Unwinds
<1>2. CASE \/ Sign \/ Install \/ Push \/ Test \/ EnsureBuilt \/ EnsureSign
           \/ EnsureZip \/ EnsureZipSign
  BY <1>2, ExpandStep
<1>3. CASE TestFirst BY <1>3, TestFirstStep
<1>4. CASE \/ Clean \/ CleanAndRun \/ BuildTest \/ SignImage \/ SignZip \/ Gpg \/ Zip
           \/ Fetch \/ FetchTest \/ RunTest \/ CheckResult \/ UploadAci
  BY <1>1, <1>4 DEF Clean, CleanAndRun, BuildTest, SignImage, SignZip, SignFile, Gpg, GpgFile,
     Zip, Fetch, FetchTest, RunTest, CheckResult, UploadAci, Calling, Return, Advance, Pops,
     Stays
<1>5. CASE \/ PrepareStage1 \/ PrepareBuilder \/ RunBuilder \/ RunLevels \/ TarAci
           \/ ExtractManifest \/ CleanupRun \/ ZipCopy \/ RunTestFile \/ EndTests
           \/ StopTests \/ CleanupTest \/ Finish
  BY <1>1, <1>5 DEF PrepareStage1, PrepareBuilder, RunBuilder, RunLevels, TarAci,
     ExtractManifest, CleanupRun, ZipCopy, RunTestFile, EndTests, StopTests, CleanupTest,
     Finish, Advance, Abort, machine, Stays
<1>6. CASE Kill BY <1>6 DEF Kill, Unwinds
<1>7. CASE UNCHANGED vars BY <1>7 DEF vars, machine, Stays
<1>. QED BY <1>2, <1>3, <1>4, <1>5, <1>6, <1>7 DEF Next, Step

----------------------------------------------------------------------------
(* The stack of calls *)

\* A reset of the flag only takes room and tests away.
LEMMA FlagResets ==
  ASSUME testFlag \in BOOLEAN, testFlag' \in {testFlag, FALSE}, NEW op
  PROVE  /\ Depth(op) \in 1..10 /\ Depth(op)' \in 1..10 /\ Depth(op)' <= Depth(op)
         /\ MayTest(op)' => MayTest(op)
<1>1. CASE testFlag' = testFlag
  <2>1. Depth(op)' = Depth(op) BY <1>1 DEF Depth
  <2>2. Depth(op) \in 1..10 BY DEF Depth
  <2>3. MayTest(op)' <=> MayTest(op) BY <1>1, Zenon DEF MayTest
  <2>. QED BY <2>1, <2>2, <2>3
<1>2. CASE testFlag = TRUE /\ testFlag' = FALSE
  <2>1. Depth(op) \in 1..10 /\ Depth(op)' \in 1..10 /\ Depth(op)' <= Depth(op)
    BY <1>2 DEF Depth
  <2>2. MayTest(op)' => MayTest(op) BY <1>2 DEF MayTest
  <2>. QED BY <2>1, <2>2
<1>. QED BY <1>1, <1>2

\* Whether the calls of a body fit where the call of op was: in the room it had,
\* with its test container and in its place.
Fits(op, body) ==
  /\ op \notin {"FetchTest", "RunTest"}
  /\ testFlag => \A i \in 1..Len(body) : body[i] # "Test"
  /\ \A i \in 1..Len(body) : Len(body) - i + Depth(body[i]) <= Depth(op)
  /\ \A i, j \in 1..Len(body) : MayTest(body[i]) /\ MayTest(body[j]) => i = j
  /\ \A i \in 1..Len(body) : MayTest(body[i]) => MayTest(op)
  /\ \A i \in 1..Len(body) :
       /\ body[i] \in {"Push", "Upload"} => op = "Push" /\ i = Len(body)
       /\ body[i] \in {"EnsureZipSign", "SignZip"} =>
            \/ op = "Push" /\ i = Len(body) - 1
            \/ op = "EnsureZipSign" /\ i = Len(body)
       /\ body[i] \in {"EnsureZip", "Zip"} =>
            \/ op = "EnsureZipSign" /\ i = Len(body) - 1
            \/ op = "EnsureZip" /\ i = Len(body)
       /\ body[i] \in {"BuildTest", "FetchTest"} => i < Len(body) /\ body[i + 1] = Follows(body[i])
       /\ body[i] = "CheckResult" => i > 1 /\ body[i - 1] = "RunTest"

\* A call can be replaced by a body that fits.
LEMMA FitStack ==
  ASSUME TypeOK, StackInv, calls # <<>>, NEW body \in Seq(Calls),
         Fits(Head(calls), body), testFlag' = testFlag, calls' = body \o Tail(calls)
  PROVE  StackInv'
<1>. DEFINE op == Head(calls)
            b  == Len(body)
            k  == Len(calls)
<1>1. /\ k \in Nat /\ DOMAIN calls = 1..k /\ 1 \in DOMAIN calls /\ op = calls[1]
      /\ b \in Nat
      /\ Len(calls') = b + k - 1 /\ DOMAIN calls' = 1..(b + k - 1)
  BY Positions, Pushed
<1>2. ASSUME NEW n \in 1..(b + k - 1)
      PROVE  IF n <= b THEN n \in 1..b /\ calls'[n] = body[n]
                       ELSE n - b + 1 \in 2..k /\ calls'[n] = calls[n - b + 1]
  BY <1>1, Pushed
<1>3. /\ \A n \in 1..k : k - n + Depth(calls[n]) <= 10
      /\ testFlag => \A n \in 1..k : calls[n] # "Test"
      /\ \A m, n \in 1..k : MayTest(calls[m]) /\ MayTest(calls[n]) => m = n
      /\ \A n \in 1..k : InPlace(n)
  BY <1>1 DEF StackInv, Pending
<1>4. /\ \A x : Depth(x)' = Depth(x) /\ Depth(x) \in 1..10
      /\ \A x : MayTest(x)' <=> MayTest(x)
  <2>1. \A x : Depth(x)' = Depth(x) /\ Depth(x) \in 1..10
    BY FlagResets DEF Depth, TypeOK
  <2>2. \A x : MayTest(x)' <=> MayTest(x)
    BY Zenon DEF MayTest
  <2>. QED BY <2>1, <2>2
<1>5. Fits(op, body) OBVIOUS
<1>. HIDE DEF op, b, k
<1>6. ASSUME NEW n \in 1..(b + k - 1)
      PROVE  (b + k - 1) - n + Depth(calls'[n]) <= 10
  <2>1. CASE n <= b
    <3>1. b - n + Depth(body[n]) <= Depth(op) BY <1>2, <1>5, <2>1 DEF Fits, b
    <3>2. k - 1 + Depth(op) <= 10 BY <1>1, <1>3
    <3>3. n \in 1..b /\ calls'[n] = body[n] BY <1>2, <2>1
    <3>4. Depth(body[n]) \in 1..10 /\ Depth(op) \in 1..10 BY <1>4
    <3>5. \A d, e \in 1..10 :
            b - n + d <= e /\ k - 1 + e <= 10 => (b + k - 1) - n + d <= 10
      BY <1>1
    <3>6. Depth(calls'[n]) = Depth(body[n]) BY <3>3
    <3>. QED BY <3>1, <3>2, <3>4, <3>5, <3>6
  <2>2. CASE ~(n <= b)
    <3>1. n - b + 1 \in 1..k /\ calls'[n] = calls[n - b + 1] BY <1>1, <1>2, <2>2
    <3>2. k - (n - b + 1) + Depth(calls[n - b + 1]) <= 10 BY <1>3, <3>1
    <3>. QED BY <1>1, <1>4, <3>1, <3>2
  <2>. QED BY <2>1, <2>2
<1>7. ASSUME testFlag, NEW n \in 1..(b + k - 1)
      PROVE  calls'[n] # "Test"
  BY <1>1, <1>2, <1>3, <1>5, <1>7 DEF Fits, b
<1>8. ASSUME NEW m \in 1..(b + k - 1), NEW n \in 1..(b + k - 1),
             MayTest(calls'[m]), MayTest(calls'[n])
      PROVE  m = n
  <2>1. CASE m <= b /\ n <= b
    <3>1. m \in 1..b /\ n \in 1..b /\ MayTest(body[m]) /\ MayTest(body[n])
      BY <1>2, <1>8, <2>1
    <3>. QED BY <3>1, <1>5 DEF Fits, b
  <2>2. CASE m <= b /\ ~(n <= b)
    <3>1. m \in 1..b /\ MayTest(body[m]) /\ n - b + 1 \in 2..k /\ MayTest(calls[n - b + 1])
      BY <1>2, <1>8, <2>2
    <3>2. MayTest(calls[1]) BY <3>1, <1>1, <1>5 DEF Fits, b
    <3>. QED BY <1>1, <1>3, <3>1, <3>2
  <2>3. CASE ~(m <= b) /\ n <= b
    <3>1. n \in 1..b /\ MayTest(body[n]) /\ m - b + 1 \in 2..k /\ MayTest(calls[m - b + 1])
      BY <1>2, <1>8, <2>3
    <3>2. MayTest(calls[1]) BY <3>1, <1>1, <1>5 DEF Fits, b
    <3>. QED BY <1>1, <1>3, <3>1, <3>2
  <2>4. CASE ~(m <= b) /\ ~(n <= b)
    <3>1. /\ m - b + 1 \in 2..k /\ MayTest(calls[m - b + 1])
          /\ n - b + 1 \in 2..k /\ MayTest(calls[n - b + 1])
      BY <1>2, <1>8, <2>4
    <3>2. m - b + 1 = n - b + 1 BY <1>1, <1>3, <3>1
    <3>. QED BY <1>1, <3>2
  <2>. QED BY <2>1, <2>2, <2>3, <2>4
<1>9. ASSUME NEW n \in 1..(b + k - 1)
      PROVE  /\ calls'[n] \in {"Push", "Upload"} => n = b + k - 1
             /\ calls'[n] \in {"EnsureZipSign", "SignZip"} => n = b + k - 2
             /\ calls'[n] \in {"EnsureZip", "Zip"} => n = b + k - 3
             /\ calls'[n] \in {"BuildTest", "FetchTest"} => n < b + k - 1 /\ calls'[n + 1] = Follows(calls'[n])
             /\ calls'[n] = "CheckResult" /\ n > 1 => calls'[n - 1] = "RunTest"
  <2>1. CASE n <= b
    <3>1. n \in 1..b /\ calls'[n] = body[n] BY <1>2, <2>1
    <3>2. /\ body[n] \in {"Push", "Upload"} => op = "Push" /\ n = b
          /\ body[n] \in {"EnsureZipSign", "SignZip"} =>
               (op = "Push" /\ n = b - 1) \/ (op = "EnsureZipSign" /\ n = b)
          /\ body[n] \in {"EnsureZip", "Zip"} =>
               (op = "EnsureZipSign" /\ n = b - 1) \/ (op = "EnsureZip" /\ n = b)
          /\ body[n] \in {"BuildTest", "FetchTest"} => n < b /\ body[n + 1] = Follows(body[n])
          /\ body[n] = "CheckResult" => n > 1 /\ body[n - 1] = "RunTest"
      BY <3>1, <1>5 DEF Fits, b
    <3>3. /\ op = "Push" => 1 = k
          /\ op = "EnsureZipSign" => 1 = k - 1
          /\ op = "EnsureZip" => 1 = k - 2
      <4>1. InPlace(1) /\ op = calls[1] BY <1>1, <1>3
      <4>. QED BY <4>1 DEF InPlace, k
    <3>4. ASSUME n < b PROVE calls'[n + 1] = body[n + 1]
      <4>1. n + 1 \in 1..(b + k - 1) /\ n + 1 <= b BY <1>1, <3>1, <3>4
      <4>. QED BY <4>1, <1>2
    <3>5. ASSUME n > 1 PROVE calls'[n - 1] = body[n - 1]
      <4>1. n - 1 \in 1..(b + k - 1) /\ n - 1 <= b BY <1>1, <3>1, <3>5
      <4>. QED BY <4>1, <1>2
    <3>. QED BY <1>1, <3>1, <3>2, <3>3, <3>4, <3>5
  <2>2. CASE ~(n <= b)
    <3>. DEFINE m == n - b + 1
    <3>1. m \in 2..k /\ calls'[n] = calls[m] BY <1>2, <2>2
    <3>6. m = n - b + 1 OBVIOUS
    <3>. HIDE DEF m
    <3>2. /\ calls[m] \in {"Push", "Upload"} => m = k
          /\ calls[m] \in {"EnsureZipSign", "SignZip"} => m = k - 1
          /\ calls[m] \in {"EnsureZip", "Zip"} => m = k - 2
          /\ calls[m] \in {"BuildTest", "FetchTest"} => m < k /\ calls[m + 1] = Follows(calls[m])
          /\ calls[m] = "CheckResult" /\ m > 1 => calls[m - 1] = "RunTest"
      <4>1. InPlace(m) BY <1>1, <1>3, <3>1
      <4>. QED BY <4>1 DEF InPlace, k
    <3>3. ASSUME m < k PROVE calls'[n + 1] = calls[m + 1]
      <4>1. n + 1 \in 1..(b + k - 1) /\ ~(n + 1 <= b) /\ (n + 1) - b + 1 = m + 1
        BY <1>1, <2>2, <3>3, <3>6
      <4>. QED BY <4>1, <1>2
    <3>4. ASSUME m > 2 PROVE calls'[n - 1] = calls[m - 1]
      <4>1. n - 1 \in 1..(b + k - 1) /\ ~(n - 1 <= b) /\ (n - 1) - b + 1 = m - 1
        BY <1>1, <2>2, <3>4, <3>6
      <4>. QED BY <4>1, <1>2
    <3>5. m = 2 => calls[m] # "CheckResult"
      BY <1>1, <1>5, <3>2 DEF Fits
    <3>7. m \in Nat /\ n \in Nat BY <1>1, <3>1
    <3>8. /\ calls'[n] \in {"Push", "Upload"} => n = b + k - 1
          /\ calls'[n] \in {"EnsureZipSign", "SignZip"} => n = b + k - 2
          /\ calls'[n] \in {"EnsureZip", "Zip"} => n = b + k - 3
      BY <1>1, <3>1, <3>2, <3>6, <3>7
    <3>9. calls'[n] \in {"BuildTest", "FetchTest"} => n < b + k - 1 /\ calls'[n + 1] = Follows(calls'[n])
      BY <1>1, <3>1, <3>2, <3>3, <3>6, <3>7
    <3>10. calls'[n] = "CheckResult" /\ n > 1 => calls'[n - 1] = "RunTest"
      BY <1>1, <3>1, <3>2, <3>4, <3>5, <3>7
    <3>. QED BY <3>8, <3>9, <3>10
  <2>. QED BY <2>1, <2>2
<1>10. (\A n \in DOMAIN calls : Len(calls) - n + Depth(calls[n]) <= 10)'
  <2>1. ASSUME NEW n \in DOMAIN calls' PROVE Len(calls') - n + Depth(calls[n])' <= 10
    <3>1. Depth(calls[n])' = Depth(calls'[n]) BY <1>4
    <3>. QED BY <1>1, <1>6, <3>1
  <2>. QED BY <2>1
<1>11. (testFlag => ~Pending({"Test"}))'
  BY <1>1, <1>7 DEF Pending
<1>12. (\A m, n \in DOMAIN calls : MayTest(calls[m]) /\ MayTest(calls[n]) => m = n)'
  BY <1>1, <1>4, <1>8
<1>13. (\A n \in DOMAIN calls : InPlace(n))'
  <2>1. ASSUME NEW n \in 1..(b + k - 1) PROVE InPlace(n)'
    <3>1. /\ b + k - 1 = Len(calls') /\ b + k - 2 = Len(calls') - 1
          /\ b + k - 3 = Len(calls') - 2
      BY <1>1
    <3>2. /\ calls'[n] \in {"Push", "Upload"} => n = Len(calls')
          /\ calls'[n] \in {"EnsureZipSign", "SignZip"} => n = Len(calls') - 1
          /\ calls'[n] \in {"EnsureZip", "Zip"} => n = Len(calls') - 2
      BY <1>9, <3>1
    <3>3. calls'[n] \in {"BuildTest", "FetchTest"} => n < Len(calls') /\ calls'[n + 1] = Follows(calls'[n])
      BY <1>9, <3>1
    <3>4. calls'[n] = "CheckResult" /\ n > 1 => calls'[n - 1] = "RunTest"
      BY <1>9
    <3>. QED BY <3>2, <3>3, <3>4 DEF InPlace
  <2>. QED BY <1>1, <2>1
<1>. QED BY <1>10, <1>11, <1>12, <1>13 DEF StackInv

\* The bodies of the methods fit where the methods are called.
LEMMA BodiesFit ==
  ASSUME TypeOK, NEW op, NEW body, ExpandsTo(op, body), testFlag => op # "Test"
  PROVE  Fits(op, body)
<1>. USE DEF Fits, MayTest, Depth, Follows, TypeOK
<1>1. CASE op = "Sign" /\ body = SignCalls
  BY <1>1 DEF SignCalls
<1>2. CASE op = "Install" /\ body = InstallCalls
  BY <1>2 DEF InstallCalls
<1>3. CASE op = "Push" /\ body = PushCalls
  BY <1>3 DEF PushCalls
<1>4. CASE op = "Test" /\ body = TestCalls
  BY <1>4 DEF TestCalls
<1>5. CASE op = "EnsureBuilt" /\ body = <<"CleanAndRun">>
  BY <1>5
<1>6. CASE op = "EnsureSign" /\ body = <<"Sign">>
  BY <1>6
<1>7. CASE op = "EnsureZip" /\ body = <<"EnsureBuilt", "Zip">>
  BY <1>7
<1>8. CASE op = "EnsureZipSign" /\ body = <<"EnsureZip", "SignZip">>
  BY <1>8
<1>. QED BY <1>1, <1>2, <1>3, <1>4, <1>5, <1>6, <1>7, <1>8 DEF ExpandsTo

\* A call that returns leaves the ones below it in their places.
LEMMA PopStack ==
  ASSUME TypeOK, StackInv, Pops
  PROVE  StackInv'
<1>. DEFINE k == Len(calls)
<1>1. /\ k \in Nat /\ k > 0 /\ DOMAIN calls = 1..k
      /\ Len(calls') = k - 1 /\ DOMAIN calls' = 1..(k - 1)
      /\ \A n \in 1..(k - 1) : n + 1 \in 1..k /\ calls'[n] = calls[n + 1]
  BY Positions, Popped DEF Pops
<1>2. /\ \A n \in 1..k : k - n + Depth(calls[n]) <= 10
      /\ testFlag => \A n \in 1..k : calls[n] # "Test"
      /\ \A m, n \in 1..k : MayTest(calls[m]) /\ MayTest(calls[n]) => m = n
      /\ \A n \in 1..k : InPlace(n)
  BY <1>1 DEF StackInv, Pending
<1>3. /\ \A x : Depth(x)' = Depth(x) /\ Depth(x) \in 1..10
      /\ \A x : MayTest(x)' <=> MayTest(x)
  <2>1. \A x : Depth(x)' = Depth(x) /\ Depth(x) \in 1..10
    BY FlagResets DEF Depth, TypeOK, Pops
  <2>2. \A x : MayTest(x)' <=> MayTest(x)
    BY Zenon DEF MayTest, Pops
  <2>. QED BY <2>1, <2>2
<1>. HIDE DEF k
<1>4. (\A n \in DOMAIN calls : Len(calls) - n + Depth(calls[n]) <= 10)'
  <2>1. ASSUME NEW n \in 1..(k - 1) PROVE Len(calls') - n + Depth(calls[n])' <= 10
    <3>1. Depth(calls[n])' = Depth(calls[n + 1]) BY <1>1, <1>3
    <3>2. k - (n + 1) + Depth(calls[n + 1]) <= 10 BY <1>1, <1>2
    <3>. QED BY <1>1, <1>3, <3>1, <3>2
  <2>. QED BY <1>1, <2>1
<1>5. (testFlag => ~Pending({"Test"}))'
  BY <1>1, <1>2 DEF Pending, Pops
<1>6. (\A m, n \in DOMAIN calls : MayTest(calls[m]) /\ MayTest(calls[n]) => m = n)'
  <2>1. ASSUME NEW m \in 1..(k - 1), NEW n \in 1..(k - 1),
               MayTest(calls'[m]), MayTest(calls'[n])
        PROVE  m = n
    <3>1. m + 1 = n + 1 BY <1>1, <1>2, <2>1
    <3>. QED BY <3>1, <1>1
  <2>. QED BY <1>1, <1>3, <2>1
<1>7. (\A n \in DOMAIN calls : InPlace(n))'
  <2>1. ASSUME NEW n \in 1..(k - 1) PROVE InPlace(n)'
    <3>. DEFINE m == n + 1
    <3>1. m \in 2..k /\ calls'[n] = calls[m] /\ m = n + 1 /\ Len(calls') = k - 1
      BY <1>1
    <3>. HIDE DEF m
    <3>2. /\ calls[m] \in {"Push", "Upload"} => m = k
          /\ calls[m] \in {"EnsureZipSign", "SignZip"} => m = k - 1
          /\ calls[m] \in {"EnsureZip", "Zip"} => m = k - 2
          /\ calls[m] \in {"BuildTest", "FetchTest"} => m < k /\ calls[m + 1] = Follows(calls[m])
          /\ calls[m] = "CheckResult" /\ m > 1 => calls[m - 1] = "RunTest"
      <4>1. InPlace(m) BY <1>1, <1>2, <3>1
      <4>. QED BY <4>1 DEF InPlace, k
    <3>3. /\ m = k => n = Len(calls')
          /\ m = k - 1 => n = Len(calls') - 1
          /\ m = k - 2 => n = Len(calls') - 2
          /\ m < k => n < Len(calls')
      BY <1>1, <3>1
    <3>4. /\ calls'[n] \in {"Push", "Upload"} => n = Len(calls')
          /\ calls'[n] \in {"EnsureZipSign", "SignZip"} => n = Len(calls') - 1
          /\ calls'[n] \in {"EnsureZip", "Zip"} => n = Len(calls') - 2
      BY <1>1, <3>1, <3>2
    <3>5. calls'[n] \in {"BuildTest", "FetchTest"} => n < Len(calls') /\ calls'[n + 1] = Follows(calls'[n])
      <4>. SUFFICES ASSUME calls'[n] \in {"BuildTest", "FetchTest"}
                    PROVE n < Len(calls') /\ calls'[n + 1] = Follows(calls'[n])
        OBVIOUS
      <4>1. m < k /\ calls[m + 1] = Follows(calls[m]) BY <3>1, <3>2
      <4>2. n + 1 \in 1..(k - 1) /\ (n + 1) + 1 = m + 1 BY <1>1, <3>1, <4>1
      <4>. QED BY <1>1, <3>1, <4>1, <4>2
    <3>6. calls'[n] = "CheckResult" /\ n > 1 => calls'[n - 1] = "RunTest"
      <4>. SUFFICES ASSUME calls'[n] = "CheckResult", n > 1
                    PROVE calls'[n - 1] = "RunTest"
        OBVIOUS
      <4>1. m > 1 /\ calls[m - 1] = "RunTest" BY <3>1, <3>2
      <4>2. n - 1 \in 1..(k - 1) /\ (n - 1) + 1 = m - 1 BY <1>1, <3>1
      <4>. QED BY <1>1, <4>1, <4>2
    <3>. QED BY <3>4, <3>5, <3>6 DEF InPlace
  <2>. QED BY <1>1, <2>1
<1>. QED BY <1>4, <1>5, <1>6, <1>7 DEF StackInv

\* Under --test the one call that tests is made with the flag reset.
LEMMA Tests1stStack ==
  ASSUME TypeOK, StackInv, Tests1st
  PROVE  StackInv'
<1>. DEFINE k == Len(calls)
<1>1. /\ k \in Nat /\ k > 0 /\ DOMAIN calls = 1..k /\ calls[1] = "TestFirst"
      /\ Len(calls') = k /\ DOMAIN calls' = 1..k
      /\ calls'[1] = "Test" /\ \A n \in 2..k : calls'[n] = calls[n]
  <2>1. <<"Test">> \in Seq(Calls) /\ Len(<<"Test">>) = 1 /\ <<"Test">>[1] = "Test"
    BY DEF Calls
  <2>. QED BY <2>1, Positions, Pushed DEF Tests1st
<1>2. /\ \A n \in 1..k : k - n + Depth(calls[n]) <= 10
      /\ \A n \in 1..k : calls[n] # "Test"
      /\ \A n \in 1..k : MayTest(calls[n]) => n = 1
      /\ \A n \in 1..k : InPlace(n)
  BY <1>1 DEF StackInv, Pending, MayTest, Tests1st
<1>3. \A x : Depth(x) \in 1..10 /\ Depth(x)' \in 1..10 /\ Depth(x)' <= Depth(x)
  BY FlagResets DEF TypeOK, Tests1st
<1>4. \A x : MayTest(x)' <=> x \in {"Test", "RunTest"}
  BY DEF MayTest, Tests1st
<1>. HIDE DEF k
<1>5. (\A n \in DOMAIN calls : Len(calls) - n + Depth(calls[n]) <= 10)'
  <2>1. ASSUME NEW n \in 1..k PROVE Len(calls') - n + Depth(calls[n])' <= 10
    <3>1. k - n + Depth(calls[n]) <= 10 BY <1>2
    <3>2. Depth(calls[n])' <= Depth(calls[n])
      <4>1. CASE n = 1
        <5>1. Depth(calls[n]) = 8 BY <1>1, <4>1 DEF Depth, Tests1st
        <5>2. Depth(calls[n])' = 8 BY <1>1, <4>1 DEF Depth
        <5>. QED BY <5>1, <5>2
      <4>2. CASE n \in 2..k BY <4>2, <1>1, <1>3
      <4>. QED BY <1>1, <4>1, <4>2
    <3>3. Depth(calls[n]) \in 1..10 /\ Depth(calls[n])' \in 1..10 BY <1>3
    <3>. QED BY <1>1, <3>1, <3>2, <3>3
  <2>. QED BY <1>1, <2>1
<1>6. (testFlag => ~Pending({"Test"}))'
  BY DEF Tests1st
<1>7. (\A m, n \in DOMAIN calls : MayTest(calls[m]) /\ MayTest(calls[n]) => m = n)'
  <2>1. ASSUME NEW n \in 1..k, calls'[n] \in {"Test", "RunTest"} PROVE n = 1
    <3>1. CASE n \in 2..k
      <4>1. MayTest(calls[n]) BY <1>1, <2>1, <3>1 DEF MayTest
      <4>. QED BY <1>2, <4>1
    <3>. QED BY <1>1, <3>1
  <2>. QED BY <1>1, <1>4, <2>1
<1>8. (\A n \in DOMAIN calls : InPlace(n))'
  <2>1. ASSUME NEW n \in 1..k PROVE InPlace(n)'
    <3>1. CASE n = 1 BY <1>1, <3>1 DEF InPlace
    <3>2. CASE n \in 2..k
      <4>1. /\ calls[n] \in {"Push", "Upload"} => n = k
            /\ calls[n] \in {"EnsureZipSign", "SignZip"} => n = k - 1
            /\ calls[n] \in {"EnsureZip", "Zip"} => n = k - 2
            /\ calls[n] \in {"BuildTest", "FetchTest"} => n < k /\ calls[n + 1] = Follows(calls[n])
            /\ calls[n] = "CheckResult" /\ n > 1 => calls[n - 1] = "RunTest"
        <5>1. InPlace(n) BY <1>2
        <5>. QED BY <5>1 DEF InPlace, k
      <4>2. n < k => calls'[n + 1] = calls[n + 1] BY <1>1, <3>2
      <4>3. n > 2 => calls'[n - 1] = calls[n - 1] BY <1>1, <3>2
      <4>4. n = 2 => calls[n] # "CheckResult" BY <1>1, <4>1
      <4>5. calls'[n] = calls[n] /\ Len(calls') = k BY <1>1, <3>2
      <4>6. /\ calls'[n] \in {"Push", "Upload"} => n = Len(calls')
            /\ calls'[n] \in {"EnsureZipSign", "SignZip"} => n = Len(calls') - 1
            /\ calls'[n] \in {"EnsureZip", "Zip"} => n = Len(calls') - 2
        BY <4>1, <4>5
      <4>7. calls'[n] \in {"BuildTest", "FetchTest"} => n < Len(calls') /\ calls'[n + 1] = Follows(calls'[n])
        BY <4>1, <4>2, <4>5
      <4>8. calls'[n] = "CheckResult" /\ n > 1 => calls'[n - 1] = "RunTest"
        BY <3>2, <4>1, <4>3, <4>4, <4>5
      <4>. QED BY <4>6, <4>7, <4>8 DEF InPlace
    <3>. QED BY <1>1, <3>1, <3>2
  <2>. QED BY <1>1, <2>1
<1>. QED BY <1>5, <1>6, <1>7, <1>8 DEF StackInv

\* The verbs that call a method of the ACI, and the method.
Verbs(name, op) == \/ name = "sign"    /\ op = "Sign"
                   \/ name = "install" /\ op = "Install"
                   \/ name = "push"    /\ op = "Push"
                   \/ name = "test"    /\ op = "Test"

\* What a command starts with.
LEMMA StartCalls ==
  ASSUME NEW c \in Commands, Start(c)
  PROVE  /\ c \in CommandType
         /\ \/ c.name \in {"build", "try"} /\ calls' = <<"CleanAndRun">>
            \/ c.name = "init" /\ calls' = <<"CleanAndRun", "Clean">>
            \/ c.name = "clean" /\ ~c.clean /\ calls' = <<"Clean">>
            \/ \E op \in {"Sign", "Install", "Push", "Test"} :
                 /\ Verbs(c.name, op)
                 /\ \/ c.clean /\ calls' = <<"Clean", op>>
                    \/ ~c.clean /\ calls' = <<op>>
<1>1. c \in CommandType BY AciAssumption
<1>2. calls' = CleanFirst(c) \o CommandCalls(c) BY DEF Start
<1>3. c.name \in Names /\ c.clean \in BOOLEAN /\ (c.clean => c.name \notin {"init", "clean"})
  BY <1>1 DEF CommandType
<1>4. \A s \in Seq(Calls) : <<>> \o s = s BY ConcatEmptySeq
<1>5. CommandCalls(c) \in Seq(Calls) BY <1>1, BodiesAreCalls
<1>6. CASE c.name \in {"build", "try"}
  <2>1. CleanFirst(c) = <<>> BY <1>6, Zenon DEF CleanFirst
  <2>2. CommandCalls(c) = <<"CleanAndRun">> BY <1>6, SMT DEF CommandCalls
  <2>. QED BY <1>1, <1>2, <1>4, <1>5, <1>6, <2>1, <2>2
<1>7. CASE c.name \in {"init", "clean"}
  <2>1. CleanFirst(c) = <<>> BY <1>3, <1>7, Zenon DEF CleanFirst
  <2>2. calls' = CommandCalls(c) BY <1>2, <1>4, <1>5, <2>1
  <2>3. c.name = "init" => CommandCalls(c) = <<"CleanAndRun", "Clean">>
    BY SMT DEF CommandCalls
  <2>4. c.name = "clean" => CommandCalls(c) = <<"Clean">>
    BY SMT DEF CommandCalls
  <2>. QED BY <1>1, <1>3, <1>7, <2>2, <2>3, <2>4
<1>8. ASSUME NEW op \in {"Sign", "Install", "Push", "Test"}, Verbs(c.name, op)
      PROVE  \/ c.clean /\ calls' = <<"Clean", op>>
             \/ ~c.clean /\ calls' = <<op>>
  <2>1. CommandCalls(c) = <<op>>
    <3>1. c.name = "sign" => CommandCalls(c) = <<"Sign">> BY SMT DEF CommandCalls
    <3>2. c.name = "install" => CommandCalls(c) = <<"Install">> BY SMT DEF CommandCalls
    <3>3. c.name = "push" => CommandCalls(c) = <<"Push">> BY SMT DEF CommandCalls
    <3>4. c.name = "test" => CommandCalls(c) = <<"Test">> BY SMT DEF CommandCalls
    <3>. QED BY <1>8, <3>1, <3>2, <3>3, <3>4, Zenon DEF Verbs
  <2>2. CASE c.clean
    <3>1. CleanFirst(c) = <<"Clean">> BY <1>8, <2>2, SMT DEF CleanFirst, Verbs
    <3>2. <<"Clean">> \o <<op>> = <<"Clean", op>>
      <4>. DEFINE s == <<"Clean">>
                  t == <<op>>
      <4>1. s \in Seq(Calls) /\ t \in Seq(Calls) BY DEF Calls
      <4>2. Len(s) = 1 /\ Len(t) = 1 /\ s[1] = "Clean" /\ t[1] = op OBVIOUS
      <4>. HIDE DEF s, t
      <4>3. /\ s \o t \in Seq(Calls) /\ Len(s \o t) = 2
            /\ (s \o t)[1] = "Clean" /\ (s \o t)[2] = op
        BY <4>1, <4>2, ConcatProperties
      <4>. DEFINE u == s \o t
      <4>4. u \in Seq(Calls) /\ Len(u) = 2 /\ u[1] = "Clean" /\ u[2] = op BY <4>3
      <4>. HIDE DEF u
      <4>5. u = <<"Clean", op>> BY <4>4
      <4>. QED BY <4>5 DEF s, t, u
    <3>. QED BY <1>2, <2>1, <2>2, <3>1, <3>2
  <2>3. CASE ~c.clean
    <3>1. CleanFirst(c) = <<>> BY <2>3, Zenon DEF CleanFirst
    <3>. QED BY <1>2, <1>4, <1>5, <2>1, <2>3, <3>1
  <2>. QED BY <1>3, <2>2, <2>3
<1>9. CASE c.name \in {"sign", "install", "push", "test"}
  <2>1. \E op \in {"Sign", "Install", "Push", "Test"} : Verbs(c.name, op)
    BY <1>9 DEF Verbs
  <2>. QED BY <1>1, <1>8, <2>1
<1>. QED BY <1>3, <1>6, <1>7, <1>9 DEF Names

\* What a command starts with is in place.
LEMMA StartStack ==
  ASSUME NEW c \in Commands, Start(c)
  PROVE  StackInv'
<1>1. testFlag' = c.test BY DEF Start
<1>2. c \in CommandType BY StartCalls
<1>3. c.test \in BOOLEAN /\ (c.name = "test" => c.test = FALSE) BY <1>2 DEF CommandType
<1>. USE DEF StackInv, InPlace, MayTest, Depth, Pending
<1>4. CASE calls' = <<"CleanAndRun">> BY <1>4
<1>5. CASE calls' = <<"CleanAndRun", "Clean">> BY <1>5
<1>6. CASE calls' = <<"Clean">> BY <1>6
<1>7. ASSUME NEW op \in {"Sign", "Install", "Push", "Test"}, Verbs(c.name, op),
             calls' = <<op>>
      PROVE  StackInv'
  <2>1. op = "Test" => testFlag' = FALSE BY <1>1, <1>3, <1>7 DEF Verbs
  <2>. QED BY <1>1, <1>3, <1>7, <2>1
<1>8. ASSUME NEW op \in {"Sign", "Install", "Push", "Test"}, Verbs(c.name, op),
             calls' = <<"Clean", op>>
      PROVE  StackInv'
  <2>1. op = "Test" => testFlag' = FALSE BY <1>1, <1>3, <1>8 DEF Verbs
  <2>. QED BY <1>1, <1>3, <1>8, <2>1
<1>. QED BY <1>4, <1>5, <1>6, <1>7, <1>8, StartCalls

\* An error leaves at most the Clean of Init.
LEMMA UnwindStack ==
  ASSUME TypeOK, Unwinds
  PROVE  StackInv'
<1>. USE DEF StackInv, InPlace, MayTest, Depth, Pending
<1>1. CASE calls' = <<>> BY <1>1
<1>2. CASE calls' = <<"Clean">> BY <1>2
<1>. QED BY <1>1, <1>2 DEF Unwinds

\* No call is pending before the first command.
LEMMA InitStack == Init => StackInv
  BY DEF Init, StackInv, Pending

\* Every step keeps the stack in order.
LEMMA StepStack ==
  ASSUME TypeOK, StackInv, [Next]_vars
  PROVE  StackInv'
<1>1. CASE Stays
  <2>1. /\ \A x : Depth(x)' = Depth(x)
        /\ \A n : InPlace(n)' <=> InPlace(n)
        /\ Pending({"Test"})' <=> Pending({"Test"})
    BY <1>1 DEF Stays, Depth, InPlace, Pending
  <2>2. \A x : MayTest(x)' <=> MayTest(x)
    BY <1>1, Zenon DEF Stays, MayTest
  <2>3. (\A n \in DOMAIN calls : Len(calls) - n + Depth(calls[n]) <= 10)'
    BY <1>1, <2>1 DEF Stays, StackInv
  <2>4. (\A m, n \in DOMAIN calls : MayTest(calls[m]) /\ MayTest(calls[n]) => m = n)'
    BY <1>1, <2>2 DEF Stays, StackInv
  <2>. QED BY <1>1, <2>1, <2>3, <2>4 DEF Stays, StackInv
<1>2. CASE Expands
  <2>1. PICK body \in Seq(Calls) : /\ ExpandsTo(Head(calls), body)
                                   /\ calls' = body \o Tail(calls)
    BY <1>2 DEF Expands
  <2>2. calls # <<>> /\ testFlag' = testFlag BY <1>2 DEF Expands
  <2>3. testFlag => Head(calls) # "Test"
    BY <2>2, Positions DEF StackInv, Pending
  <2>. QED BY <2>1, <2>2, <2>3, BodiesFit, FitStack
<1>. QED BY <1>1, <1>2, CallsStep, PopStack, Tests1stStack, UnwindStack, StartStack

\* The pending calls stay in order, whatever the commands and the faults: a
\* command runs at most one test container, and the calls of Push and Test are
\* made from where their bodies put them.
THEOREM StackInvCorrect == Spec => []StackInv
<1>1. TypeOK /\ StackInv /\ [Next]_vars => StackInv' BY StepStack
<1>. QED BY <1>1, InitStack, TypeCorrect, PTL DEF Spec

\* The mutual recursion of Install, Push and Test ends within the depth of its
\* deepest legal nesting (NestingBounded).
THEOREM NestingCorrect == Spec => []NestingBounded
<1>1. ASSUME TypeOK, StackInv PROVE NestingBounded
  <2>1. CASE calls = <<>> BY <2>1, Positions, <1>1 DEF NestingBounded
  <2>2. CASE calls # <<>>
    <3>1. 1 \in DOMAIN calls /\ Len(calls) \in Nat BY <1>1, <2>2, Positions
    <3>2. Len(calls) - 1 + Depth(calls[1]) <= 10 BY <1>1, <3>1 DEF StackInv
    <3>3. Depth(calls[1]) \in 1..10 BY <1>1 DEF Depth, TypeOK
    <3>. QED BY <3>1, <3>2, <3>3 DEF NestingBounded
  <2>. QED BY <2>1, <2>2
<1>. QED BY <1>1, StackInvCorrect, TypeCorrect, PTL

\* No error is on its way before the first command.
LEMMA InitFail == Init => FailInv
  BY DEF Init, FailInv

\* After an error nothing is called but the deferred clean-ups and Clean.
LEMMA StepFail ==
  ASSUME TypeOK, FailInv, [Next]_vars
  PROVE  FailInv'
<1>. USE DEF FailInv
<1>1. ASSUME Fail PROVE FailInv'
  <2>1. calls' \in {<<>>, <<"Clean">>} /\ phase' = "none" BY <1>1 DEF Fail, Unwind
  <2>2. \A n \in DOMAIN calls' : calls'[n] = "Clean"
    <3>1. CASE calls' = <<>> BY <3>1
    <3>2. CASE calls' = <<"Clean">> BY <3>2
    <3>. QED BY <2>1, <3>1, <3>2
  <2>. QED BY <2>1, <2>2
<1>2. ASSUME calls # <<>>, calls' = Tail(calls), phase = "none", phase' = "none", failed' = failed
      PROVE  FailInv'
  BY <1>2, Popped
<1>3. CASE \E c \in Commands : Start(c) BY <1>3 DEF Start
<1>4. ASSUME NEW op, calls # <<>>, Head(calls) = op, op # "Clean", phase = "none"
      PROVE  failed = FALSE
  BY <1>4, Positions DEF TypeOK
<1>5. CASE \/ Sign \/ Install \/ Push \/ Test \/ EnsureBuilt \/ EnsureSign
           \/ EnsureZip \/ EnsureZipSign \/ TestFirst
  <2>1. failed = FALSE /\ failed' = failed
    BY <1>4, <1>5 DEF Sign, Install, Push, Test, EnsureBuilt, EnsureSign, EnsureZip,
       EnsureZipSign, TestFirst, Expand, Calling
  <2>. QED BY <2>1
<1>6. CASE Clean BY <1>2, <1>6 DEF Clean, Calling, Return
<1>13. CASE Gpg
  <2>1. failed = FALSE BY <1>13 DEF Gpg, GpgFile, Builder, TypeOK
  <2>2. Fail \/ failed' = failed BY <1>13 DEF Gpg, GpgFile
  <2>. QED BY <1>1, <2>1, <2>2
<1>7. CASE \/ CleanAndRun \/ BuildTest \/ SignImage \/ SignZip \/ Zip
           \/ Fetch \/ FetchTest \/ CheckResult \/ UploadAci
  <2>1. failed = FALSE
    BY <1>4, <1>7 DEF CleanAndRun, BuildTest, SignImage, SignZip, SignFile, Zip,
       Fetch, FetchTest, CheckResult, UploadAci, Calling
  <2>2. Fail \/ failed' = failed
    BY <1>7 DEF CleanAndRun, BuildTest, SignImage, SignZip, SignFile, Zip,
       Fetch, FetchTest, CheckResult, UploadAci, Return, Advance
  <2>. QED BY <1>1, <2>1, <2>2
<1>8. CASE RunTest BY <1>8, <1>4 DEF RunTest, Calling
<1>9. CASE \/ PrepareStage1 \/ PrepareBuilder \/ RunBuilder \/ RunLevels \/ TarAci
           \/ ExtractManifest \/ ZipCopy \/ EndTests \/ StopTests
  <2>1. failed = FALSE
    BY <1>9 DEF PrepareStage1, PrepareBuilder, RunBuilder, RunLevels, TarAci,
       ExtractManifest, ZipCopy, EndTests, StopTests, Builder, TypeOK
  <2>2. Fail \/ failed' = failed \/ phase' \in {"cleanup", "testcleanup"}
    BY <1>9 DEF PrepareStage1, PrepareBuilder, RunBuilder, RunLevels, TarAci,
       ExtractManifest, ZipCopy, EndTests, StopTests, Advance, Abort
  <2>. QED BY <1>1, <2>1, <2>2
<1>10. CASE CleanupRun \/ CleanupTest
  <2>1. Fail \/ failed' = FALSE
    BY <1>10 DEF CleanupRun, CleanupTest, Advance, TypeOK
  <2>. QED BY <1>1, <2>1
<1>11. CASE Kill BY <1>11 DEF Kill
<1>12. CASE UNCHANGED vars \/ Finish \/ RunTestFile
  <2>1. UNCHANGED machine BY <1>12 DEF vars, Finish, RunTestFile
  <2>. QED BY <2>1 DEF machine
<1>. QED BY <1>3, <1>5, <1>6, <1>7, <1>8, <1>9, <1>10, <1>11, <1>12, <1>13 DEF Next, Step

\* After an error nothing is called but the deferred clean-ups and Clean.
THEOREM FailInvCorrect == Spec => []FailInv
<1>1. TypeOK /\ FailInv /\ [Next]_vars => FailInv' BY StepFail
<1>. QED BY <1>1, InitFail, TypeCorrect, PTL DEF Spec

----------------------------------------------------------------------------
(* What is pending after a step *)

\* A call that is pending was pending before, unless it is in a new body.
LEMMA PendingStep ==
  ASSUME TypeOK, NEW ops
  PROVE  /\ Stays => (Pending(ops)' <=> Pending(ops))
         /\ Pops => (Pending(ops)' => Pending(ops))
         /\ Pops /\ Head(calls) \notin ops => (Pending(ops) => Pending(ops)')
         /\ Unwinds /\ "Clean" \notin ops => ~Pending(ops)'
<1>. USE DEF Pending
<1>1. Stays => (Pending(ops)' <=> Pending(ops)) BY DEF Stays
<1>2. ASSUME Pops PROVE Pending(ops)' => Pending(ops)
  BY <1>2, Popped DEF Pops
<1>3. ASSUME Pops, Head(calls) \notin ops, Pending(ops) PROVE Pending(ops)'
  <2>1. PICK n \in 1..Len(calls) : calls[n] \in ops BY <1>3, Positions
  <2>2. n # 1 /\ Len(calls) \in Nat BY <1>3, <2>1, Positions DEF Pops
  <2>3. DOMAIN calls' = 1..(Len(calls) - 1) /\ \A i \in DOMAIN calls' : calls'[i] = calls[i + 1]
    BY <1>3, Popped DEF Pops
  <2>4. n - 1 \in 1..(Len(calls) - 1) /\ (n - 1) + 1 = n BY <2>1, <2>2
  <2>. QED BY <2>1, <2>3, <2>4
<1>4. ASSUME Unwinds, "Clean" \notin ops PROVE ~Pending(ops)'
  <2>1. CASE calls' = <<>> BY <2>1
  <2>2. CASE calls' = <<"Clean">> BY <1>4, <2>2
  <2>. QED BY <1>4, <2>1, <2>2 DEF Unwinds
<1>. QED BY <1>1, <1>2, <1>3, <1>4

\* The same where a method is replaced by its body.
LEMMA PendingBody ==
  ASSUME TypeOK, calls # <<>>, NEW body \in Seq(Calls), calls' = body \o Tail(calls), NEW ops
  PROVE  /\ Pending(ops)' => Pending(ops) \/ \E i \in 1..Len(body) : body[i] \in ops
         /\ (\E i \in 1..Len(body) : body[i] \in ops) => Pending(ops)'
         /\ Pending(ops) /\ Head(calls) \notin ops => Pending(ops)'
<1>. USE DEF Pending
<1>. DEFINE b == Len(body)
<1>1. /\ Len(calls) \in Nat /\ b \in Nat /\ DOMAIN calls = 1..Len(calls)
      /\ calls[1] = Head(calls)
      /\ DOMAIN calls' = 1..(b + Len(calls) - 1) /\ Len(calls) > 0
  BY Positions, Pushed
<1>2. \A n \in 1..(b + Len(calls) - 1) :
        IF n <= b THEN n \in 1..b /\ calls'[n] = body[n]
                  ELSE /\ n - b + 1 \in 2..Len(calls)
                       /\ calls'[n] = calls[n - b + 1]
  BY <1>1, Pushed
<1>. HIDE DEF b
<1>3. ASSUME NEW n \in 1..(b + Len(calls) - 1), calls'[n] \in ops
      PROVE  Pending(ops) \/ \E i \in 1..b : body[i] \in ops
  <2>1. CASE n <= b BY <1>2, <1>3, <2>1
  <2>2. CASE ~(n <= b)
    <3>1. n - b + 1 \in 1..Len(calls) /\ calls[n - b + 1] \in ops BY <1>1, <1>2, <1>3, <2>2
    <3>. QED BY <1>1, <3>1
  <2>. QED BY <2>1, <2>2
<1>4. ASSUME NEW i \in 1..b, body[i] \in ops PROVE Pending(ops)'
  <2>1. i \in 1..(b + Len(calls) - 1) /\ i <= b BY <1>1
  <2>. QED BY <1>1, <1>2, <1>4, <2>1
<1>5. ASSUME NEW n \in 1..Len(calls), calls[n] \in ops, Head(calls) \notin ops PROVE Pending(ops)'
  <2>1. n # 1 BY <1>1, <1>5
  <2>2. /\ n + b - 1 \in 1..(b + Len(calls) - 1) /\ ~(n + b - 1 <= b)
        /\ (n + b - 1) - b + 1 = n
    BY <1>1, <2>1
  <2>3. calls'[n + b - 1] = calls[n] BY <1>2, <2>2
  <2>. QED BY <1>1, <1>5, <2>2, <2>3
<1>. QED BY <1>1, <1>3, <1>4, <1>5 DEF b

----------------------------------------------------------------------------
(* Signatures and uploads *)

\* The files that are kept keep what they hold.
LEMMA LeaveSign ==
  ASSUME SignInv, \A f \in Files : target'[f] \in {target[f], Absent},
         phase' \notin {"tar", "zip", "gpg"}, phase # "gpg" \/ GpgInterrupted,
         ~Pending({"EnsureZip", "Zip"})' \/ ~Exists("gzasc")'
  PROVE  SignInv'
  BY DEF SignInv, SignaturesVerify, Verified, CutBy, GpgInterrupted, Exists, Files, Absent

\* Which steps leave the target alone, and where they go.
LEMMA SameTargetSign ==
  ASSUME SignInv, target' = target, phase' = "tar" => (phase = "tar" \/ at' # "main"),
         at' = "main" => at = "main" \/ phase' # "tar",
         phase' = "zip" => phase = "zip",
         \/ phase # "gpg" /\ phase' # "gpg"
         \/ phase' = phase /\ calls' = calls /\ Running' = Running,
         Pending({"EnsureZip", "Zip"})' => Pending({"EnsureZip", "Zip"}) \/ ~Exists("gzasc")
  PROVE  SignInv'
  BY DEF SignInv, SignaturesVerify, Verified, CutBy, GpgInterrupted, Exists

\* What a step makes of the two signatures, where gpg has nothing to do with it.
LEMMA WholeSign ==
  ASSUME SignInv, phase # "gpg", phase' # "gpg",
         target'["image"].content # "cut", target'["gz"].content # "cut",
         target'["asc"].content = "cut" => target["asc"].content = "cut",
         target'["gzasc"].content = "cut" => target["gzasc"].content = "cut",
         (Exists("asc") /\ Exists("image") /\ target["asc"].content # "cut"
            => target["asc"] = target["image"])',
         (Exists("gzasc") /\ Exists("gz") /\ target["gzasc"].content # "cut"
            => target["gzasc"] = target["gz"])',
         (phase = "tar" /\ at = "main" => ~Exists("asc"))',
         (phase = "zip" \/ Pending({"EnsureZip", "Zip"}) => ~Exists("gzasc"))'
  PROVE  SignInv'
  BY DEF SignInv, SignaturesVerify, Verified, CutBy, GpgInterrupted

\* Every step keeps the signatures those of the files beside them.
LEMMA StepSign ==
  ASSUME TypeOK, BuildInv, StackInv, SignInv, "rm" \notin Faults, [Next]_vars
  PROVE  SignInv'
<1>. USE DEF disk, store, session, tests
<1>. DEFINE Zips == Pending({"EnsureZip", "Zip"})
<1>1. Pops \/ Stays \/ Unwinds => (Zips' => Zips)
  BY PendingStep
<1>2. ASSUME Fail, testFlag' = testFlag PROVE Unwinds
  BY <1>2 DEF Fail, Unwind, Unwinds
<1>3. CASE \E c \in Commands : Start(c)
  <2>1. PICK c \in Commands : Start(c) BY <1>3
  <2>2. ~Zips'
    <3>. USE DEF Pending
    <3>1. CASE calls' = <<"CleanAndRun">> BY <3>1
    <3>2. CASE calls' = <<"CleanAndRun", "Clean">> BY <3>2
    <3>3. CASE calls' = <<"Clean">> BY <3>3
    <3>4. ASSUME NEW op \in {"Sign", "Install", "Push", "Test"},
                 calls' = <<op>> \/ calls' = <<"Clean", op>>
          PROVE  ~Zips'
      <4>1. CASE calls' = <<op>> BY <4>1
      <4>2. CASE calls' = <<"Clean", op>> BY <4>2
      <4>. QED BY <3>4, <4>1, <4>2
    <3>. QED BY <2>1, <3>1, <3>2, <3>3, <3>4, StartCalls
  <2>3. target' = target /\ phase' = "none" /\ phase # "gpg" BY <2>1 DEF Start, SignInv
  <2>. QED BY <2>2, <2>3, SameTargetSign
<1>4. CASE \/ Sign \/ Install \/ Push \/ Test \/ EnsureBuilt \/ EnsureSign
           \/ EnsureZip \/ EnsureZipSign
  <2>1. target' = target /\ phase = "none" /\ phase' = "none" /\ calls # <<>>
    BY <1>4 DEF Sign, Install, Push, Test, EnsureBuilt, EnsureSign, EnsureZip,
       EnsureZipSign, Expand, Calling
  <2>2. Zips' => Zips \/ ~Exists("gzasc")
    <3>1. CASE Pops BY <1>1, <3>1
    <3>2. CASE Expands
      <4>1. PICK body \in Seq(Calls) : /\ ExpandsTo(Head(calls), body)
                                       /\ calls' = body \o Tail(calls)
        BY <3>2 DEF Expands
      <4>2. CASE Head(calls) \in {"EnsureZip"}
        <5>1. Zips BY <2>1, <4>2, Positions DEF Pending
        <5>. QED BY <5>1
      <4>3. CASE Head(calls) = "EnsureZipSign"
        <5>1. EnsureZipSign
          BY <1>4, <4>3 DEF Sign, Install, Push, Test, EnsureBuilt, EnsureSign,
             EnsureZip, Expand, Calling
        <5>2. CASE ~Exists("gzasc") BY <5>2
        <5>3. CASE Exists("gzasc")
          <6>1. calls' = <<>> \o Tail(calls) BY <5>1, <5>3 DEF EnsureZipSign, Expand
          <6>2. Zips' => Zips \/ \E i \in 1..Len(<<>>) : <<>>[i] \in {"EnsureZip", "Zip"}
            BY <2>1, <6>1, PendingBody, BodiesAreCalls
          <6>. QED BY <6>2
        <5>. QED BY <5>2, <5>3
      <4>4. CASE Head(calls) \notin {"EnsureZip", "EnsureZipSign"}
        <5>1. \A i \in 1..Len(body) : body[i] \notin {"EnsureZip", "Zip"}
          BY <4>1, <4>4 DEF ExpandsTo, SignCalls, InstallCalls, PushCalls, TestCalls
        <5>. QED BY <2>1, <4>1, <5>1, PendingBody
      <4>. QED BY <4>2, <4>3, <4>4
    <3>. QED BY <1>4, <3>1, <3>2, ExpandStep
  <2>. QED BY <2>1, <2>2, SameTargetSign
<1>5. CASE TestFirst
  <2>1. target' = target /\ phase = "none" /\ phase' = "none" /\ calls # <<>>
    BY <1>5 DEF TestFirst, Calling
  <2>2. Zips' => Zips
    <3>. DEFINE body == IF testFlag THEN <<"Test">> ELSE <<>>
    <3>1. body \in Seq(Calls) /\ \A i \in 1..Len(body) : body[i] \notin {"EnsureZip", "Zip"}
      <4>1. CASE testFlag
        <5>1. body = <<"Test">> BY <4>1
        <5>2. /\ <<"Test">> \in Seq(Calls) /\ Len(<<"Test">>) = 1
              /\ <<"Test">>[1] = "Test"
          BY DEF Calls
        <5>. HIDE DEF body
        <5>. QED BY <5>1, <5>2
      <4>2. CASE ~testFlag
        <5>1. body = <<>> BY <4>2
        <5>. QED BY <5>1
      <4>. QED BY <4>1, <4>2
    <3>2. calls' = body \o Tail(calls) BY <1>5 DEF TestFirst
    <3>. HIDE DEF body
    <3>. QED BY <2>1, <3>1, <3>2, PendingBody
  <2>. QED BY <2>1, <2>2, SameTargetSign
<1>6. CASE Clean \/ CleanAndRun
  <2>1. /\ \A f \in Files : target'[f] = Absent /\ phase' \in {"none", "stage1"}
        /\ phase = "none"
    BY <1>6 DEF Clean, CleanAndRun, RemoveTarget, Leave, Return, Calling
  <2>. QED BY <2>1, LeaveSign DEF Exists, Files
<1>7. CASE \/ Finish \/ BuildTest \/ Fetch \/ FetchTest \/ RunTest \/ CheckResult \/ UploadAci
           \/ PrepareStage1 \/ PrepareBuilder \/ RunBuilder \/ ExtractManifest
           \/ CleanupRun \/ RunTestFile \/ EndTests \/ StopTests \/ CleanupTest
           \/ UNCHANGED vars
  <2>1. target' = target
    BY <1>7 DEF Finish, BuildTest, Fetch, FetchTest, RunTest, CheckResult, UploadAci,
       PrepareStage1, PrepareBuilder, RunBuilder, ExtractManifest, CleanupRun,
       RunTestFile, EndTests, StopTests, CleanupTest, vars
  <2>2. \/ phase # "gpg" /\ phase' \notin {"tar", "zip", "gpg"}
        \/ phase' = phase /\ at' = at /\ calls' = calls /\ Running' = Running
    BY <1>7 DEF Finish, BuildTest, Fetch, FetchTest, RunTest, CheckResult, UploadAci,
       PrepareStage1, PrepareBuilder, RunBuilder, ExtractManifest, CleanupRun,
       RunTestFile, EndTests, StopTests, CleanupTest, vars, machine, Return, Calling,
       Builder, Advance, Abort, Fail, Running
  <2>3. Pops \/ Stays \/ Unwinds
    <3>1. CASE \/ BuildTest \/ Fetch \/ FetchTest \/ RunTest \/ CheckResult \/ UploadAci
      BY <1>2, <3>1 DEF BuildTest, Fetch, FetchTest, RunTest, CheckResult, UploadAci,
         Calling, Return, Pops
    <3>2. CASE \/ PrepareStage1 \/ PrepareBuilder \/ RunBuilder \/ ExtractManifest
               \/ CleanupRun \/ RunTestFile \/ EndTests \/ StopTests \/ CleanupTest
               \/ Finish \/ UNCHANGED vars
      BY <1>2, <3>2 DEF PrepareStage1, PrepareBuilder, RunBuilder, ExtractManifest,
         CleanupRun, RunTestFile, EndTests, StopTests, CleanupTest, Finish, vars,
         Advance, Abort, machine, Stays
    <3>. QED BY <1>7, <3>1, <3>2
  <2>. QED BY <1>1, <2>1, <2>2, <2>3, SameTargetSign
<1>8. CASE RunLevels
  <2>1. Stays BY <1>8 DEF RunLevels, Advance, Abort, Stays
  <2>2. CASE target' = target
    <3>1. phase' \notin {"zip", "gpg"} /\ at' = at /\ phase # "gpg"
      BY <1>8 DEF RunLevels, Builder, Advance, Abort
    <3>2. phase' = "tar" => at' # "main"
      <4>. SUFFICES ASSUME phase' = "tar", at = "main" PROVE FALSE
        BY <3>1
      <4>1. target'["image"] = [id |-> issued, from |-> Verb, content |-> "truncated"]
        BY <1>8 DEF RunLevels, Abort, TypeOK, Files
      <4>2. target["image"] = Absent /\ issued > 0
        BY <1>8 DEF RunLevels, Builder, BuildInv, EmptyBeforeTar, Exists, Numbered, Files
      <4>. QED BY <2>2, <4>1, <4>2 DEF Absent, TypeOK
    <3>. QED BY <1>1, <2>1, <2>2, <3>1, <3>2, SameTargetSign
  <2>3. CASE target' # target
    <3>1. at = "main" /\ \A f \in Files : target[f] = Absent
      BY <1>8, <2>3 DEF RunLevels, Builder, BuildInv, EmptyBeforeTar, Exists
    <3>2. /\ \A f \in Files \ {"image"} : target'[f] = Absent
          /\ target'["image"].content = "truncated"
      BY <1>8, <2>3, <3>1 DEF RunLevels, TypeOK, Files
    <3>3. phase' \notin {"zip", "gpg"} /\ phase # "gpg"
      BY <1>8 DEF RunLevels, Builder, Advance, Abort
    <3>. QED BY <3>2, <3>3, WholeSign DEF Exists, Files, Absent
  <2>. QED BY <2>2, <2>3
<1>9. CASE TarAci
  <2>1. Stays /\ phase' \notin {"tar", "zip", "gpg"} /\ phase # "gpg"
    BY <1>9 DEF TarAci, Builder, Advance, Abort, Stays
  <2>2. CASE target' = target
    BY <1>1, <2>1, <2>2, SameTargetSign
  <2>3. CASE target' # target
    <3>1. ~Exists("asc") /\ \A f \in Files \ {"image"} : target'[f] = target[f]
      BY <1>9, <2>3 DEF TarAci, Builder, SignInv, TypeOK
    <3>2. target'["image"].content = "whole"
      BY <1>9, <2>3 DEF TarAci, TypeOK, Files, Artifact
    <3>3. /\ Exists("gzasc") /\ Exists("gz") /\ target["gzasc"].content # "cut"
               => target["gzasc"] = target["gz"]
          /\ target["gz"].content # "cut"
          /\ Pending({"EnsureZip", "Zip"}) => ~Exists("gzasc")
      BY DEF SignInv, SignaturesVerify, Verified
    <3>. QED BY <1>1, <2>1, <3>1, <3>2, <3>3, WholeSign DEF Exists, Files
  <2>. QED BY <2>2, <2>3
<1>10. CASE SignImage
  <2>1. /\ calls # <<>> /\ Head(calls) = "SignImage" /\ Running /\ Running' /\ phase = "none"
        /\ Stays \/ Pops \/ Unwinds
    BY <1>2, <1>10 DEF SignImage, SignFile, Calling, Return, Advance, Pops, Stays, Running
  <2>2. CASE target' = target /\ phase' = "none" BY <1>1, <2>1, <2>2, SameTargetSign
  <2>3. CASE /\ target' = [target EXCEPT !["asc"] = [target["image"] EXCEPT !.content = "cut"]]
             /\ Advance("gpg")
    <3>1. target'["asc"].content = "cut" /\ \A f \in Files \ {"asc"} : target'[f] = target[f]
      BY <2>3 DEF TypeOK, Files, Artifact
    <3>2. phase' = "gpg" /\ calls' = calls BY <2>3 DEF Advance
    <3>. QED BY <1>1, <2>1, <3>1, <3>2
         DEF SignInv, SignaturesVerify, Verified, CutBy, GpgInterrupted, Exists, Files
  <2>. QED BY <1>10, <2>2, <2>3 DEF SignImage, SignFile, Calling, Return, Fail
<1>15. ASSUME calls # <<>>, Head(calls) = "SignZip" PROVE ~Zips
  <2>1. Len(calls) = 2 /\ DOMAIN calls = 1..2 /\ calls[1] = "SignZip"
    BY <1>15, Positions DEF StackInv, InPlace
  <2>2. calls[2] \notin {"EnsureZip", "Zip"}
    BY <2>1 DEF StackInv, InPlace
  <2>. QED BY <2>1, <2>2 DEF Pending
<1>11. CASE SignZip
  <2>1. /\ calls # <<>> /\ Head(calls) = "SignZip" /\ Running /\ Running' /\ phase = "none"
        /\ Stays \/ Pops \/ Unwinds
    BY <1>2, <1>11 DEF SignZip, SignFile, Calling, Return, Advance, Pops, Stays, Running
  <2>2. CASE target' = target /\ phase' = "none" BY <1>1, <2>1, <2>2, SameTargetSign
  <2>3. CASE /\ target' = [target EXCEPT !["gzasc"] = [target["gz"] EXCEPT !.content = "cut"]]
             /\ Advance("gpg")
    <3>1. target'["gzasc"].content = "cut" /\ \A f \in Files \ {"gzasc"} : target'[f] = target[f]
      BY <2>3 DEF TypeOK, Files, Artifact
    <3>2. phase' = "gpg" /\ calls' = calls BY <2>3 DEF Advance
    <3>3. ~Zips' BY <1>1, <1>15, <2>1
    <3>. QED BY <2>1, <3>1, <3>2, <3>3
         DEF SignInv, SignaturesVerify, Verified, CutBy, GpgInterrupted, Exists, Files
  <2>. QED BY <1>11, <2>2, <2>3 DEF SignZip, SignFile, Calling, Return, Fail
<1>16. CASE Gpg
  <2>1. Pops \/ Unwinds
    BY <1>2, <1>16 DEF Gpg, GpgFile, Pops
  <2>2. phase' = "none" /\ phase = "gpg" /\ Running /\ calls # <<>>
    BY <1>16 DEF Gpg, GpgFile, Fail, Builder
  <2>3. /\ target["image"].content # "cut" /\ target["gz"].content # "cut"
        /\ Zips => ~Exists("gzasc")
        /\ CutBy("asc", "SignImage") /\ CutBy("gzasc", "SignZip")
    BY DEF SignInv
  <2>4. CASE GpgFile("SignImage", "image", "asc")
    <3>1. Head(calls) = "SignImage" BY <2>4 DEF GpgFile
    <3>2. target["gzasc"].content = "cut" => GpgInterrupted BY <2>3, <3>1 DEF CutBy
    <3>3. /\ \/ target'["asc"] \in {target["image"], Absent}
             \/ target'["asc"] = target["asc"] /\ GpgInterrupted
          /\ \A f \in Files \ {"asc"} : target'[f] = target[f]
      BY <2>4 DEF GpgFile, TypeOK, Files, GpgInterrupted
    <3>. QED BY <1>1, <2>1, <2>2, <2>3, <3>2, <3>3
         DEF SignInv, SignaturesVerify, Verified, CutBy, GpgInterrupted, Exists, Files, Absent
  <2>5. CASE GpgFile("SignZip", "gz", "gzasc")
    <3>1. Head(calls) = "SignZip" BY <2>5 DEF GpgFile
    <3>2. target["asc"].content = "cut" => GpgInterrupted BY <2>3, <3>1 DEF CutBy
    <3>3. /\ \/ target'["gzasc"] \in {target["gz"], Absent}
             \/ target'["gzasc"] = target["gzasc"] /\ GpgInterrupted
          /\ \A f \in Files \ {"gzasc"} : target'[f] = target[f]
      BY <2>5 DEF GpgFile, TypeOK, Files, GpgInterrupted
    <3>4. ~Zips' BY <1>1, <1>15, <2>1, <2>2, <3>1
    <3>. QED BY <2>1, <2>2, <2>3, <3>2, <3>3, <3>4
         DEF SignInv, SignaturesVerify, Verified, CutBy, GpgInterrupted, Exists, Files, Absent
  <2>. QED BY <1>16, <2>4, <2>5 DEF Gpg
<1>12. CASE Zip
  <2>1. Pops \/ Unwinds
    BY <1>2, <1>12 DEF Zip, Calling, Return, Pops
  <2>2. phase' \in {"none", "zip"} /\ phase = "none" BY <1>12 DEF Zip, Calling, Return, Fail
  <2>3. ~Exists("gzasc")
    <3>1. Zips BY <1>12, Positions DEF Zip, Calling, Pending
    <3>. QED BY <3>1 DEF SignInv
  <2>4. \A f \in Files \ {"gz"} : target'[f] = target[f]
    BY <1>12 DEF Zip, TypeOK
  <2>5. target'["gz"].content # "cut"
    BY <1>12 DEF Zip, SignInv, TypeOK, Files, Artifact
  <2>6. /\ Exists("asc") /\ Exists("image") /\ target["asc"].content # "cut"
               => target["asc"] = target["image"]
        /\ target["image"].content # "cut"
    BY DEF SignInv, SignaturesVerify, Verified
  <2>. QED BY <2>2, <2>3, <2>4, <2>5, <2>6, WholeSign DEF Exists, Files
<1>13. CASE ZipCopy
  <2>1. ~Exists("gzasc") BY <1>13 DEF ZipCopy, Builder, SignInv
  <2>2. phase' = "none" /\ phase # "gpg" BY <1>13 DEF ZipCopy, Builder, Advance, Fail
  <2>3. \A f \in Files \ {"gz"} : target'[f] = target[f]
    BY <1>13 DEF ZipCopy, TypeOK
  <2>4. target'["gz"].content # "cut"
    BY <1>13 DEF ZipCopy, SignInv, TypeOK, Files
  <2>5. /\ Exists("asc") /\ Exists("image") /\ target["asc"].content # "cut"
               => target["asc"] = target["image"]
        /\ target["image"].content # "cut"
    BY DEF SignInv, SignaturesVerify, Verified
  <2>. QED BY <2>1, <2>2, <2>3, <2>4, <2>5, WholeSign DEF Exists, Files
<1>14. CASE Kill
  <2>1. \A f \in Files : target'[f] \in {target[f], Absent}
    BY <1>14 DEF Kill, Leave
  <2>2. phase' = "none" /\ ~Zips' /\ GpgInterrupted BY <1>14 DEF Kill, Pending, GpgInterrupted
  <2>. QED BY <2>1, <2>2, LeaveSign
<1>. QED BY <1>3, <1>4, <1>5, <1>6, <1>7, <1>8, <1>9, <1>10, <1>11, <1>12, <1>13, <1>14, <1>16
     DEF Next, Step

\* There is nothing to sign before the first command.
LEMMA InitSign == Init => SignInv
  BY DEF Init, SignInv, SignaturesVerify, Verified, CutBy, Exists, Pending, Files, Absent

\* As long as os.RemoveAll does not fail halfway, image.gz.aci is never written
\* while it has a signature, nor image.aci.
THEOREM SignInvCorrect ==
  ASSUME "rm" \notin Faults
  PROVE  Spec => []SignInv
<1>1. TypeOK /\ BuildInv /\ StackInv /\ SignInv /\ [Next]_vars => SignInv' BY StepSign
<1>. QED BY <1>1, InitSign, TypeCorrect, BuildInvCorrect, StackInvCorrect, PTL DEF Spec

\* As long as os.RemoveAll does not fail halfway, a signature that gpg completed
\* is one of the very content of the file beside it, and it completed every one
\* unless it was interrupted (SignaturesVerify): whichever commands ran or
\* failed, although the Ensure methods look at no content.
THEOREM SignaturesCorrect ==
  ASSUME "rm" \notin Faults
  PROVE  Spec => []SignaturesVerify
<1>1. SignInv => SignaturesVerify BY DEF SignInv
<1>. QED BY <1>1, SignInvCorrect, PTL

\* As long as os.RemoveAll does not fail halfway, the name, the payload and the
\* signature of each upload belong together, but for a signature that gpg was
\* stopped in (RemoteConsistent).
THEOREM RemoteCorrect ==
  ASSUME "rm" \notin Faults
  PROVE  Spec => []RemoteConsistent
<1>1. Init => RemoteConsistent
  BY DEF Init, RemoteConsistent
<1>2. ASSUME TypeOK, BuildInv, SignInv, RemoteConsistent, [Next]_vars
      PROVE  RemoteConsistent'
  <2>. USE DEF disk, store, session, tests
  <2>1. CASE UploadAci
    <3>1. CASE remote' = remote BY <1>2, <3>1 DEF RemoteConsistent, GpgInterrupted
    <3>2. CASE /\ Exists("image") /\ Exists("gz")
               /\ remote' = remote \cup {[name |-> target["image"].id,
                                         payload |-> target["gz"], sig |-> target["gzasc"]]}
      <4>. DEFINE new == [name |-> target["image"].id, payload |-> target["gz"],
                          sig |-> target["gzasc"]]
      <4>1. new.name = new.payload.id
        BY <1>2, <3>2 DEF BuildInv, SameBuild, Files
      <4>2. new.sig \in {Absent, new.payload} \/ (GpgInterrupted /\ new.sig.content = "cut")
        <5>1. phase # "gpg" BY <2>1 DEF UploadAci, Calling
        <5>. QED BY <1>2, <3>2, <5>1 DEF SignInv, SignaturesVerify, Verified, Exists
      <4>3. remote' = remote \cup {new} BY <3>2
      <4>. HIDE DEF new
      <4>. QED BY <1>2, <4>1, <4>2, <4>3 DEF RemoteConsistent, GpgInterrupted
    <3>. QED BY <2>1, <3>1, <3>2 DEF UploadAci
  <2>2. CASE ~UploadAci
    <3>1. remote' = remote
      BY <1>2, <2>2 DEF Next, Step, Start, Kill, vars, Finish, Sign, Install, Push, Test,
         EnsureBuilt, EnsureSign, EnsureZip, EnsureZipSign, Expand, TestFirst, Clean,
         CleanAndRun, BuildTest, PrepareStage1, PrepareBuilder, RunBuilder, RunLevels,
         TarAci, ExtractManifest, CleanupRun, SignImage, SignZip, SignFile, Gpg, GpgFile, Zip, ZipCopy,
         Fetch, FetchTest, RunTest, RunTestFile, EndTests, StopTests, CleanupTest,
         CheckResult
    <3>. QED BY <1>2, <3>1 DEF RemoteConsistent, GpgInterrupted
  <2>. QED BY <2>1, <2>2
<1>. QED BY <1>1, <1>2, SignInvCorrect, BuildInvCorrect, TypeCorrect, PTL DEF Spec

----------------------------------------------------------------------------
(* The gate of the tests *)

\* Which calls test, and which see to the tests, as sets.
LEMMA TestOps ==
  /\ testFlag =>
       /\ TestPending <=> Pending({"Test", "RunTest", "TestFirst", "Install", "Push"})
       /\ GatePending <=> Pending({"Test", "CheckResult", "TestFirst", "Install", "Push"})
  /\ ~testFlag => /\ TestPending <=> Pending({"Test", "RunTest"})
                  /\ GatePending <=> Pending({"Test", "CheckResult"})
  BY DEF TestPending, GatePending, MayTest, Gate, Pending

\* The same after a step.
LEMMA TestOpsNext ==
  /\ testFlag' =>
       /\ TestPending' <=> Pending({"Test", "RunTest", "TestFirst", "Install", "Push"})'
       /\ GatePending' <=> Pending({"Test", "CheckResult", "TestFirst", "Install", "Push"})'
  /\ ~testFlag' => /\ TestPending' <=> Pending({"Test", "RunTest"})'
                   /\ GatePending' <=> Pending({"Test", "CheckResult"})'
  BY DEF TestPending, GatePending, MayTest, Gate, Pending

\* What the bodies say of tests: only a call that tests makes one that does,
\* and no body begins with the check of a result.
LEMMA BodyCalls ==
  ASSUME NEW op, NEW body, ExpandsTo(op, body)
  PROVE  /\ \A i \in 1..Len(body) :
              /\ body[i] \in {"Test", "RunTest"} => op \in {"Test", "RunTest"}
              /\ body[i] \in {"Test", "RunTest", "TestFirst", "Install", "Push"} =>
                   op \in {"Test", "RunTest", "TestFirst", "Install", "Push"}
         /\ Len(body) > 0 /\ body[1] # "CheckResult"
<1>1. CASE op = "Sign" /\ body = SignCalls BY <1>1 DEF SignCalls
<1>2. CASE op = "Install" /\ body = InstallCalls BY <1>2 DEF InstallCalls
<1>3. CASE op = "Push" /\ body = PushCalls BY <1>3 DEF PushCalls
<1>4. CASE op = "Test" /\ body = TestCalls BY <1>4 DEF TestCalls
<1>5. CASE op = "EnsureBuilt" /\ body = <<"CleanAndRun">> BY <1>5
<1>6. CASE op = "EnsureSign" /\ body = <<"Sign">> BY <1>6
<1>7. CASE op = "EnsureZip" /\ body = <<"EnsureBuilt", "Zip">> BY <1>7
<1>8. CASE op = "EnsureZipSign" /\ body = <<"EnsureZip", "SignZip">> BY <1>8
<1>. QED BY <1>1, <1>2, <1>3, <1>4, <1>5, <1>6, <1>7, <1>8 DEF ExpandsTo

\* No step of a running command makes it test if it would not have tested.
LEMMA TestPendingStep ==
  ASSUME TypeOK, Stays \/ Pops \/ Expands \/ Tests1st \/ Unwinds, TestPending'
  PROVE  TestPending
<1>. DEFINE long  == {"Test", "RunTest", "TestFirst", "Install", "Push"}
            short == {"Test", "RunTest"}
<1>1. CASE Stays \/ Pops \/ Unwinds
  <2>1. testFlag' = testFlag BY <1>1 DEF Stays, Pops, Unwinds
  <2>2. /\ Pending(long)' => Pending(long)
        /\ Pending(short)' => Pending(short)
    BY <1>1, PendingStep
  <2>. QED BY <2>1, <2>2, TestOps, TestOpsNext
<1>2. CASE Expands
  <2>1. PICK body \in Seq(Calls) : /\ ExpandsTo(Head(calls), body)
                                   /\ calls' = body \o Tail(calls)
    BY <1>2 DEF Expands
  <2>2. calls # <<>> /\ testFlag' = testFlag /\ calls[1] = Head(calls) /\ 1 \in DOMAIN calls
    BY <1>2, Positions DEF Expands
  <2>3. /\ (\E i \in 1..Len(body) : body[i] \in long) => Head(calls) \in long
        /\ (\E i \in 1..Len(body) : body[i] \in short) => Head(calls) \in short
    BY <2>1, BodyCalls
  <2>4. /\ Head(calls) \in long => Pending(long)
        /\ Head(calls) \in short => Pending(short)
    BY <2>2 DEF Pending
  <2>5. /\ Pending(long)' => Pending(long)
        /\ Pending(short)' => Pending(short)
    BY <2>1, <2>2, <2>3, <2>4, PendingBody
  <2>. QED BY <2>2, <2>5, TestOps, TestOpsNext
<1>3. CASE Tests1st
  <2>1. 1 \in DOMAIN calls /\ calls[1] = "TestFirst" /\ testFlag
    BY <1>3, Positions DEF Tests1st
  <2>. QED BY <2>1 DEF TestPending, MayTest
<1>. QED BY <1>1, <1>2, <1>3

\* The call that sees to the tests hands the task on until it is done.
LEMMA GatePendingStep ==
  ASSUME TypeOK, Stays \/ (Pops /\ ~Gate(Head(calls))) \/ Expands \/ Tests1st, GatePending
  PROVE  GatePending'
<1>. DEFINE long  == {"Test", "CheckResult", "TestFirst", "Install", "Push"}
            short == {"Test", "CheckResult"}
<1>1. CASE Stays \/ (Pops /\ ~Gate(Head(calls)))
  <2>1. testFlag' = testFlag BY <1>1 DEF Stays, Pops
  <2>2. /\ testFlag /\ Pending(long) => Pending(long)'
        /\ ~testFlag /\ Pending(short) => Pending(short)'
    BY <1>1, PendingStep DEF Gate
  <2>. QED BY <2>1, <2>2, TestOps, TestOpsNext
<1>2. CASE Expands
  <2>1. PICK body \in Seq(Calls) : /\ ExpandsTo(Head(calls), body)
                                   /\ calls' = body \o Tail(calls)
    BY <1>2 DEF Expands
  <2>2. calls # <<>> /\ testFlag' = testFlag
    BY <1>2 DEF Expands
  <2>3. /\ Head(calls) \in long => \E i \in 1..Len(body) : body[i] \in long
        /\ Head(calls) \in short => \E i \in 1..Len(body) : body[i] \in short
    <3>1. CASE Head(calls) = "Install" /\ body = InstallCalls
      <4>1. 2 \in 1..Len(body) /\ body[2] = "TestFirst" BY <3>1 DEF InstallCalls
      <4>. QED BY <3>1, <4>1
    <3>2. CASE Head(calls) = "Push" /\ body = PushCalls
      <4>1. 2 \in 1..Len(body) /\ body[2] = "TestFirst" BY <3>2 DEF PushCalls
      <4>. QED BY <3>2, <4>1
    <3>3. CASE Head(calls) = "Test" /\ body = TestCalls
      <4>1. 5 \in 1..Len(body) /\ body[5] = "CheckResult" BY <3>3 DEF TestCalls
      <4>. QED BY <3>3, <4>1
    <3>. QED BY <2>1, <3>1, <3>2, <3>3 DEF ExpandsTo
  <2>4. /\ Pending(long) => Pending(long)'
        /\ Pending(short) => Pending(short)'
    BY <2>1, <2>2, <2>3, PendingBody
  <2>. QED BY <2>2, <2>4, TestOps, TestOpsNext
<1>3. CASE Tests1st
  <2>1. <<"Test">> \in Seq(Calls) /\ Len(<<"Test">>) = 1 /\ <<"Test">>[1] = "Test"
    BY DEF Calls
  <2>2. Pending(short)'
    <3>. DEFINE body == <<"Test">>
    <3>1. body \in Seq(Calls) /\ 1 \in 1..Len(body) /\ body[1] \in short BY <2>1
    <3>2. calls # <<>> /\ calls' = body \o Tail(calls) BY <1>3 DEF Tests1st
    <3>. HIDE DEF body
    <3>. QED BY <3>1, <3>2, PendingBody
  <2>. QED BY <1>3, <2>2, TestOpsNext DEF Tests1st
<1>. QED BY <1>1, <1>2, <1>3

\* A result is only judged after a test container.
LEMMA JudgeNextStep ==
  ASSUME TypeOK, StackInv, Pops \/ Expands \/ Tests1st \/ Unwinds, JudgeNext'
  PROVE  calls # <<>> /\ Head(calls) = "RunTest"
<1>1. CASE Pops
  <2>1. /\ Len(calls) \in Nat /\ DOMAIN calls = 1..Len(calls) /\ Head(calls) = calls[1]
        /\ Len(calls') = Len(calls) - 1 /\ DOMAIN calls' = 1..(Len(calls) - 1)
        /\ \A n \in DOMAIN calls' : calls'[n] = calls[n + 1]
    BY <1>1, Positions, Popped DEF Pops
  <2>2. calls' # <<>> /\ calls' \in Seq(Calls) /\ Head(calls') = "CheckResult"
    BY <1>1, TailType DEF JudgeNext, Pops, TypeOK
  <2>3. Len(calls') > 0 /\ calls'[1] = "CheckResult" BY <2>2
  <2>4. 1 \in DOMAIN calls' /\ 2 \in DOMAIN calls /\ calls[2] = "CheckResult"
    BY <2>1, <2>3
  <2>5. calls[2 - 1] = "RunTest" BY <2>4 DEF StackInv, InPlace
  <2>. QED BY <1>1, <2>1, <2>5 DEF Pops
<1>2. ASSUME calls # <<>>, NEW body \in Seq(Calls), calls' = body \o Tail(calls),
             Len(body) > 0
      PROVE  Head(calls') = body[1]
  <2>1. Tail(calls) \in Seq(Calls) BY <1>2, TailType DEF TypeOK
  <2>2. calls' \in Seq(Calls) /\ Len(calls') > 0 /\ calls'[1] = body[1]
    BY <1>2, <2>1, ConcatProperties
  <2>. QED BY <2>2
<1>3. CASE Expands
  <2>1. PICK body \in Seq(Calls) : /\ ExpandsTo(Head(calls), body)
                                   /\ calls' = body \o Tail(calls)
    BY <1>3 DEF Expands
  <2>2. Len(body) > 0 /\ body[1] # "CheckResult"
    BY <2>1, BodyCalls
  <2>. QED BY <1>2, <1>3, <2>1, <2>2 DEF JudgeNext, Expands
<1>4. CASE Tests1st
  <2>1. <<"Test">> \in Seq(Calls) /\ Len(<<"Test">>) > 0 /\ <<"Test">>[1] = "Test"
    BY DEF Calls
  <2>. QED BY <1>2, <1>4, <2>1 DEF JudgeNext, Tests1st
<1>5. CASE Unwinds BY <1>5 DEF JudgeNext, Unwinds
<1>. QED BY <1>1, <1>3, <1>4, <1>5

\* No test is under way before the first command.
LEMMA InitOnce == Init => OnceInv
  BY DEF Init, OnceInv, TestPending

\* A step that neither starts nor ends a test container.
LEMMA QuietOnce ==
  ASSUME TypeOK, OnceInv, testRun' = testRun, phase' = "testing" => phase = "testing",
         Stays \/ Pops \/ Expands \/ Tests1st \/ Unwinds,
         at' = "tests" => at = "tests" /\ Stays
  PROVE  OnceInv'
<1>1. TestPending' => TestPending BY TestPendingStep
<1>2. at' = "tests" => Pending({"RunTest"})' /\ calls' # <<>> /\ calls'[1] = "FetchTest"
  BY DEF OnceInv, Stays, Pending
<1>. QED BY <1>1, <1>2 DEF OnceInv

\* The calls of Test follow each other, so that the test container is still to
\* come while the ACI that tests is built.
LEMMA TestOrder ==
  ASSUME TypeOK, StackInv, calls # <<>>, Head(calls) = "BuildTest"
  PROVE  /\ TestPending
         /\ Pops => Pending({"RunTest"})' /\ calls' # <<>> /\ calls'[1] = "FetchTest"
<1>1. /\ Len(calls) \in Nat /\ DOMAIN calls = 1..Len(calls) /\ calls[1] = "BuildTest"
      /\ 1 \in DOMAIN calls
  BY Positions
<1>2. 1 < Len(calls) /\ calls[2] = "FetchTest"
  <2>1. InPlace(1) BY <1>1 DEF StackInv
  <2>. QED BY <1>1, <2>1 DEF InPlace, Follows
<1>3. 2 < Len(calls) /\ calls[3] = "RunTest"
  <2>1. 2 \in DOMAIN calls BY <1>1, <1>2
  <2>2. InPlace(2) BY <2>1 DEF StackInv
  <2>. QED BY <1>1, <1>2, <2>2 DEF InPlace, Follows
<1>4. TestPending
  <2>1. 3 \in DOMAIN calls /\ MayTest(calls[3]) BY <1>1, <1>3 DEF MayTest
  <2>. QED BY <2>1 DEF TestPending
<1>5. ASSUME Pops PROVE Pending({"RunTest"})' /\ calls' # <<>> /\ calls'[1] = "FetchTest"
  <2>1. /\ DOMAIN calls' = 1..(Len(calls) - 1)
        /\ \A n \in DOMAIN calls' : calls'[n] = calls[n + 1]
    BY <1>5, Popped DEF Pops
  <2>2. 1 \in DOMAIN calls' /\ 2 \in DOMAIN calls' /\ 1 + 1 = 2 /\ 2 + 1 = 3
    BY <1>1, <1>3, <2>1
  <2>3. calls'[1] = "FetchTest" /\ calls'[2] = "RunTest" BY <1>2, <1>3, <2>1, <2>2
  <2>4. calls' # <<>> BY <2>2
  <2>. QED BY <2>2, <2>3, <2>4 DEF Pending
<1>. QED BY <1>4, <1>5

\* Once the call that tests is popped, no other is left.
LEMMA TestedOnce ==
  ASSUME TypeOK, StackInv, Pops, Head(calls) = "RunTest"
  PROVE  ~TestPending'
<1>1. ASSUME NEW n \in DOMAIN calls', MayTest(calls[n])' PROVE FALSE
  <2>1. n + 1 \in DOMAIN calls /\ calls'[n] = calls[n + 1] /\ DOMAIN calls' = 1..(Len(calls) - 1)
    BY Popped DEF Pops
  <2>2. MayTest(calls[n + 1]) BY <1>1, <2>1 DEF MayTest, Pops
  <2>3. 1 \in DOMAIN calls /\ MayTest(calls[1]) BY Positions DEF MayTest, Pops
  <2>4. n + 1 = 1 BY <2>1, <2>2, <2>3 DEF StackInv
  <2>. QED BY <2>1, <2>4, Positions DEF Pops
<1>. QED BY <1>1 DEF TestPending

\* Every step keeps the one test container of a command after its build.
LEMMA StepOnce ==
  ASSUME TypeOK, StackInv, OnceInv, [Next]_vars
  PROVE  OnceInv'
<1>. USE DEF disk, store, session, tests
<1>1. CASE \E c \in Commands : Start(c)
  BY <1>1 DEF Start, OnceInv
<1>2. ASSUME calls # <<>>, Head(calls) # "FetchTest" PROVE at # "tests"
  BY <1>2, Positions DEF OnceInv
<1>3. ASSUME Fail, testFlag' = testFlag PROVE Unwinds /\ at' = "main" /\ phase' = "none"
  BY <1>3 DEF Fail, Unwind, Unwinds
<1>4. CASE \/ Sign \/ Install \/ Push \/ Test \/ EnsureBuilt \/ EnsureSign
           \/ EnsureZip \/ EnsureZipSign \/ TestFirst
  <2>1. /\ testRun' = testRun /\ at' = at /\ phase' = phase
        /\ calls # <<>> /\ Head(calls) # "FetchTest"
    BY <1>4 DEF Sign, Install, Push, Test, EnsureBuilt, EnsureSign, EnsureZip,
       EnsureZipSign, TestFirst, Expand, Calling
  <2>. QED BY <1>2, <1>4, <2>1, ExpandStep, TestFirstStep, QuietOnce
<1>5. CASE \/ Clean \/ CleanAndRun \/ SignImage \/ SignZip \/ Gpg \/ Zip \/ Fetch
           \/ CheckResult \/ UploadAci
  <2>1. /\ testRun' = testRun /\ testFlag' = testFlag
        /\ calls # <<>> /\ Head(calls) # "FetchTest"
    BY <1>5 DEF Clean, CleanAndRun, SignImage, SignZip, SignFile, Gpg, GpgFile, Zip, Fetch,
       CheckResult, UploadAci, Calling
  <2>2. \/ Fail
        \/ /\ calls' \in {calls, Tail(calls)} /\ phase' \in {"none", "stage1", "gpg", "zip"}
           /\ at' \in {at, "main"}
    BY <1>5 DEF Clean, CleanAndRun, SignImage, SignZip, SignFile, Gpg, GpgFile, Zip, Fetch,
       CheckResult, UploadAci, Calling, Return, Advance
  <2>. QED BY <1>2, <1>3, <2>1, <2>2, QuietOnce DEF Stays, Pops
<1>6. CASE BuildTest
  <2>1. /\ testRun' = testRun /\ testFlag' = testFlag
        /\ calls # <<>> /\ Head(calls) = "BuildTest"
    BY <1>6 DEF BuildTest, Calling
  <2>2. CASE Fail BY <1>3, <2>1, <2>2, QuietOnce
  <2>3. CASE calls' = Tail(calls) /\ phase' = "stage1"
    <3>1. Pops BY <2>1, <2>3 DEF Pops
    <3>2. TestPending' => TestPending BY <3>1, TestPendingStep
    <3>3. Pending({"RunTest"})' /\ calls' # <<>> /\ calls'[1] = "FetchTest" BY <2>1, <3>1, TestOrder
    <3>. QED BY <2>1, <2>3, <3>2, <3>3 DEF OnceInv
  <2>. QED BY <1>6, <2>2, <2>3 DEF BuildTest
<1>7. CASE FetchTest
  <2>1. /\ testRun' = testRun /\ testFlag' = testFlag /\ calls # <<>>
        /\ at' = "main" /\ phase' = "none" /\ (Fail \/ calls' = Tail(calls))
    BY <1>7 DEF FetchTest, Calling, Fail
  <2>. QED BY <1>3, <2>1, QuietOnce DEF Pops
<1>8. CASE RunTest
  <2>1. Pops /\ Head(calls) = "RunTest" /\ at' = at
    BY <1>8 DEF RunTest, Calling, Pops
  <2>2. ~TestPending' BY <2>1, TestedOnce
  <2>3. at' # "tests" BY <1>2, <2>1 DEF Pops
  <2>4. phase' = "testing" => testRun' # "none" BY <1>8 DEF RunTest
  <2>. QED BY <2>2, <2>3, <2>4 DEF OnceInv
<1>9. CASE \/ PrepareStage1 \/ PrepareBuilder \/ RunBuilder \/ RunLevels \/ TarAci
           \/ ExtractManifest \/ CleanupRun \/ ZipCopy \/ CleanupTest \/ Finish \/ RunTestFile
  <2>1. /\ testRun' = testRun /\ testFlag' = testFlag /\ (phase' = "testing" => phase = "testing")
    BY <1>9 DEF PrepareStage1, PrepareBuilder, RunBuilder, RunLevels, TarAci, ExtractManifest,
       CleanupRun, ZipCopy, CleanupTest, Finish, RunTestFile, Advance, Abort, Fail, machine
  <2>2. Fail \/ (calls' = calls /\ at' = at)
    BY <1>9 DEF PrepareStage1, PrepareBuilder, RunBuilder, RunLevels, TarAci, ExtractManifest,
       CleanupRun, ZipCopy, CleanupTest, Finish, RunTestFile, Advance, Abort, machine
  <2>. QED BY <1>3, <2>1, <2>2, QuietOnce DEF Stays
<1>10. CASE EndTests \/ StopTests
  <2>1. /\ phase = "testing" /\ phase' = "testcleanup" /\ calls' = calls /\ at' = at
        /\ testFlag' = testFlag
    BY <1>10 DEF EndTests, StopTests, Builder, Advance, Abort
  <2>2. Stays BY <2>1 DEF Stays
  <2>3. ~TestPending' BY <2>1, <2>2, TestPendingStep DEF OnceInv
  <2>4. at' = "tests" => Pending({"RunTest"})' /\ calls' # <<>> /\ calls'[1] = "FetchTest"
    BY <2>1 DEF OnceInv, Pending
  <2>. QED BY <2>1, <2>3, <2>4 DEF OnceInv
<1>11. CASE Kill
  <2>1. testRun' = testRun /\ Unwinds /\ phase' = "none" /\ at' = "main"
    BY <1>11 DEF Kill, Unwinds
  <2>. QED BY <2>1, QuietOnce
<1>12. CASE UNCHANGED vars
  BY <1>12, QuietOnce DEF vars, machine, Stays
<1>. QED BY <1>1, <1>4, <1>5, <1>6, <1>7, <1>8, <1>9, <1>10, <1>11, <1>12 DEF Next, Step

\* A command starts at most one test container, after it has built the ACI that
\* tests.
THEOREM OnceInvCorrect == Spec => []OnceInv
<1>1. TypeOK /\ StackInv /\ OnceInv /\ [Next]_vars => OnceInv' BY StepOnce
<1>. QED BY <1>1, InitOnce, TypeCorrect, StackInvCorrect, PTL DEF Spec

\* Nothing promised and nothing tested before the first command.
LEMMA InitGate == Init => GateInv
  BY DEF Init, GateInv, TestPending, Running

\* A command that promises tests starts with a call that sees to them.
LEMMA StartGate ==
  ASSUME GateAssumption, NEW c \in Commands, Start(c)
  PROVE  GateInv'
<1>1. /\ testFlag' = c.test /\ testRun' = "none" /\ phase' = "none" /\ command' = c
      /\ failed' = FALSE
  BY DEF Start
<1>2. c.test \in BOOLEAN /\ (c.test => c.name \in {"install", "push"})
      /\ (c.clean => c.name \in {"install", "push", "test", "build", "try", "sign"})
  BY StartCalls DEF CommandType
<1>3. Promises' <=> c.test \/ c.name = "test" BY <1>1 DEF Promises
<1>. USE DEF TestPending, GatePending, MayTest, Gate
<1>4. TestPending' => Promises'
  <2>1. CASE calls' = <<"CleanAndRun">> BY <2>1
  <2>2. CASE calls' = <<"CleanAndRun", "Clean">> BY <2>2
  <2>3. CASE calls' = <<"Clean">> BY <2>3
  <2>4. ASSUME NEW op \in {"Sign", "Install", "Push", "Test"}, Verbs(c.name, op),
               calls' = <<op>> \/ calls' = <<"Clean", op>>
        PROVE  TestPending' => Promises'
    <3>1. TestPending' => MayTest(op)'
      <4>1. CASE calls' = <<op>> BY <4>1
      <4>2. CASE calls' = <<"Clean", op>> BY <4>2
      <4>. QED BY <2>4, <4>1, <4>2
    <3>2. MayTest(op)' => Promises' BY <1>1, <1>3, <2>4 DEF Verbs
    <3>. QED BY <3>1, <3>2
  <2>. QED BY <2>1, <2>2, <2>3, <2>4, StartCalls
<1>5. ASSUME Promises' PROVE GatePending' /\ (c.clean => NextIs({"Clean"})')
  <2>1. PICK op \in {"Sign", "Install", "Push", "Test"} :
           /\ Verbs(c.name, op)
           /\ \/ c.clean /\ calls' = <<"Clean", op>>
              \/ ~c.clean /\ calls' = <<op>>
    BY <1>2, <1>3, <1>5, StartCalls
  <2>2. Gate(op)' BY <1>1, <1>2, <1>3, <1>5, <2>1 DEF Verbs
  <2>3. GatePending'
    <3>1. CASE calls' = <<op>>
      <4>1. 1 \in DOMAIN calls' /\ calls'[1] = op BY <3>1
      <4>. QED BY <2>2, <4>1
    <3>2. CASE calls' = <<"Clean", op>>
      <4>1. 2 \in DOMAIN calls' /\ calls'[2] = op BY <3>2
      <4>. QED BY <2>2, <4>1
    <3>. QED BY <2>1, <3>1, <3>2
  <2>4. c.clean => NextIs({"Clean"})' BY <1>1, <2>1 DEF NextIs
  <2>. QED BY <2>3, <2>4
<1>6. Promises' /\ "stop" \in Faults => CleanTests'
  BY <1>1, <1>3, <1>5 DEF GateAssumption, CleanTests
<1>7. ~JudgeNext'
  <2>1. Head(calls') # "CheckResult" \/ calls' = <<>>
    <3>1. ASSUME NEW op \in {"Sign", "Install", "Push", "Test"}, calls' = <<op>>
          PROVE  Head(calls') # "CheckResult"
      BY <3>1
    <3>2. ASSUME NEW op \in {"Sign", "Install", "Push", "Test"}, calls' = <<"Clean", op>>
          PROVE  Head(calls') # "CheckResult"
      BY <3>2
    <3>3. calls' = <<"CleanAndRun">> => Head(calls') # "CheckResult" OBVIOUS
    <3>4. calls' = <<"CleanAndRun", "Clean">> => Head(calls') # "CheckResult" OBVIOUS
    <3>5. calls' = <<"Clean">> => Head(calls') # "CheckResult" OBVIOUS
    <3>. QED BY <3>1, <3>2, <3>3, <3>4, <3>5, StartCalls
  <2>. QED BY <2>1 DEF JudgeNext
<1>. QED BY <1>1, <1>4, <1>5, <1>6, <1>7 DEF GateInv

\* A step that has nothing to do with the test container.
LEMMA QuietGate ==
  ASSUME TypeOK, StackInv, GateInv,
         command' = command, testRun' = testRun, Running' => Running, failed => failed' \/ ~Running',
         phase' \notin {"testing", "testcleanup"},
         \/ Stays /\ phase # "testing" /\ results' = results /\ ended' = ended
         \/ Pops /\ ~Gate(Head(calls)) /\ Head(calls) # "RunTest"
         \/ Expands \/ Tests1st
         \/ Unwinds /\ (failed' \/ ~Running'),
         "stop" \in Faults /\ Running' => ~ended' \/ (ended' = ended /\ ~NextIs({"Clean"}))
  PROVE  GateInv'
<1>1. Promises' <=> Promises BY DEF Promises
<1>2. TestPending' => TestPending BY TestPendingStep
<1>3. ~failed' /\ Running' /\ GatePending => GatePending' BY GatePendingStep
<1>4. Running' /\ ~failed' => (JudgeNext' => Judged')
  <2>. SUFFICES ASSUME Running', ~failed', JudgeNext' PROVE Judged'
    OBVIOUS
  <2>1. CASE Stays /\ phase # "testing" /\ results' = results /\ ended' = ended
    <3>1. JudgeNext BY <2>1 DEF JudgeNext, Stays
    <3>2. Judged BY <2>1, <3>1 DEF GateInv
    <3>. QED BY <2>1, <3>2 DEF Judged
  <2>2. CASE Pops /\ ~Gate(Head(calls)) /\ Head(calls) # "RunTest"
    BY <2>2, JudgeNextStep
  <2>3. CASE Expands BY <2>3, JudgeNextStep DEF Expands, ExpandsTo
  <2>4. CASE Tests1st BY <2>4, JudgeNextStep DEF Tests1st
  <2>. QED BY <2>1, <2>2, <2>3, <2>4
<1>5. Running' /\ Promises' /\ "stop" \in Faults => CleanTests'
  BY <1>1 DEF GateInv, CleanTests
<1>. QED BY <1>1, <1>2, <1>3, <1>4, <1>5 DEF GateInv

\* The steps of the test container keep the gate.
LEMMA TestGate ==
  ASSUME TypeOK, StackInv, FailInv, OnceInv, GateInv, GateAssumption,
         RunTest \/ RunTestFile \/ EndTests \/ StopTests \/ CheckResult
  PROVE  GateInv'
<1>. USE DEF disk, store, session, tests
<1>1. command' = command /\ testFlag' = testFlag /\ outcome' = outcome
  BY DEF RunTest, RunTestFile, EndTests, StopTests, CheckResult
<1>2. (Promises' <=> Promises) /\ (Running' <=> Running) BY <1>1 DEF Promises, Running
<1>3. CASE RunTest
  <2>1. /\ calls # <<>> /\ Head(calls) = "RunTest" /\ calls[1] = "RunTest"
        /\ calls' = Tail(calls) /\ phase = "none" /\ Pops
    BY <1>1, <1>3, Positions DEF RunTest, Calling, Pops
  <2>2. TestPending /\ testRun = "none" /\ Promises
    <3>1. 1 \in DOMAIN calls /\ MayTest(calls[1]) BY <2>1, Positions DEF MayTest
    <3>. QED BY <3>1 DEF TestPending, OnceInv, GateInv
  <2>3. ~TestPending' BY <2>1, TestedOnce
  <2>4. GatePending => GatePending'
    <3>1. ~Gate(Head(calls)) BY <2>1 DEF Gate
    <3>. QED BY <2>1, <3>1, GatePendingStep
  <2>5. ended' = ended BY <1>3 DEF RunTest
  <2>6. ASSUME Running', Promises', "stop" \in Faults PROVE CleanTests'
    <3>1. ~ended /\ command.clean
      BY <1>2, <2>1, <2>2, <2>6 DEF GateInv, CleanTests, NextIs
    <3>. QED BY <1>1, <2>5, <3>1 DEF CleanTests
  <2>7. CASE phase' = "testing" /\ testRun' = "running" /\ failed' = failed
    BY <1>2, <2>2, <2>3, <2>4, <2>6, <2>7 DEF GateInv
  <2>8. CASE phase' = "testcleanup" /\ failed' = TRUE /\ testRun' = testRun
    BY <1>2, <2>2, <2>3, <2>6, <2>8 DEF GateInv
  <2>. QED BY <1>3, <2>7, <2>8 DEF RunTest
<1>4. CASE RunTestFile \/ EndTests \/ StopTests
  <2>1. calls' = calls /\ phase = "testing" /\ Running
    BY <1>4 DEF RunTestFile, EndTests, StopTests, Builder, Advance, Abort, machine
  <2>2. testRun = "running" /\ Promises /\ ~TestPending /\ failed = FALSE
    BY <2>1 DEF OnceInv, GateInv, FailInv, TypeOK
  <2>3. ~TestPending' /\ (GatePending => GatePending')
    <3>1. Stays BY <1>1, <2>1 DEF Stays
    <3>. QED BY <2>2, <3>1, TestPendingStep, GatePendingStep
  <2>4. GatePending BY <2>1, <2>2 DEF GateInv
  <2>5. "stop" \in Faults => command.clean /\ ~ended
    BY <2>1, <2>2 DEF GateInv, CleanTests, NextIs
  <2>6. CASE RunTestFile
    <3>1. phase' = "testing" /\ testRun' = testRun /\ ended' = ended
      BY <2>1, <2>6 DEF RunTestFile, machine
    <3>. QED BY <1>1, <1>2, <2>2, <2>3, <2>4, <2>5, <3>1 DEF GateInv, CleanTests
  <2>7. CASE EndTests
    <3>1. /\ phase' = "testcleanup" /\ results' = results
          /\ testRun' = IF \E t \in Tests : results[t] = "fail" THEN "failed" ELSE "passed"
      BY <2>7 DEF EndTests, Advance
    <3>2. Judged' BY <3>1 DEF Judged
    <3>. QED BY <1>1, <1>2, <2>2, <2>3, <2>4, <2>5, <3>1, <3>2 DEF GateInv, CleanTests
  <2>8. CASE StopTests
    <3>1. /\ phase' = "testcleanup" /\ ended' = ended /\ testRun' = "stopped"
          /\ failed' \/ "stop" \in Faults
      BY <2>8 DEF StopTests, Advance, Abort
    <3>2. failed' \/ Judged' BY <2>5, <3>1 DEF Judged
    <3>. QED BY <1>1, <1>2, <2>2, <2>3, <2>4, <2>5, <3>1, <3>2 DEF GateInv, CleanTests
  <2>. QED BY <1>4, <2>6, <2>7, <2>8
<1>5. CASE CheckResult
  <2>1. /\ calls # <<>> /\ Head(calls) = "CheckResult" /\ phase = "none" /\ Running
        /\ ended' = ended /\ results' = results /\ testRun' = testRun /\ phase' = "none"
    BY <1>5 DEF CheckResult, Calling, Return, Fail
  <2>2. failed = FALSE
    BY <2>1, Positions DEF FailInv, TypeOK
  <2>3. Judged BY <2>1, <2>2 DEF GateInv, JudgeNext
  <2>4. ~NextIs({"Clean"}) BY <2>1 DEF NextIs
  <2>5. "stop" \in Faults /\ Promises => CleanTests'
    BY <1>1, <2>1, <2>4 DEF GateInv, CleanTests
  <2>6. CASE ResultAccepted /\ Return
    <3>1. testRun = "passed" BY <2>3, <2>6 DEF Judged, ResultAccepted
    <3>2. Pops BY <1>1, <2>1, <2>6 DEF Pops, Return
    <3>3. ~JudgeNext' BY <2>1, <3>2, JudgeNextStep
    <3>4. ~TestPending' BY <3>1, <3>2, TestPendingStep DEF OnceInv
    <3>. QED BY <1>2, <2>1, <2>5, <3>1, <3>3, <3>4 DEF GateInv
  <2>7. CASE Fail
    <3>1. Unwinds /\ failed' BY <1>1, <2>7 DEF Fail, Unwind, Unwinds
    <3>2. TestPending' => TestPending BY <3>1, TestPendingStep
    <3>. QED BY <1>2, <2>1, <2>5, <3>1, <3>2 DEF GateInv
  <2>. QED BY <1>5, <2>6, <2>7 DEF CheckResult
<1>. QED BY <1>3, <1>4, <1>5

\* Every step keeps the gate.
LEMMA StepGate ==
  ASSUME TypeOK, StackInv, FailInv, OnceInv, GateInv, GateAssumption, [Next]_vars
  PROVE  GateInv'
<1>. USE DEF disk, store, session, tests
<1>1. ASSUME Fail, testFlag' = testFlag PROVE Unwinds /\ failed' /\ phase' = "none"
  BY <1>1 DEF Fail, Unwind, Unwinds
<1>2. CASE \/ Sign \/ Install \/ Push \/ Test \/ EnsureBuilt \/ EnsureSign
           \/ EnsureZip \/ EnsureZipSign \/ TestFirst
  <2>1. /\ command' = command /\ testRun' = testRun /\ Running' = Running /\ failed' = failed
        /\ phase' = "none" /\ ended' = ended /\ calls # <<>> /\ Head(calls) # "Clean"
    BY <1>2 DEF Sign, Install, Push, Test, EnsureBuilt, EnsureSign, EnsureZip,
       EnsureZipSign, TestFirst, Expand, Calling, Running
  <2>2. CASE Expands \/ Tests1st BY <2>1, <2>2, QuietGate DEF NextIs
  <2>3. CASE Pops /\ Head(calls) \in Ensures
    BY <2>1, <2>3, QuietGate DEF NextIs, Gate, Ensures
  <2>4. CASE Pops /\ Head(calls) = "TestFirst" /\ testFlag = FALSE
    BY <2>1, <2>4, QuietGate DEF NextIs, Gate
  <2>. QED BY <1>2, <2>2, <2>3, <2>4, ExpandStep, TestFirstStep
<1>3. CASE Clean \/ CleanAndRun
  <2>1. /\ command' = command /\ testRun' = testRun /\ Running' = Running /\ failed' = failed
        /\ phase' \in {"none", "stage1"} /\ Pops /\ Head(calls) \in {"Clean", "CleanAndRun"}
    BY <1>3 DEF Clean, CleanAndRun, Calling, Return, Running, Pops
  <2>2. "stop" \in Faults => ~ended'
    BY <1>3 DEF Clean, CleanAndRun, RemoveTarget, Leave, GateAssumption
  <2>. QED BY <2>1, <2>2, QuietGate DEF Gate
<1>4. CASE \/ BuildTest \/ SignImage \/ SignZip \/ Gpg \/ Zip \/ Fetch \/ FetchTest \/ UploadAci
  <2>1. /\ command' = command /\ testRun' = testRun /\ Running' = Running /\ results' = results
        /\ ended' = ended /\ calls # <<>> /\ testFlag' = testFlag /\ phase \in {"none", "gpg"}
        /\ Head(calls) \in {"BuildTest", "SignImage", "SignZip", "Zip", "Fetch", "FetchTest", "Upload"}
    BY <1>4 DEF BuildTest, SignImage, SignZip, SignFile, Gpg, GpgFile, Zip, Fetch, FetchTest,
       UploadAci, Calling, Builder, Running
  <2>2. \/ /\ calls' \in {calls, Tail(calls)} /\ failed' = failed
           /\ phase' \in {"none", "stage1", "zip", "gpg"}
        \/ Fail
    BY <1>4 DEF BuildTest, SignImage, SignZip, SignFile, Gpg, GpgFile, Zip, Fetch, FetchTest,
       UploadAci, Calling, Return, Advance
  <2>3. ~NextIs({"Clean"}) /\ ~Gate(Head(calls)) BY <2>1 DEF NextIs, Gate
  <2>. QED BY <1>1, <2>1, <2>2, <2>3, QuietGate DEF Pops, Stays
<1>5. CASE \/ PrepareStage1 \/ PrepareBuilder \/ RunBuilder \/ RunLevels \/ TarAci
           \/ ExtractManifest \/ CleanupRun \/ ZipCopy \/ CleanupTest \/ Finish
  <2>1. /\ command' = command /\ testRun' = testRun /\ (Running' => Running) /\ ended' = ended
        /\ results' = results /\ phase # "testing" /\ testFlag' = testFlag
    BY <1>5 DEF PrepareStage1, PrepareBuilder, RunBuilder, RunLevels, TarAci,
       ExtractManifest, CleanupRun, ZipCopy, CleanupTest, Finish, Running, Builder
  <2>2. Running' => ~NextIs({"Clean"})
    BY <1>5 DEF PrepareStage1, PrepareBuilder, RunBuilder, RunLevels, TarAci,
       ExtractManifest, CleanupRun, ZipCopy, CleanupTest, Finish, NextIs, Running, Builder
  <2>3. \/ Fail
        \/ /\ calls' = calls /\ (failed => failed')
           /\ phase' \in {"none", "builder", "prepared", "container", "tar", "extract", "cleanup"}
    BY <1>5 DEF PrepareStage1, PrepareBuilder, RunBuilder, RunLevels, TarAci,
       ExtractManifest, CleanupRun, ZipCopy, CleanupTest, Finish, Advance, Abort, machine
  <2>. QED BY <1>1, <2>1, <2>2, <2>3, QuietGate DEF Stays
<1>6. CASE Kill
  <2>1. /\ command' = command /\ testRun' = testRun /\ ~Running' /\ Running
        /\ phase' = "none" /\ Unwinds
    BY <1>6 DEF Kill, Running, Unwinds
  <2>. QED BY <2>1, QuietGate
<1>7. CASE UNCHANGED vars
  <2>1. Stays /\ UNCHANGED vars BY <1>7 DEF vars, machine, Stays
  <2>2. (TestPending' <=> TestPending) /\ (GatePending' <=> GatePending)
    BY <2>1, TestOps, TestOpsNext, PendingStep DEF Stays
  <2>. QED BY <1>7, <2>2 DEF vars, machine, GateInv, Promises, Running, JudgeNext, Judged,
          CleanTests, NextIs
<1>. QED BY <1>2, <1>3, <1>4, <1>5, <1>6, <1>7, StartGate, TestGate DEF Next, Step

\* Unless a test container that ended early can meet an old end-of-tests
\* (GateAssumption), a command that promises tests has passed them or has a
\* call pending that sees to them.
THEOREM GateInvCorrect ==
  ASSUME GateAssumption
  PROVE  Spec => []GateInv
<1>1. TypeOK /\ StackInv /\ FailInv /\ OnceInv /\ GateInv /\ [Next]_vars => GateInv'
  BY StepGate
<1>. QED BY <1>1, InitGate, TypeCorrect, StackInvCorrect, FailInvCorrect, OnceInvCorrect, PTL
     DEF Spec

\* Under --test, and for "dgr test", nothing is pushed and no success is
\* reported before a test container of this command ran all the tests and none
\* failed (GatedByTests): always without early ends of the container that rkt
\* reports as success, and with them where the commands clean first.
THEOREM GateCorrect ==
  ASSUME GateAssumption
  PROVE  Spec => GatedByTests
<1>. USE DEF disk, store, session, tests
<1>1. ASSUME TypeOK, StackInv, FailInv, GateInv, [Next]_vars, remote' # remote, command.test
      PROVE  testRun = "passed"
  <2>1. UploadAci
    BY <1>1 DEF Next, Step, Start, Kill, vars, Finish, Sign, Install, Push, Test,
       EnsureBuilt, EnsureSign, EnsureZip, EnsureZipSign, Expand, TestFirst, Clean,
       CleanAndRun, BuildTest, PrepareStage1, PrepareBuilder, RunBuilder, RunLevels,
       TarAci, ExtractManifest, CleanupRun, SignImage, SignZip, SignFile, Gpg, GpgFile,
       Zip, ZipCopy,
       Fetch, FetchTest, RunTest, RunTestFile, EndTests, StopTests, CleanupTest,
       CheckResult
  <2>2. Running /\ phase = "none" /\ calls # <<>> /\ Head(calls) = "Upload"
    BY <2>1 DEF UploadAci, Calling
  <2>3. /\ 1 \in DOMAIN calls /\ calls[1] = "Upload"
        /\ DOMAIN calls = 1..Len(calls) /\ Len(calls) \in Nat
    BY <1>1, <2>2, Positions
  <2>4. ~failed BY <1>1, <2>2, <2>3 DEF FailInv
  <2>5. Len(calls) = 1 BY <1>1, <2>3 DEF StackInv, InPlace
  <2>6. ~GatePending BY <2>3, <2>5 DEF GatePending, Gate
  <2>. QED BY <1>1, <2>2, <2>4, <2>6 DEF GateInv, Promises
<1>2. ASSUME TypeOK, GateInv, [Next]_vars, Running, outcome' = "ok",
             command.test \/ command.name = "test"
      PROVE  testRun = "passed"
  <2>1. Finish
    BY <1>2 DEF Next, Step, Start, Kill, vars, Sign, Install, Push, Test,
       EnsureBuilt, EnsureSign, EnsureZip, EnsureZipSign, Expand, TestFirst, Clean,
       CleanAndRun, BuildTest, PrepareStage1, PrepareBuilder, RunBuilder, RunLevels,
       TarAci, ExtractManifest, CleanupRun, SignImage, SignZip, SignFile, Gpg, GpgFile,
       Zip, ZipCopy,
       Fetch, FetchTest, RunTest, RunTestFile, EndTests, StopTests, CleanupTest,
       CheckResult, UploadAci, Running
  <2>2. calls = <<>> /\ ~failed BY <1>2, <2>1 DEF Finish
  <2>3. ~GatePending BY <2>2 DEF GatePending
  <2>. QED BY <1>2, <2>2, <2>3 DEF GateInv, Promises
<1>. DEFINE Gated == /\ remote' # remote /\ command.test => testRun = "passed"
                     /\ Running /\ outcome' = "ok" /\ (command.test \/ command.name = "test")
                          => testRun = "passed"
<1>3. TypeOK /\ StackInv /\ FailInv /\ GateInv /\ [Next]_vars => [Gated]_vars
  BY <1>1, <1>2
<1>. QED
  BY <1>3, TypeCorrect, StackInvCorrect, FailInvCorrect, GateInvCorrect, PTL
     DEF Spec, GatedByTests

----------------------------------------------------------------------------
(* What stays in rkt *)

\* Nothing is in rkt before the first command.
LEMMA InitTemps == Init => TempsInv
  BY DEF Init, TempsInv, CleanedUp, Running

\* Every step leaves in rkt what is still used, and what the user wants to keep.
LEMMA StepTemps ==
  ASSUME TypeOK, StackInv, FailInv, OnceInv, TempsInv, "imageRm" \notin Faults, [Next]_vars
  PROVE  TempsInv'
<1>. USE DEF disk, store, session, tests
<1>1. CASE \E c \in Commands : Start(c)
  BY <1>1 DEF Start, TempsInv, CleanedUp
<1>2. CASE Finish
  <2>1. /\ temps' = temps /\ command' = command /\ ~Running'
        /\ outcome' = IF failed THEN "error" ELSE "ok"
    BY <1>2 DEF Finish, Running
  <2>2. \A k \in temps : k \in Kept \/ (k \in Leaked /\ failed)
    BY <1>2 DEF Finish, TempsInv, Used, NextIs, OnceInv, Leaked
  <2>3. testRun' = testRun BY <1>2 DEF Finish
  <2>. QED BY <2>1, <2>2, <2>3 DEF TempsInv, CleanedUp, Kept, Leaked
<1>3. ASSUME Running, phase = "none", calls # <<>>, Head(calls) \notin {"FetchTest", "RunTest"}
      PROVE  \A k \in temps : k \in Kept \/ (k \in Leaked /\ failed)
  <2>1. at # "tests" BY <1>3, Positions DEF OnceInv
  <2>. QED BY <1>3, <2>1 DEF TempsInv, Used, NextIs, Leaked
<1>4. ASSUME Running, phase = "none", calls # <<>>, Head(calls) # "Clean" PROVE failed = FALSE
  BY <1>4, Positions DEF FailInv, TypeOK
<1>15. ASSUME at = "tests" PROVE testRun = "none"
  <2>1. TestPending BY <1>15 DEF OnceInv, TestPending, MayTest, Pending
  <2>. QED BY <2>1 DEF OnceInv
<1>5. CASE \/ Sign \/ Install \/ Push \/ Test \/ EnsureBuilt \/ EnsureSign
           \/ EnsureZip \/ EnsureZipSign \/ TestFirst
           \/ CleanAndRun \/ SignImage \/ SignZip \/ Zip
           \/ Fetch \/ CheckResult \/ UploadAci
  <2>1. /\ temps' = temps /\ command' = command /\ outcome' = outcome
    BY <1>5 DEF Sign, Install, Push, Test, EnsureBuilt, EnsureSign, EnsureZip,
       EnsureZipSign, Expand, TestFirst, CleanAndRun, SignImage, SignZip, SignFile,
       Zip, Fetch, CheckResult, UploadAci
  <2>2. /\ Running /\ phase = "none" /\ calls # <<>>
        /\ Head(calls) \notin {"Clean", "FetchTest", "RunTest"}
    BY <1>5 DEF Sign, Install, Push, Test, EnsureBuilt, EnsureSign, EnsureZip,
       EnsureZipSign, Expand, TestFirst, CleanAndRun, SignImage, SignZip, SignFile,
       Zip, Fetch, CheckResult, UploadAci, Calling
  <2>3. \A k \in temps : k \in Kept BY <1>3, <1>4, <2>2
  <2>. QED BY <2>1, <2>2, <2>3 DEF TempsInv, CleanedUp, Running, Kept
<1>6. CASE Clean
  <2>1. /\ temps' = temps /\ command' = command /\ outcome' = outcome /\ failed' = failed
        /\ phase' = "none" /\ Running /\ phase = "none" /\ calls # <<>>
        /\ Head(calls) \notin {"FetchTest", "RunTest"} /\ testRun' = testRun
    BY <1>6 DEF Clean, Calling, Return
  <2>. QED BY <1>3, <2>1 DEF TempsInv, CleanedUp, Running, Kept, Used, Leaked
<1>16. CASE BuildTest
  <2>1. /\ Running /\ phase = "none" /\ calls # <<>> /\ Head(calls) = "BuildTest"
        /\ command' = command /\ outcome' = outcome /\ testRun' = testRun
        /\ temps' = temps \cup {"tested"} /\ testFlag' = testFlag
    BY <1>16 DEF BuildTest, Calling
  <2>2. \A k \in temps : k \in Kept BY <1>3, <1>4, <2>1
  <2>3. testRun = "none"
    <3>1. TestPending BY <2>1, TestOrder
    <3>. QED BY <3>1 DEF OnceInv
  <2>4. at' = "tests" \/ (phase' = "none" /\ failed')
    BY <1>16 DEF BuildTest, TestTarget, Fail
  <2>. QED BY <2>1, <2>2, <2>3, <2>4 DEF TempsInv, CleanedUp, Running, Kept, Used
<1>17. CASE Gpg
  <2>1. /\ Running /\ phase = "gpg" /\ command' = command /\ outcome' = outcome
        /\ temps' = temps /\ testRun' = testRun /\ phase' = "none"
        /\ at' = at \/ failed'
    BY <1>17 DEF Gpg, GpgFile, Builder, Fail
  <2>2. \A k \in temps : k \in Kept \/ (k = "tested" /\ at = "tests")
    BY <2>1 DEF TempsInv, Used, NextIs
  <2>. QED BY <1>15, <2>1, <2>2 DEF TempsInv, CleanedUp, Running, Kept, Used
<1>7. CASE FetchTest
  <2>1. /\ Running /\ phase = "none" /\ calls # <<>> /\ Head(calls) = "FetchTest"
        /\ command' = command /\ outcome' = outcome /\ testRun' = testRun
    BY <1>7 DEF FetchTest, Calling
  <2>5. failed = FALSE BY <1>4, <2>1
  <2>2. \A k \in temps : k \in Kept \/ (k = "tested" /\ at = "tests")
    BY <2>1, <2>5 DEF TempsInv, Used, NextIs
  <2>3. CASE /\ temps' = temps \cup {"tester"} /\ calls' = Tail(calls) /\ phase' = "none"
    <3>1. InPlace(1) /\ calls[1] = "FetchTest" BY <2>1, Positions DEF StackInv
    <3>2. 1 < Len(calls) /\ calls[2] = "RunTest" BY <3>1 DEF InPlace, Follows
    <3>3. calls' \in Seq(Calls) /\ Len(calls') > 0 /\ calls'[1] = "RunTest"
      <4>1. Len(calls') = Len(calls) - 1 /\ Len(calls) \in Nat /\ DOMAIN calls' = 1..(Len(calls) - 1)
            /\ \A n \in DOMAIN calls' : calls'[n] = calls[n + 1]
        BY <2>1, <2>3, Popped, Positions
      <4>2. 1 \in DOMAIN calls' /\ 1 + 1 = 2 BY <3>2, <4>1
      <4>3. calls' \in Seq(Calls) BY <2>1, <2>3, TailType DEF TypeOK
      <4>. QED BY <3>2, <4>1, <4>2, <4>3
    <3>4. NextIs({"RunTest"})'
      <4>1. calls' # <<>> BY <3>3
      <4>2. Head(calls') = calls'[1] BY <3>3, <4>1, HeadTailProperties
      <4>. QED BY <2>3, <3>3, <4>1, <4>2 DEF NextIs
    <3>. QED BY <2>1, <2>2, <2>3, <3>4 DEF TempsInv, CleanedUp, Running, Kept, Used
  <2>4. CASE temps' = temps /\ Fail
    BY <1>15, <2>1, <2>2, <2>4 DEF TempsInv, CleanedUp, Running, Kept, Used, Fail
  <2>. QED BY <1>7, <2>1, <2>3, <2>4 DEF FetchTest
<1>8. CASE RunTest
  <2>1. /\ Running /\ phase = "none" /\ calls # <<>> /\ Head(calls) = "RunTest"
        /\ command' = command /\ outcome' = outcome
        /\ temps' \subseteq temps \cup {"testpod"} /\ phase' \in {"testing", "testcleanup"}
    BY <1>8 DEF RunTest, Calling
  <2>2. failed = FALSE BY <2>1, Positions DEF FailInv, TypeOK
  <2>3. \A k \in temps : k \in Kept \/ k \in {"tested", "tester"}
    BY <2>1, <2>2 DEF TempsInv, Used
  <2>. QED BY <2>1, <2>3 DEF TempsInv, CleanedUp, Running, Kept, Used
<1>9. CASE PrepareStage1 \/ PrepareBuilder \/ RunBuilder
  <2>1. /\ Running /\ command' = command /\ outcome' = outcome /\ testRun' = testRun
        /\ at' = at \/ (phase' = "none" /\ failed')
        /\ \/ phase = "stage1" /\ temps' \subseteq temps \cup {"stage1"} /\ phase' = "builder"
           \/ phase = "builder" /\ temps' = temps \cup {"builder"} /\ phase' = "prepared"
           \/ phase = "prepared" /\ temps' = temps \cup {"buildpod"} /\ phase' = "container"
           \/ phase \in {"stage1", "builder"} /\ temps' = temps /\ phase' = "none" /\ failed'
           \/ phase = "prepared" /\ temps' = temps /\ phase' = "cleanup"
    BY <1>9 DEF PrepareStage1, PrepareBuilder, RunBuilder, Builder, Advance, Abort, Fail
  <2>. QED BY <1>15, <2>1 DEF TempsInv, CleanedUp, Running, Kept, Used, NextIs
<1>10. CASE \/ RunLevels \/ TarAci \/ ExtractManifest \/ RunTestFile \/ EndTests \/ StopTests
            \/ ZipCopy
  <2>1. /\ Running /\ command' = command /\ outcome' = outcome /\ temps' = temps
        /\ at' = at \/ (phase' = "none" /\ failed' /\ testRun' = testRun)
        /\ \/ /\ phase \in {"container", "tar", "extract"}
              /\ phase' \in {"tar", "extract", "cleanup"}
           \/ phase = "testing" /\ phase' \in {"testing", "testcleanup"}
           \/ phase = "zip"
    BY <1>10 DEF RunLevels, TarAci, ExtractManifest, RunTestFile, EndTests, StopTests, ZipCopy,
       Builder, Advance, Abort, Fail, machine
  <2>. QED BY <1>15, <2>1 DEF TempsInv, CleanedUp, Running, Kept, Used, NextIs
<1>11. CASE CleanupRun
  <2>1. /\ Running /\ phase = "cleanup" /\ command' = command /\ outcome' = outcome
        /\ temps' = temps \ (BuilderImages \cup (IF command.keep THEN {} ELSE {"buildpod"}))
        /\ testRun' = testRun /\ phase' = "none" /\ (at' = at \/ failed')
    BY <1>11 DEF CleanupRun, RemoveTemps, Builder, Advance, Fail
  <2>2. \A k \in temps : \/ k \in Kept \cup {"stage1", "builder", "buildpod"}
                         \/ k = "tested" /\ at = "tests"
    BY <2>1 DEF TempsInv, Used, NextIs
  <2>3. \A k \in temps' : k \in Kept \/ (k = "tested" /\ at = "tests")
    BY <2>1, <2>2 DEF BuilderImages, Kept
  <2>. QED BY <1>15, <2>1, <2>3 DEF TempsInv, CleanedUp, Running, Kept, Used
<1>12. CASE CleanupTest
  <2>1. /\ Running /\ phase = "testcleanup" /\ command' = command /\ outcome' = outcome
        /\ temps' = temps \ ({"tested", "tester"} \cup (IF command.keep THEN {} ELSE {"testpod"}))
    BY <1>12 DEF CleanupTest, RemoveTemps, Builder
  <2>2. \A k \in temps : k \in Kept \cup {"tested", "tester", "testpod"}
    BY <2>1 DEF TempsInv, Used, NextIs
  <2>3. \A k \in temps' : k \in Kept
    BY <2>1, <2>2 DEF Kept
  <2>. QED BY <2>1, <2>3 DEF TempsInv, CleanedUp, Running, Kept
<1>13. CASE Kill BY <1>13 DEF Kill, TempsInv, CleanedUp, Running
<1>14. CASE UNCHANGED vars
  BY <1>14 DEF vars, machine, TempsInv, CleanedUp, Leaked, Running, Kept, Used, NextIs
<1>. QED BY <1>1, <1>2, <1>5, <1>6, <1>7, <1>8, <1>9, <1>10, <1>11, <1>12, <1>13, <1>14,
         <1>16, <1>17 DEF Next, Step

\* As long as the removals from rkt succeed, a command leaves none of its images
\* and pods in rkt, except what the user keeps and, after an error, the stage1
\* image and, when no test container was started, the image under test
\* (CleanedUp).
THEOREM CleanedUpCorrect ==
  ASSUME "imageRm" \notin Faults
  PROVE  Spec => []CleanedUp
<1>1. TypeOK /\ StackInv /\ FailInv /\ OnceInv /\ TempsInv /\ [Next]_vars => TempsInv'
  BY StepTemps
<1>2. TempsInv => CleanedUp BY DEF TempsInv
<1>. QED BY <1>1, <1>2, InitTemps, TypeCorrect, StackInvCorrect, FailInvCorrect, OnceInvCorrect, PTL
     DEF Spec

----------------------------------------------------------------------------
(* Installing *)

\* The call that a command ends with stays the last one until it is made.
LEMMA LastStep ==
  ASSUME TypeOK, calls # <<>>
  PROVE  /\ Stays => calls' = calls
         /\ Pops => IF Len(calls) = 1 THEN calls' = <<>> /\ Head(calls) = calls[Len(calls)]
                    ELSE calls' # <<>> /\ calls'[Len(calls')] = calls[Len(calls)]
         /\ \A body \in Seq(Calls) : calls' = body \o Tail(calls) /\ Len(body) > 0 =>
              /\ calls' # <<>>
              /\ IF Len(calls) = 1
                   THEN /\ calls'[Len(calls')] = body[Len(body)]
                        /\ Head(calls) = calls[Len(calls)]
                   ELSE calls'[Len(calls')] = calls[Len(calls)]
<1>1. Len(calls) \in Nat /\ Len(calls) > 0 /\ Head(calls) = calls[1]
  BY Positions
<1>2. ASSUME Pops PROVE IF Len(calls) = 1 THEN calls' = <<>> /\ Head(calls) = calls[Len(calls)]
                        ELSE calls' # <<>> /\ calls'[Len(calls')] = calls[Len(calls)]
  <2>1. /\ calls' \in Seq(Calls) /\ Len(calls') = Len(calls) - 1
        /\ \A n \in 1..(Len(calls) - 1) : calls'[n] = calls[n + 1]
    BY <1>2, Popped, TailType DEF Pops, TypeOK
  <2>2. CASE Len(calls) = 1 BY <1>1, <2>1, <2>2
  <2>3. CASE Len(calls) # 1
    <3>1. Len(calls) - 1 \in 1..(Len(calls) - 1) /\ (Len(calls) - 1) + 1 = Len(calls)
      <4>1. \A k \in Nat : k > 0 /\ k # 1 => k - 1 \in 1..(k - 1) /\ (k - 1) + 1 = k
        OBVIOUS
      <4>. QED BY <1>1, <2>3, <4>1
    <3>2. Len(calls') > 0 BY <1>1, <2>1, <2>3
    <3>. QED BY <2>1, <2>3, <3>1, <3>2
  <2>. QED BY <2>2, <2>3
<1>3. ASSUME NEW body \in Seq(Calls), calls' = body \o Tail(calls), Len(body) > 0
      PROVE  /\ calls' # <<>>
             /\ IF Len(calls) = 1
                  THEN /\ calls'[Len(calls')] = body[Len(body)]
                       /\ Head(calls) = calls[Len(calls)]
                  ELSE calls'[Len(calls')] = calls[Len(calls)]
  <2>. DEFINE b == Len(body)
              k == Len(calls)
  <2>1. /\ b \in Nat /\ b > 0 /\ k \in Nat /\ k > 0
        /\ Len(calls') = b + k - 1 /\ DOMAIN calls' = 1..(b + k - 1)
        /\ \A n \in 1..(b + k - 1) :
             IF n <= b THEN calls'[n] = body[n]
                       ELSE calls'[n] = calls[n - b + 1]
    BY <1>1, <1>3, Pushed
  <2>. HIDE DEF b, k
  <2>2. b + k - 1 \in 1..(b + k - 1) BY <2>1
  <2>3. calls' # <<>> BY <2>1, <2>2
  <2>4. CASE k = 1
    <3>1. b + k - 1 = b /\ b + k - 1 <= b BY <2>1, <2>4
    <3>2. calls'[b + k - 1] = body[b + k - 1] BY <2>1, <2>2, <3>1
    <3>. QED BY <1>1, <2>1, <2>3, <2>4, <3>1, <3>2 DEF b, k
  <2>5. CASE k # 1
    <3>1. ~(b + k - 1 <= b) /\ (b + k - 1) - b + 1 = k BY <2>1, <2>5
    <3>2. calls'[b + k - 1] = calls[k] BY <2>1, <2>2, <3>1
    <3>. QED BY <2>1, <2>3, <2>5, <3>2 DEF k
  <2>. QED BY <2>4, <2>5
<1>. QED BY <1>2, <1>3 DEF Stays

\* Nothing was to be installed before the first command.
LEMMA InitFetch == Init => FetchInv /\ InstallPersists
  BY DEF Init, FetchInv, InstallPersists, Running

\* A step that replaces the stack and may not be the last one.
LEMMA QuietFetch ==
  ASSUME TypeOK, FetchInv, Running, command' = command, failed => failed', calls # <<>>,
         \/ Stays
         \/ Pops /\ Head(calls) \notin {"Install", "Fetch"}
         \/ Expands \/ Tests1st
         \/ failed'
  PROVE  FetchInv'
<1>. SUFFICES ASSUME command.name = "install", ~failed' PROVE /\ calls' # <<>>
                     /\ calls'[Len(calls')] \in {"Install", "Fetch"}
  BY DEF FetchInv
<1>1. calls[Len(calls)] \in {"Install", "Fetch"} BY DEF FetchInv
<1>2. CASE Stays BY <1>1, <1>2 DEF Stays
<1>3. CASE Pops /\ Head(calls) \notin {"Install", "Fetch"} BY <1>1, <1>3, LastStep
<1>4. CASE Expands
  <2>1. PICK body \in Seq(Calls) : /\ ExpandsTo(Head(calls), body)
                                   /\ calls' = body \o Tail(calls)
    BY <1>4 DEF Expands
  <2>2. /\ Len(body) > 0
        /\ Head(calls) \in {"Install", "Fetch"} => body[Len(body)] = "Fetch"
    <3>1. Len(body) > 0 BY <2>1, BodyCalls
    <3>2. Head(calls) \in {"Install", "Fetch"} => body = InstallCalls
      BY <2>1 DEF ExpandsTo
    <3>3. InstallCalls[Len(InstallCalls)] = "Fetch" BY DEF InstallCalls
    <3>. QED BY <3>1, <3>2, <3>3
  <2>. QED BY <1>1, <2>1, <2>2, LastStep
<1>5. CASE Tests1st
  <2>1. /\ <<"Test">> \in Seq(Calls) /\ Len(<<"Test">>) > 0
        /\ Head(calls) = "TestFirst" /\ calls' = <<"Test">> \o Tail(calls)
    BY <1>5 DEF Tests1st, Calls
  <2>. QED BY <1>1, <2>1, LastStep
<1>. QED BY <1>2, <1>3, <1>4, <1>5

\* "dgr install" ends with the fetch of the image, and then only returns.
LEMMA StepFetch ==
  ASSUME TypeOK, FetchInv, InstallPersists, [Next]_vars
  PROVE  FetchInv' /\ InstallPersists'
<1>. USE DEF disk, store, session, tests
<1>1. CASE \E c \in Commands : Start(c)
  <2>1. PICK c \in Commands : Start(c) BY <1>1
  <2>2. command' = c /\ Running' /\ outcome' = "running" BY <2>1 DEF Start, Running
  <2>3. ASSUME c.name = "install"
        PROVE  calls' # <<>> /\ calls'[Len(calls')] = "Install"
    <3>1. calls' = <<"Install">> \/ calls' = <<"Clean", "Install">>
      BY <2>1, <2>3, StartCalls DEF Verbs
    <3>2. CASE calls' = <<"Install">> BY <3>2
    <3>3. CASE calls' = <<"Clean", "Install">> BY <3>3
    <3>. QED BY <3>1, <3>2, <3>3
  <2>. QED BY <2>2, <2>3 DEF FetchInv, InstallPersists
<1>2. CASE Finish
  BY <1>2 DEF Finish, FetchInv, InstallPersists, Running
<1>3. CASE Fetch
  <2>1. /\ Running /\ calls # <<>> /\ Head(calls) = "Fetch" /\ target' = target
        /\ command' = command /\ outcome' = outcome /\ testFlag' = testFlag
    BY <1>3 DEF Fetch, Calling
  <2>2. CASE Fail BY <2>1, <2>2 DEF Fail, FetchInv, InstallPersists, Running
  <2>3. CASE installed' = installed \cup {target["image"]} /\ Return
    <3>1. /\ target'["image"] \in installed' /\ failed' = failed /\ Pops
          /\ phase' = "none"
      BY <1>3, <2>1, <2>3 DEF Return, Pops, Fetch, Calling
    <3>2. CASE calls' = <<>> BY <2>1, <3>1, <3>2 DEF FetchInv, InstallPersists, Running
    <3>3. CASE calls' # <<>>
      <4>1. calls'[Len(calls')] = calls[Len(calls)] BY <2>1, <3>1, <3>3, LastStep
      <4>. QED BY <2>1, <3>1, <3>3, <4>1 DEF FetchInv, InstallPersists, Running
    <3>. QED BY <3>2, <3>3
  <2>. QED BY <1>3, <2>2, <2>3 DEF Fetch
<1>4. CASE Kill BY <1>4 DEF Kill, FetchInv, InstallPersists, Running
<1>5. CASE UNCHANGED vars BY <1>5 DEF vars, machine, FetchInv, InstallPersists, Running
<1>6. ASSUME Running, command' = command, outcome' = outcome, failed => failed',
             \/ failed'
             \/ /\ calls # <<>>
                /\ \/ Pops /\ Head(calls) \notin {"Install", "Fetch"}
                   \/ Expands \/ Tests1st \/ Stays
             \/ phase # "none" /\ Stays
      PROVE  FetchInv' /\ InstallPersists'
  <2>1. InstallPersists' BY <1>6 DEF InstallPersists, Running
  <2>2. FetchInv'
    <3>1. CASE calls # <<>> BY <1>6, <3>1, QuietFetch
    <3>2. CASE failed' BY <3>2 DEF FetchInv
    <3>3. CASE calls = <<>> /\ phase # "none" /\ ~failed'
      BY <1>6, <3>3 DEF FetchInv
    <3>. QED BY <1>6, <3>1, <3>2, <3>3
  <2>. QED BY <2>1, <2>2
<1>7. CASE \/ Sign \/ Install \/ Push \/ Test \/ EnsureBuilt \/ EnsureSign
           \/ EnsureZip \/ EnsureZipSign \/ TestFirst
  <2>1. Running /\ command' = command /\ outcome' = outcome /\ failed' = failed /\ calls # <<>>
    BY <1>7 DEF Sign, Install, Push, Test, EnsureBuilt, EnsureSign, EnsureZip,
       EnsureZipSign, TestFirst, Expand, Calling
  <2>. QED BY <1>6, <1>7, <2>1, ExpandStep, TestFirstStep DEF Ensures
<1>8. CASE \/ Clean \/ CleanAndRun \/ BuildTest \/ SignImage \/ SignZip \/ Gpg \/ Zip
           \/ FetchTest \/ RunTest \/ CheckResult \/ UploadAci
  <2>1. /\ Running /\ command' = command /\ outcome' = outcome /\ calls # <<>>
        /\ testFlag' = testFlag /\ Head(calls) \notin {"Install", "Fetch"}
    BY <1>8 DEF Clean, CleanAndRun, BuildTest, SignImage, SignZip, SignFile, Gpg, GpgFile, Zip,
       FetchTest, RunTest, CheckResult, UploadAci, Calling, Builder
  <2>2. \/ calls' = Tail(calls) /\ (failed => failed')
        \/ calls' = calls /\ failed' = failed
        \/ failed'
    BY <1>8 DEF Clean, CleanAndRun, BuildTest, SignImage, SignZip, SignFile, Gpg, GpgFile, Zip,
       FetchTest, RunTest, CheckResult, UploadAci, Return, Fail, Advance
  <2>. QED BY <1>6, <2>1, <2>2 DEF Pops, Stays
<1>9. CASE \/ PrepareStage1 \/ PrepareBuilder \/ RunBuilder \/ RunLevels \/ TarAci
           \/ ExtractManifest \/ CleanupRun \/ ZipCopy \/ RunTestFile \/ EndTests
           \/ StopTests \/ CleanupTest
  <2>1. /\ Running /\ command' = command /\ outcome' = outcome /\ phase # "none"
        /\ testFlag' = testFlag
    BY <1>9 DEF PrepareStage1, PrepareBuilder, RunBuilder, RunLevels, TarAci, ExtractManifest,
       CleanupRun, ZipCopy, RunTestFile, EndTests, StopTests, CleanupTest, Builder
  <2>2. \/ calls' = calls /\ (failed => failed')
        \/ failed'
    BY <1>9 DEF PrepareStage1, PrepareBuilder, RunBuilder, RunLevels, TarAci, ExtractManifest,
       CleanupRun, ZipCopy, RunTestFile, EndTests, StopTests, CleanupTest, Advance, Abort,
       Fail, machine
  <2>. QED BY <1>6, <2>1, <2>2 DEF Stays
<1>. QED BY <1>1, <1>2, <1>3, <1>4, <1>5, <1>7, <1>8, <1>9 DEF Next, Step

\* "dgr install" that succeeds leaves the image in the rkt store, also with
\* --test, where Test removes it again on the way (InstallPersists).
THEOREM InstallCorrect == Spec => []InstallPersists
<1>1. TypeOK /\ FetchInv /\ InstallPersists /\ [Next]_vars => FetchInv' /\ InstallPersists'
  BY StepFetch
<1>. QED BY <1>1, InitFetch, TypeCorrect, PTL DEF Spec

----------------------------------------------------------------------------
(* Which image a command works on *)

\* There is no command to make an image before the first one.
LEMMA InitImage == Init => ImageInv /\ FreshInv
  BY DEF Init, ImageInv, FreshInv, Running

\* A command starts with the calls that make its image.
LEMMA StartImage ==
  ASSUME NEW c \in Commands, Start(c)
  PROVE  ImageInv' /\ FreshInv'
<1>1. command' = c /\ phase' = "none" BY DEF Start
<1>2. CASE c.name \in {"build", "try"} /\ calls' = <<"CleanAndRun">>
  <2>1. NextIs({"Clean", "CleanAndRun"})' BY <1>1, <1>2 DEF NextIs
  <2>2. Pending(Needs)' /\ ~Pending({"Clean"})'
    <3>1. 1 \in DOMAIN calls' /\ calls'[1] = "CleanAndRun" BY <1>2
    <3>2. \A n \in DOMAIN calls' : calls'[n] # "Clean" BY <1>2
    <3>. QED BY <3>1, <3>2 DEF Pending, Needs
  <2>. QED BY <2>1, <2>2 DEF ImageInv, FreshInv
<1>3. CASE c.name = "init" /\ calls' = <<"CleanAndRun", "Clean">>
  <2>1. NextIs({"Clean", "CleanAndRun"})' BY <1>1, <1>3 DEF NextIs
  <2>. QED BY <1>1, <1>3, <2>1 DEF ImageInv, FreshInv
<1>4. CASE c.name = "clean" /\ calls' = <<"Clean">>
  <2>1. NextIs({"Clean", "CleanAndRun"})' BY <1>1, <1>4 DEF NextIs
  <2>. QED BY <1>1, <1>4, <2>1 DEF ImageInv, FreshInv
<1>5. ASSUME NEW op \in {"Sign", "Install", "Push", "Test"}, Verbs(c.name, op),
             c.clean, calls' = <<"Clean", op>>
      PROVE  ImageInv' /\ FreshInv'
  <2>1. NextIs({"Clean", "CleanAndRun"})' BY <1>1, <1>5 DEF NextIs
  <2>2. 2 \in DOMAIN calls' /\ calls'[2] = op /\ calls'[1] = "Clean" /\ Len(calls') = 2
    BY <1>5
  <2>3. op \in Needs BY DEF Needs
  <2>. QED BY <2>1, <2>2, <2>3 DEF ImageInv, FreshInv, Pending
<1>6. ASSUME NEW op \in {"Sign", "Install", "Push", "Test"}, Verbs(c.name, op),
             ~c.clean, calls' = <<op>>
      PROVE  ImageInv' /\ FreshInv'
  <2>1. 1 \in DOMAIN calls' /\ calls'[1] = op /\ \A n \in DOMAIN calls' : calls'[n] # "Clean"
    BY <1>6
  <2>2. op \in Needs BY DEF Needs
  <2>3. c.name # "build" BY <1>6 DEF Verbs
  <2>. QED BY <1>1, <1>6, <2>1, <2>2, <2>3 DEF ImageInv, FreshInv, Pending
<1>. QED BY <1>2, <1>3, <1>4, <1>5, <1>6, StartCalls

\* A method that sees to the image calls one that does, and never Clean.
LEMMA BodyNeeds ==
  ASSUME NEW op, NEW body, ExpandsTo(op, body)
  PROVE  /\ \E i \in 1..Len(body) : op \in Needs => body[i] \in Needs
         /\ \A i \in 1..Len(body) : body[i] # "Clean"
<1>. USE DEF Needs
<1>1. CASE op = "Sign" /\ body = SignCalls
  <2>1. 1 \in 1..Len(body) /\ body[1] = "EnsureBuilt" /\ \A i \in 1..Len(body) : body[i] # "Clean"
    BY <1>1 DEF SignCalls
  <2>. QED BY <2>1
<1>2. CASE op = "Install" /\ body = InstallCalls
  <2>1. 3 \in 1..Len(body) /\ body[3] = "Fetch" /\ \A i \in 1..Len(body) : body[i] # "Clean"
    BY <1>2 DEF InstallCalls
  <2>. QED BY <2>1
<1>3. CASE op = "Push" /\ body = PushCalls
  <2>1. 1 \in 1..Len(body) /\ body[1] = "EnsureBuilt" /\ \A i \in 1..Len(body) : body[i] # "Clean"
    BY <1>3 DEF PushCalls
  <2>. QED BY <2>1
<1>4. CASE op = "Test" /\ body = TestCalls
  <2>1. 1 \in 1..Len(body) /\ body[1] = "Install" /\ \A i \in 1..Len(body) : body[i] # "Clean"
    BY <1>4 DEF TestCalls
  <2>. QED BY <2>1
<1>5. CASE op = "EnsureBuilt" /\ body = <<"CleanAndRun">>
  <2>1. 1 \in 1..Len(body) /\ body[1] = "CleanAndRun" /\ \A i \in 1..Len(body) : body[i] # "Clean"
    BY <1>5
  <2>. QED BY <2>1
<1>6. CASE op \in {"EnsureSign", "EnsureZip", "EnsureZipSign"}
  <2>1. op \notin Needs BY <1>6
  <2>2. 1 \in 1..Len(body) /\ \A i \in 1..Len(body) : body[i] # "Clean"
    BY <1>6 DEF ExpandsTo
  <2>. QED BY <2>1, <2>2
<1>. QED BY <1>1, <1>2, <1>3, <1>4, <1>5, <1>6 DEF ExpandsTo

\* A step whose image is there already, or which hands the making of it on.
LEMMA QuietImage ==
  ASSUME TypeOK, ImageInv, Running, command' = command,
         \/ ~Running' \/ failed' = TRUE
         \/ /\ failed' = failed
            /\ \/ Stays /\ (Exists("image")' \/ Building' \/ (~Building /\ target' = target))
               \/ /\ Pops /\ Head(calls) # "Clean"
                  /\ \/ Exists("image")' \/ Building'
                     \/ ~Building /\ target' = target /\ Head(calls) \notin Needs
               \/ (Expands \/ Tests1st) /\ ~Building /\ target' = target
  PROVE  ImageInv'
<1>1. ImageInv' \/ /\ Running' /\ failed' = FALSE /\ failed' = failed
                   /\ command.name \notin {"clean", "init"}
  BY DEF ImageInv, TypeOK
<1>. SUFFICES ASSUME Running', failed' = failed, failed = FALSE, command.name \notin {"clean", "init"}
              PROVE  /\ Exists("image")' \/ Building' \/ Pending(Needs)'
                     /\ Pending({"Clean"})' => /\ Len(calls') = 2 /\ calls'[1] = "Clean"
                                               /\ calls'[2] \in Needs
  BY <1>1 DEF ImageInv
<1>2. Exists("image") \/ Building \/ Pending(Needs) BY DEF ImageInv
<1>3. Head(calls) # "Clean" /\ calls # <<>> => ~Pending({"Clean"})
  BY Positions DEF ImageInv
<1>4. CASE Stays /\ (Exists("image")' \/ Building' \/ (~Building /\ target' = target))
  <2>1. (Pending(Needs)' <=> Pending(Needs)) /\ (Pending({"Clean"})' <=> Pending({"Clean"}))
    BY <1>4, PendingStep DEF Needs
  <2>. QED BY <1>2, <1>4, <2>1 DEF ImageInv, Stays, Exists
<1>5. CASE /\ Pops /\ Head(calls) # "Clean"
           /\ \/ Exists("image")' \/ Building'
              \/ ~Building /\ target' = target /\ Head(calls) \notin Needs
  <2>1. ~Pending({"Clean"})' BY <1>3, <1>5, PendingStep DEF Pops
  <2>2. Pending(Needs) /\ Head(calls) \notin Needs => Pending(Needs)'
    BY <1>5, PendingStep DEF Needs
  <2>. QED BY <1>2, <1>5, <2>1, <2>2 DEF Exists
<1>6. CASE Expands /\ ~Building /\ target' = target
  <2>1. PICK body \in Seq(Calls) : /\ ExpandsTo(Head(calls), body)
                                   /\ calls' = body \o Tail(calls)
    BY <1>6 DEF Expands
  <2>2. PICK i \in 1..Len(body) : Head(calls) \in Needs => body[i] \in Needs
    BY <2>1, BodyNeeds
  <2>3. calls # <<>> BY <1>6 DEF Expands
  <2>4. Pending(Needs) => Pending(Needs)'
    BY <2>1, <2>2, <2>3, PendingBody DEF Needs
  <2>5. \A j \in 1..Len(body) : body[j] # "Clean" BY <2>1, BodyNeeds
  <2>6. ~Pending({"Clean"}) BY <1>3, <2>1, <2>3 DEF ExpandsTo
  <2>7. ~Pending({"Clean"})'
    <3>1. Pending({"Clean"})' => Pending({"Clean"}) \/ \E j \in 1..Len(body) : body[j] \in {"Clean"}
      BY <2>1, <2>3, PendingBody
    <3>. QED BY <2>5, <2>6, <3>1
  <2>. QED BY <1>2, <1>6, <2>4, <2>7 DEF Exists
<1>7. CASE Tests1st
  <2>. DEFINE body == <<"Test">>
  <2>1. body \in Seq(Calls) /\ 1 \in 1..Len(body) /\ body[1] = "Test"
        /\ \A j \in 1..Len(body) : body[j] # "Clean"
    BY DEF Calls
  <2>2. calls # <<>> /\ Head(calls) = "TestFirst" /\ calls' = body \o Tail(calls)
    BY <1>7 DEF Tests1st
  <2>. HIDE DEF body
  <2>3. "Test" \in Needs BY DEF Needs
  <2>4. Pending(Needs)' BY <2>1, <2>2, <2>3, PendingBody DEF Needs
  <2>5. ~Pending({"Clean"})'
    <3>1. Pending({"Clean"})' => Pending({"Clean"}) \/ \E j \in 1..Len(body) : body[j] \in {"Clean"}
      BY <2>1, <2>2, PendingBody
    <3>. QED BY <1>3, <2>1, <2>2, <3>1
  <2>. QED BY <2>4, <2>5
<1>. QED BY <1>4, <1>5, <1>6, <1>7

\* Every step of a command leaves it with an image, or with a call to make one.
LEMMA StepImage ==
  ASSUME TypeOK, ImageInv, [Next]_vars
  PROVE  ImageInv'
<1>. USE DEF disk, store, session, tests
<1>1. CASE \E c \in Commands : Start(c) BY <1>1, StartImage
<1>2. CASE \/ Sign \/ Install \/ Push \/ Test \/ EnsureBuilt \/ EnsureSign
           \/ EnsureZip \/ EnsureZipSign \/ TestFirst
  <2>1. /\ command' = command /\ Running /\ failed' = failed /\ target' = target
        /\ phase = "none" /\ calls # <<>>
    BY <1>2 DEF Sign, Install, Push, Test, EnsureBuilt, EnsureSign, EnsureZip,
       EnsureZipSign, TestFirst, Expand, Calling
  <2>2. ~Building BY <2>1 DEF Building
  <2>3. CASE Pops /\ Head(calls) \in Ensures
    <3>1. CASE Head(calls) = "EnsureBuilt"
      <4>1. EnsureBuilt
        BY <1>2, <3>1 DEF Sign, Install, Push, Test, EnsureSign, EnsureZip, EnsureZipSign,
           TestFirst, Expand, Calling
      <4>2. CASE Exists("image")
        <5>1. Exists("image")' BY <2>1, <4>2 DEF Exists
        <5>. QED BY <2>1, <2>3, <3>1, <5>1, QuietImage
      <4>3. CASE ~Exists("image")
        <5>1. calls' = <<"CleanAndRun">> \o Tail(calls) /\ <<"CleanAndRun">> \in Seq(Calls)
              /\ Len(<<"CleanAndRun">>) = 1
          BY <4>1, <4>3 DEF EnsureBuilt, Expand, Calls
        <5>2. Expands
          BY <2>1, <2>3, <3>1, <5>1 DEF Expands, ExpandsTo, Pops
        <5>. QED BY <2>1, <2>2, <5>2, QuietImage
      <4>. QED BY <4>2, <4>3
    <3>2. CASE Head(calls) # "EnsureBuilt"
      BY <2>1, <2>2, <2>3, <3>2, QuietImage DEF Ensures, Needs
    <3>. QED BY <3>1, <3>2
  <2>4. CASE Pops /\ Head(calls) = "TestFirst"
    BY <2>1, <2>2, <2>4, QuietImage DEF Needs
  <2>5. CASE Expands \/ Tests1st
    BY <2>1, <2>2, <2>5, QuietImage
  <2>. QED BY <1>2, <2>3, <2>4, <2>5, ExpandStep, TestFirstStep
<1>3. CASE Clean
  <2>1. /\ command' = command /\ Running /\ failed' = failed /\ Running'
        /\ calls # <<>> /\ Head(calls) = "Clean" /\ calls' = Tail(calls)
    BY <1>3 DEF Clean, Calling, Return, Running
  <2>. SUFFICES ASSUME failed = FALSE, command.name \notin {"clean", "init"}
                PROVE  Pending(Needs)' /\ ~Pending({"Clean"})'
    BY <2>1 DEF ImageInv, TypeOK
  <2>2. Pending({"Clean"}) BY <2>1, Positions DEF Pending
  <2>3. Len(calls) = 2 /\ calls[2] \in Needs BY <2>1, <2>2 DEF ImageInv
  <2>4. DOMAIN calls' = 1..1 /\ calls'[1] = calls[2]
    <3>1. DOMAIN calls' = 1..(Len(calls) - 1) /\ \A n \in DOMAIN calls' : calls'[n] = calls[n + 1]
      BY <2>1, Popped
    <3>2. Len(calls) - 1 = 1 /\ 1 \in 1..1 /\ 1 + 1 = 2 BY <2>3
    <3>. QED BY <3>1, <3>2
  <2>. QED BY <2>3, <2>4 DEF Pending, Needs
<1>4. CASE CleanAndRun
  <2>1. /\ command' = command /\ Running /\ failed' = failed /\ Pops
        /\ Head(calls) = "CleanAndRun" /\ phase' = "stage1" /\ at' = "main"
    BY <1>4 DEF CleanAndRun, Calling, Pops
  <2>. QED BY <2>1, QuietImage DEF Building
<1>5. CASE \/ BuildTest \/ Fetch \/ UploadAci
  <2>1. /\ command' = command /\ Running /\ target' = target
        /\ Head(calls) # "Clean"
        /\ \/ failed' = TRUE
           \/ failed' = failed /\ Pops /\ Exists("image")
    BY <1>5 DEF BuildTest, Fetch, UploadAci, Calling, Return, Fail, Pops
  <2>. QED BY <2>1, QuietImage DEF Exists
<1>6. CASE \/ FetchTest \/ RunTest \/ CheckResult
  <2>1. /\ command' = command /\ Running /\ target' = target /\ phase = "none"
        /\ Head(calls) \in {"FetchTest", "RunTest", "CheckResult"}
        /\ \/ failed' = TRUE
           \/ failed' = failed /\ Pops
    BY <1>6 DEF FetchTest, RunTest, CheckResult, Calling, Return, Fail, Pops
  <2>. QED BY <2>1, QuietImage DEF Building, Needs
<1>7. CASE \/ SignImage \/ SignZip \/ Gpg \/ Zip
  <2>0. target'["image"] = target["image"]
    BY <1>7 DEF SignImage, SignZip, SignFile, Gpg, GpgFile, Zip, TypeOK, Files
  <2>1. /\ command' = command /\ Running /\ target'["image"] = target["image"]
        /\ Head(calls) \in {"SignImage", "SignZip", "Zip"} /\ phase \in {"none", "gpg"}
        /\ calls # <<>>
        /\ \/ failed' = TRUE
           \/ failed' = failed /\ (Pops \/ Stays)
    BY <1>7, <2>0 DEF SignImage, SignZip, SignFile, Gpg, GpgFile, Zip, Calling, Builder, Return,
       Fail, Advance, Pops, Stays
  <2>2. CASE Exists("image")
    BY <2>1, <2>2, QuietImage DEF Exists
  <2>3. CASE ~Exists("image")
    <3>1. \/ failed' = TRUE
          \/ /\ failed' = failed
             /\ (Pending(Needs) => Pending(Needs)')
             /\ (Pending({"Clean"})' => Pending({"Clean"}))
      BY <2>1, PendingStep DEF Needs
    <3>2. Head(calls) # "Clean" /\ calls # <<>> => (Pending({"Clean"}) /\ Running /\ ~failed
                /\ command.name \notin {"clean", "init"} => FALSE)
      BY Positions DEF ImageInv
    <3>. QED BY <2>1, <2>3, <3>1, <3>2 DEF ImageInv, Building, TypeOK, Pops
  <2>. QED BY <2>2, <2>3
<1>8. CASE PrepareStage1 \/ PrepareBuilder \/ RunBuilder
  <2>1. /\ command' = command /\ Running /\ target' = target
        /\ \/ failed' = TRUE
           \/ /\ failed' = failed /\ Stays /\ at' = at
              /\ phase \in {"stage1", "builder", "prepared"}
              /\ phase' \in {"builder", "prepared", "container"}
    BY <1>8 DEF PrepareStage1, PrepareBuilder, RunBuilder, Builder, Advance, Abort, Fail, Stays
  <2>2. Stays /\ at' = at /\ phase' \in {"builder", "prepared", "container"} => (Building' \/ at # "main")
    BY DEF Building
  <2>3. at # "main" => ~Building BY DEF Building
  <2>. QED BY <2>1, <2>2, <2>3, QuietImage
<1>9. CASE RunLevels
  <2>1. /\ command' = command /\ Running
        /\ \/ failed' = TRUE
           \/ /\ failed' = failed /\ Stays
              /\ \/ at = "main" /\ Exists("image")'
                 \/ at # "main" /\ target' = target
    <3>1. [id |-> issued, from |-> Verb, content |-> "truncated"] # Absent
      BY DEF Absent, Verb
    <3>. QED BY <1>9, <3>1 DEF RunLevels, Builder, Advance, Abort, Stays, Exists, TypeOK, Files
  <2>2. at # "main" => ~Building BY DEF Building
  <2>. QED BY <2>1, <2>2, QuietImage
<1>10. CASE TarAci
  <2>1. /\ command' = command /\ Running /\ ~Building
        /\ \/ failed' = TRUE
           \/ /\ failed' = failed /\ Stays
              /\ target' = target \/ Exists("image")'
    <3>1. [target["image"] EXCEPT !.content = "whole"] # Absent
      BY DEF Absent, TypeOK, Artifact, Files
    <3>. QED BY <1>10, <3>1 DEF TarAci, Builder, Advance, Abort, Stays, Exists, TypeOK, Files, Building
  <2>. QED BY <2>1, QuietImage
<1>11. CASE ZipCopy
  <2>0. target'["image"] = target["image"]
    BY <1>11 DEF ZipCopy, TypeOK, Files
  <2>1. /\ command' = command /\ Running /\ ~Building
        /\ target'["image"] = target["image"]
        /\ failed' = TRUE \/ (failed' = failed /\ Stays)
    BY <1>11, <2>0 DEF ZipCopy, Builder, Advance, Fail, Stays, Building
  <2>2. Stays => (Pending(Needs)' <=> Pending(Needs)) /\ (Pending({"Clean"})' <=> Pending({"Clean"}))
    BY PendingStep DEF Needs
  <2>. QED BY <2>1, <2>2 DEF ImageInv, Exists, TypeOK, Running, Stays
<1>12. CASE \/ ExtractManifest \/ CleanupRun \/ RunTestFile \/ EndTests \/ StopTests
            \/ CleanupTest \/ Finish
  <2>1. /\ command' = command /\ Running /\ ~Building /\ target' = target
        /\ failed' = TRUE \/ (failed' = failed /\ Stays)
    BY <1>12 DEF ExtractManifest, CleanupRun, RunTestFile, EndTests, StopTests, CleanupTest,
       Finish, Builder, Advance, Abort, Fail, machine, Stays, Building
  <2>. QED BY <2>1, QuietImage
<1>13. CASE Kill BY <1>13 DEF Kill, ImageInv, Running
<1>14. CASE UNCHANGED vars
  <2>1. Stays BY <1>14 DEF vars, machine, Stays
  <2>2. (Pending(Needs)' <=> Pending(Needs)) /\ (Pending({"Clean"})' <=> Pending({"Clean"}))
    BY <2>1, PendingStep DEF Needs
  <2>. QED BY <1>14, <2>2 DEF vars, machine, ImageInv, Exists, Building, Running
<1>. QED BY <1>1, <1>2, <1>3, <1>4, <1>5, <1>6, <1>7, <1>8, <1>9, <1>10, <1>11, <1>12, <1>13,
     <1>14 DEF Next, Step

\* Which steps leave the files alone, and no image that is not complete.
LEMMA QuietFresh ==
  ASSUME FreshInv, Running, command' = command, issued' = issued, target' = target,
         ~NextIs({"Clean", "CleanAndRun"}), failed => failed',
         ~(phase = "tar" /\ at = "main") \/ failed'
  PROVE  FreshInv'
<1>1. Verb' = Verb BY DEF Verb
<1>. QED BY <1>1 DEF FreshInv, FreshFiles, Exists

\* After the clean every step leaves only files of this command, and a whole image.
LEMMA StepFresh ==
  ASSUME TypeOK, BuildInv, FreshInv, "rm" \notin Faults, [Next]_vars
  PROVE  FreshInv'
<1>. USE DEF disk, store, session, tests
<1>1. CASE \E c \in Commands : Start(c) BY <1>1, StartImage
<1>2. CASE \/ Sign \/ Install \/ Push \/ Test \/ EnsureBuilt \/ EnsureSign
           \/ EnsureZip \/ EnsureZipSign \/ TestFirst
           \/ BuildTest \/ Fetch \/ FetchTest \/ RunTest \/ CheckResult \/ UploadAci
  <2>1. /\ command' = command /\ issued' = issued /\ Running /\ target' = target
        /\ phase = "none" /\ calls # <<>> /\ Head(calls) \notin {"Clean", "CleanAndRun"}
    BY <1>2 DEF Sign, Install, Push, Test, EnsureBuilt, EnsureSign, EnsureZip,
       EnsureZipSign, TestFirst, Expand, BuildTest, Fetch, FetchTest, RunTest, CheckResult,
       UploadAci, Calling
  <2>2. failed' = failed \/ failed' = TRUE
    BY <1>2 DEF Sign, Install, Push, Test, EnsureBuilt, EnsureSign, EnsureZip,
       EnsureZipSign, TestFirst, Expand, BuildTest, Fetch, FetchTest, RunTest, CheckResult,
       UploadAci, Return, Fail
  <2>. QED BY <2>1, <2>2, QuietFresh DEF NextIs
<1>3. CASE Clean \/ CleanAndRun
  <2>1. \A f \in Files : target'[f] = Absent
    BY <1>3 DEF Clean, CleanAndRun, RemoveTarget, Leave
  <2>. QED BY <2>1 DEF FreshInv, FreshFiles, Exists, Files
<1>4. CASE \/ PrepareStage1 \/ PrepareBuilder \/ RunBuilder \/ ExtractManifest \/ CleanupRun
           \/ RunTestFile \/ EndTests \/ StopTests \/ CleanupTest
  <2>1. /\ command' = command /\ issued' = issued /\ Running /\ target' = target
        /\ phase \notin {"none", "tar"}
    BY <1>4 DEF PrepareStage1, PrepareBuilder, RunBuilder, ExtractManifest, CleanupRun,
       RunTestFile, EndTests, StopTests, CleanupTest, Builder
  <2>2. failed' = failed \/ failed' = TRUE
    BY <1>4 DEF PrepareStage1, PrepareBuilder, RunBuilder, ExtractManifest, CleanupRun,
       RunTestFile, EndTests, StopTests, CleanupTest, Advance, Abort, Fail, machine
  <2>. QED BY <2>1, <2>2, QuietFresh DEF NextIs
<1>5. CASE RunLevels
  <2>1. /\ command' = command /\ issued' = issued /\ Running /\ phase = "container"
        /\ at' = at /\ (failed' = failed \/ failed' = TRUE)
    BY <1>5 DEF RunLevels, Builder, Advance, Abort
  <2>2. CASE target' = target
    BY <2>1, <2>2, QuietFresh DEF NextIs
  <2>3. CASE /\ at = "main" /\ phase' = "tar"
             /\ target' = [target EXCEPT !["image"] =
                             [id |-> issued, from |-> Verb, content |-> "truncated"]]
    <3>1. /\ target'["image"].id = issued /\ target'["image"].from = Verb
          /\ \A f \in Files \ {"image"} : target'[f] = target[f]
      BY <2>3 DEF TypeOK, Files
    <3>2. Verb' = Verb BY <2>1 DEF Verb
    <3>3. Running' /\ (command.clean \/ command.name = "build") => FreshFiles
      BY <2>1 DEF FreshInv, NextIs
    <3>. QED BY <2>1, <2>3, <3>1, <3>2, <3>3 DEF FreshInv, FreshFiles, Exists
  <2>. QED BY <1>5, <2>2, <2>3 DEF RunLevels, Advance, Abort
<1>6. CASE TarAci
  <2>1. /\ command' = command /\ issued' = issued /\ Running /\ phase = "tar"
        /\ at' = at /\ (failed' = failed \/ failed' = TRUE)
    BY <1>6 DEF TarAci, Builder, Advance, Abort
  <2>2. CASE target' = target /\ (failed' \/ at # "main")
    BY <2>1, <2>2, QuietFresh DEF NextIs
  <2>3. CASE at = "main" /\ target' = [target EXCEPT !["image"] = [@ EXCEPT !.content = "whole"]]
    <3>1. /\ target'["image"].id = target["image"].id
          /\ target'["image"].from = target["image"].from
          /\ target'["image"].content = "whole"
          /\ \A f \in Files \ {"image"} : target'[f] = target[f]
      BY <2>3 DEF TypeOK, Files, Artifact
    <3>2. Verb' = Verb BY <2>1 DEF Verb
    <3>3. Running' /\ (command.clean \/ command.name = "build") => FreshFiles
      BY <2>1 DEF FreshInv, NextIs
    <3>4. Exists("image") BY <2>1, <2>3 DEF BuildInv, TarHasImage
    <3>. QED BY <2>1, <3>1, <3>2, <3>3, <3>4 DEF FreshInv, FreshFiles, Exists, Files
  <2>. QED BY <1>6, <2>2, <2>3 DEF TarAci, Advance, Abort
<1>7. CASE \/ SignImage \/ SignZip \/ Gpg \/ Zip \/ ZipCopy
  <2>1. /\ command' = command /\ issued' = issued /\ Running /\ phase \in {"none", "zip", "gpg"}
        /\ (failed' = failed \/ failed' = TRUE) /\ ~NextIs({"Clean", "CleanAndRun"})
    BY <1>7 DEF SignImage, SignZip, SignFile, Gpg, GpgFile,
       Zip, ZipCopy, Builder, Calling, Return, Fail,
       Advance, NextIs
  <2>2. target'["image"] = target["image"]
    BY <1>7 DEF SignImage, SignZip, SignFile, Gpg, GpgFile,
       Zip, ZipCopy, TypeOK, Files
  <2>3. \A f \in Files :
          \/ target'[f] \in {target[f], Absent}
          \/ \E g \in Files : /\ Exists(g)
                              /\ target'[f].id = target[g].id /\ target'[f].from = target[g].from
    <3>1. CASE SignImage \/ SignZip
      <4>1. \A g \in Files : /\ [target[g] EXCEPT !.content = "cut"].id = target[g].id
                             /\ [target[g] EXCEPT !.content = "cut"].from = target[g].from
        BY DEF TypeOK, Artifact
      <4>. QED BY <3>1, <4>1 DEF SignImage, SignZip, SignFile, TypeOK, Files
    <3>4. CASE Gpg BY <3>4 DEF Gpg, GpgFile, Exists, TypeOK, Files
    <3>2. CASE Zip
      <4>1. /\ [target["image"] EXCEPT !.content = "truncated"].id = target["image"].id
            /\ [target["image"] EXCEPT !.content = "truncated"].from = target["image"].from
        BY DEF TypeOK, Files, Artifact
      <4>. QED BY <3>2, <4>1 DEF Zip, TypeOK, Files
    <3>3. CASE ZipCopy
      BY <3>3 DEF ZipCopy, Exists, TypeOK, Files
    <3>. QED BY <1>7, <3>1, <3>2, <3>3, <3>4
  <2>4. Verb' = Verb BY <2>1 DEF Verb
  <2>5. Running' /\ (command.clean \/ command.name = "build") => FreshFiles
    BY <2>1 DEF FreshInv
  <2>. QED BY <2>1, <2>2, <2>3, <2>4, <2>5 DEF FreshInv, FreshFiles, Exists, Files
<1>8. CASE Finish \/ Kill
  BY <1>8 DEF Finish, Kill, FreshInv, Running
<1>9. CASE UNCHANGED vars
  BY <1>9 DEF vars, machine, FreshInv, FreshFiles, Exists, Running, NextIs, Verb
<1>. QED BY <1>1, <1>2, <1>3, <1>4, <1>5, <1>6, <1>7, <1>8, <1>9 DEF Next, Step

\* As long as os.RemoveAll does not fail halfway, "dgr clean push" pushes only
\* what this very command built, and the commands that clean, like "dgr build",
\* leave a complete image of the build command behind (FreshAfterClean).
THEOREM FreshCorrect ==
  ASSUME "rm" \notin Faults
  PROVE  Spec => FreshAfterClean
<1>. USE DEF disk, store, session, tests
<1>1. ASSUME TypeOK, FreshInv, [Next]_vars, command.clean, NEW u \in remote' \ remote
      PROVE  u.payload.id = issued
  <2>1. UploadAci
    BY <1>1 DEF Next, Step, Start, Kill, vars, Finish, Sign, Install, Push, Test,
       EnsureBuilt, EnsureSign, EnsureZip, EnsureZipSign, Expand, TestFirst, Clean,
       CleanAndRun, BuildTest, PrepareStage1, PrepareBuilder, RunBuilder, RunLevels,
       TarAci, ExtractManifest, CleanupRun, SignImage, SignZip, SignFile, Gpg, GpgFile,
       Zip, ZipCopy,
       Fetch, FetchTest, RunTest, RunTestFile, EndTests, StopTests, CleanupTest,
       CheckResult
  <2>2. FreshFiles BY <1>1, <2>1 DEF UploadAci, Calling, FreshInv, NextIs
  <2>3. Exists("gz") /\ u.payload = target["gz"] BY <1>1, <2>1 DEF UploadAci
  <2>. QED BY <2>2, <2>3 DEF FreshFiles, Files
<1>2. ASSUME TypeOK, ImageInv, FreshInv, [Next]_vars, Running, outcome' = "ok",
             command.name = "build" \/ (command.clean /\ command.name # "try")
      PROVE  target["image"] = [id |-> issued, from |-> "build", content |-> "whole"]
  <2>1. Finish
    BY <1>2 DEF Next, Step, Start, Kill, vars, Sign, Install, Push, Test,
       EnsureBuilt, EnsureSign, EnsureZip, EnsureZipSign, Expand, TestFirst, Clean,
       CleanAndRun, BuildTest, PrepareStage1, PrepareBuilder, RunBuilder, RunLevels,
       TarAci, ExtractManifest, CleanupRun, SignImage, SignZip, SignFile, Gpg, GpgFile,
       Zip, ZipCopy,
       Fetch, FetchTest, RunTest, RunTestFile, EndTests, StopTests, CleanupTest,
       CheckResult, UploadAci, Running
  <2>2. calls = <<>> /\ phase = "none" /\ failed = FALSE BY <1>2, <2>1 DEF Finish, TypeOK
  <2>3. command.name \notin {"clean", "init", "try"}
    BY <1>2 DEF TypeOK, CommandType
  <2>4. Exists("image") BY <1>2, <2>2, <2>3 DEF ImageInv, Building, Pending
  <2>5. FreshFiles BY <1>2, <2>2 DEF FreshInv, NextIs
  <2>6. /\ target["image"].id = issued /\ target["image"].from = "build"
        /\ target["image"].content = "whole"
    BY <2>2, <2>3, <2>4, <2>5 DEF FreshFiles, Verb, Files
  <2>. QED BY <1>2, <2>6 DEF TypeOK, Artifact, Files
<1>. DEFINE Fresh ==
       /\ command.clean => \A u \in remote' \ remote : u.payload.id = issued
       /\ Running /\ outcome' = "ok" /\ (command.name = "build" \/ (command.clean /\ command.name # "try"))
            => target["image"] = [id |-> issued, from |-> "build", content |-> "whole"]
<1>3. TypeOK /\ ImageInv /\ FreshInv /\ [Next]_vars => [Fresh]_vars
  BY <1>1, <1>2
<1>4. TypeOK /\ BuildInv /\ ImageInv /\ FreshInv /\ [Next]_vars => ImageInv' /\ FreshInv'
  BY StepImage, StepFresh
<1>. QED
  BY <1>3, <1>4, InitImage, TypeCorrect, BuildInvCorrect, PTL DEF Spec, FreshAfterClean

\* No command uses what is there before the first one.
LEMMA InitKept == Init => KeptInv
  BY DEF Init, KeptInv, Running

\* CleanAndRun is only ever the next call, and so never left by one that returns.
LEMMA PopKept ==
  ASSUME TypeOK, KeptInv, Running, UsesBuilt, Pops
  PROVE  \A n \in DOMAIN calls' : calls'[n] # "CleanAndRun"
<1>1. ASSUME NEW n \in DOMAIN calls' PROVE calls'[n] # "CleanAndRun"
  <2>1. DOMAIN calls' = 1..(Len(calls) - 1) /\ n + 1 \in DOMAIN calls /\ calls'[n] = calls[n + 1]
    BY Popped DEF Pops
  <2>2. n + 1 # 1 BY <2>1, Positions
  <2>. QED BY <2>1, <2>2 DEF KeptInv
<1>. QED BY <1>1

\* A step that leaves the image alone and calls no builder.
LEMMA QuietKept ==
  ASSUME TypeOK, KeptInv, Running, command' = command, issued' = issued,
         target'["image"] = target["image"],
         Building' => Building, phase' = "tar" /\ at' = "main" => phase = "tar" /\ at = "main",
         \/ Stays /\ (phase # "none" \/ (calls # <<>> /\ Head(calls) # "CleanAndRun"))
         \/ Pops
         \/ calls' = Unwind
  PROVE  KeptInv'
<1>. SUFFICES ASSUME UsesBuilt
              PROVE  /\ ~Pending({"Clean"})'
                     /\ \A n \in DOMAIN calls' : calls'[n] # "CleanAndRun"
  BY DEF KeptInv, UsesBuilt, Exists
<1>1. CASE Stays /\ (phase # "none" \/ (calls # <<>> /\ Head(calls) # "CleanAndRun"))
  <2>1. \A n \in DOMAIN calls : calls[n] # "CleanAndRun"
    BY <1>1, Positions DEF KeptInv
  <2>. QED BY <1>1, <2>1 DEF KeptInv, Stays, Pending
<1>2. CASE Pops
  <2>1. ~Pending({"Clean"})' BY <1>2, PendingStep DEF KeptInv
  <2>. QED BY <1>2, <2>1, PopKept
<1>3. CASE calls' = Unwind
  <2>1. calls' = <<>> BY <1>3, Zenon DEF Unwind, UsesBuilt
  <2>. QED BY <2>1 DEF Pending
<1>. QED BY <1>1, <1>2, <1>3

\* Every step of a command that uses what is there cleans and builds only
\* without an image.
LEMMA StepKept ==
  ASSUME TypeOK, KeptInv, [Next]_vars
  PROVE  KeptInv'
<1>. USE DEF disk, store, session, tests
<1>1. CASE \E c \in Commands : Start(c)
  <2>1. PICK c \in Commands : Start(c) BY <1>1
  <2>2. command' = c /\ phase' = "none" BY <2>1 DEF Start
  <2>3. ASSUME UsesBuilt'
        PROVE  \A n \in DOMAIN calls' : calls'[n] \notin {"Clean", "CleanAndRun"}
    <3>1. PICK op \in {"Sign", "Install", "Push", "Test"} : calls' = <<op>>
      BY <2>1, <2>2, <2>3, StartCalls DEF UsesBuilt
    <3>. QED BY <3>1
  <2>. QED BY <2>2, <2>3 DEF KeptInv, Pending, Building
<1>2. CASE \/ Sign \/ Install \/ Push \/ Test \/ EnsureBuilt \/ EnsureSign
           \/ EnsureZip \/ EnsureZipSign \/ TestFirst
  <2>1. /\ command' = command /\ issued' = issued /\ Running /\ target' = target
        /\ phase = "none" /\ phase' = "none" /\ calls # <<>>
    BY <1>2 DEF Sign, Install, Push, Test, EnsureBuilt, EnsureSign, EnsureZip,
       EnsureZipSign, TestFirst, Expand, Calling
  <2>2. CASE Pops BY <2>1, <2>2, QuietKept DEF Building
  <2>3. ASSUME UsesBuilt, NEW body \in Seq(Calls), calls' = body \o Tail(calls),
               Head(calls) # "CleanAndRun",
               \A i \in 1..Len(body) :
                 /\ body[i] # "Clean"
                 /\ body[i] = "CleanAndRun" => i = 1 /\ ~Exists("image")
        PROVE  /\ ~Pending({"Clean"})'
               /\ \A n \in DOMAIN calls' :
                    calls'[n] = "CleanAndRun" => n = 1 /\ ~Exists("image")
    <3>1. ~Pending({"Clean"})'
      <4>1. Pending({"Clean"})' => Pending({"Clean"}) \/ \E i \in 1..Len(body) : body[i] \in {"Clean"}
        BY <2>1, <2>3, PendingBody
      <4>. QED BY <2>1, <2>3, <4>1 DEF KeptInv
    <3>2. \A n \in DOMAIN calls : calls[n] # "CleanAndRun"
      BY <2>1, <2>3, Positions DEF KeptInv
    <3>3. ASSUME NEW n \in DOMAIN calls', calls'[n] = "CleanAndRun"
          PROVE  n = 1 /\ ~Exists("image")
      <4>1. IF n <= Len(body)
              THEN n \in 1..Len(body) /\ calls'[n] = body[n]
              ELSE n - Len(body) + 1 \in 2..Len(calls) /\ calls'[n] = calls[n - Len(body) + 1]
        BY <2>1, <2>3, Pushed
      <4>2. CASE n <= Len(body) BY <2>3, <3>3, <4>1, <4>2
      <4>3. CASE ~(n <= Len(body))
        <5>1. n - Len(body) + 1 \in DOMAIN calls BY <4>1, <4>3, Positions
        <5>. QED BY <3>2, <3>3, <4>1, <4>3, <5>1
      <4>. QED BY <4>2, <4>3
    <3>. QED BY <3>1, <3>3
  <2>4. CASE Expands
    <3>1. PICK body \in Seq(Calls) : /\ ExpandsTo(Head(calls), body)
                                     /\ calls' = body \o Tail(calls)
      BY <2>4 DEF Expands
    <3>2. \A i \in 1..Len(body) : body[i] # "Clean" BY <3>1, BodyNeeds
    <3>3. ASSUME NEW i \in 1..Len(body), body[i] = "CleanAndRun" PROVE i = 1 /\ ~Exists("image")
      <4>1. Head(calls) = "EnsureBuilt" /\ body = <<"CleanAndRun">>
        BY <3>1, <3>3 DEF ExpandsTo, SignCalls, InstallCalls, PushCalls, TestCalls
      <4>2. EnsureBuilt
        BY <1>2, <4>1 DEF Sign, Install, Push, Test, EnsureSign, EnsureZip, EnsureZipSign,
           TestFirst, Expand, Calling
      <4>3. ~Exists("image")
        <5>. SUFFICES ASSUME Exists("image") PROVE FALSE
          OBVIOUS
        <5>1. calls' = <<>> \o Tail(calls) BY <4>2 DEF EnsureBuilt, Expand
        <5>2. Len(calls') = Len(<<>>) + Len(calls) - 1 /\ Len(calls') = Len(body) + Len(calls) - 1
          BY <2>1, <3>1, <5>1, Pushed, BodiesAreCalls
        <5>3. Len(<<>>) = 0 /\ Len(body) = 1 /\ Len(calls) \in Nat BY <4>1, Positions
        <5>. QED BY <5>2, <5>3
      <4>. QED BY <3>3, <4>1, <4>3
    <3>4. Head(calls) # "CleanAndRun" BY <3>1 DEF ExpandsTo
    <3>. QED BY <2>1, <2>3, <3>1, <3>2, <3>3, <3>4 DEF KeptInv, UsesBuilt, Exists, Building
  <2>5. CASE Tests1st
    <3>1. /\ <<"Test">> \in Seq(Calls)
          /\ \A i \in 1..Len(<<"Test">>) : <<"Test">>[i] \notin {"Clean", "CleanAndRun"}
      BY DEF Calls
    <3>2. calls' = <<"Test">> \o Tail(calls) /\ Head(calls) # "CleanAndRun"
      BY <2>5 DEF Tests1st
    <3>. QED BY <2>1, <2>3, <3>1, <3>2 DEF KeptInv, UsesBuilt, Exists, Building
  <2>. QED BY <1>2, <2>2, <2>4, <2>5, ExpandStep, TestFirstStep
<1>3. CASE Clean
  <2>1. Running /\ calls # <<>> /\ Head(calls) = "Clean" /\ command' = command
    BY <1>3 DEF Clean, Calling
  <2>2. Pending({"Clean"}) BY <2>1, Positions DEF Pending
  <2>. QED BY <2>1, <2>2 DEF KeptInv, UsesBuilt
<1>4. CASE CleanAndRun
  <2>1. /\ Running /\ calls # <<>> /\ Head(calls) = "CleanAndRun" /\ command' = command
        /\ Pops /\ phase' = "stage1"
    BY <1>4 DEF CleanAndRun, Calling, Pops
  <2>2. target'["image"] \in {target["image"], Absent}
    BY <1>4 DEF CleanAndRun, RemoveTarget, Leave, Files
  <2>. SUFFICES ASSUME UsesBuilt
                PROVE  /\ ~Pending({"Clean"})' /\ ~Exists("image")'
                       /\ \A n \in DOMAIN calls' : calls'[n] # "CleanAndRun"
    BY <2>1 DEF KeptInv, UsesBuilt
  <2>3. ~Exists("image")'
    <3>1. 1 \in DOMAIN calls /\ calls[1] = "CleanAndRun" BY <2>1, Positions
    <3>. QED BY <2>1, <2>2, <3>1 DEF KeptInv, Exists
  <2>4. ~Pending({"Clean"})' BY <2>1, PendingStep DEF KeptInv
  <2>. QED BY <2>1, <2>3, <2>4, PopKept
<1>5. CASE \/ BuildTest \/ Fetch \/ FetchTest \/ RunTest \/ CheckResult \/ UploadAci
  <2>1. /\ command' = command /\ issued' = issued /\ Running /\ target' = target
        /\ phase' # "tar" /\ ~Building'
        /\ Pops \/ calls' = Unwind
    BY <1>5 DEF BuildTest, Fetch, FetchTest, RunTest, CheckResult, UploadAci, Calling, Return,
       Fail, Pops, Building, TestTarget
  <2>. QED BY <2>1, QuietKept
<1>6. CASE \/ SignImage \/ SignZip \/ Gpg \/ Zip \/ ZipCopy
  <2>1. /\ command' = command /\ issued' = issued /\ Running /\ phase' \in {"none", "zip", "gpg"}
        /\ \/ Pops \/ calls' = Unwind
           \/ Stays /\ (phase # "none" \/ (calls # <<>> /\ Head(calls) # "CleanAndRun"))
    BY <1>6 DEF SignImage, SignZip, SignFile, Gpg, GpgFile,
       Zip, ZipCopy, Calling, Return, Fail, Builder,
       Advance, Pops, Stays
  <2>2. target'["image"] = target["image"]
    BY <1>6 DEF SignImage, SignZip, SignFile, Gpg, GpgFile,
       Zip, ZipCopy, TypeOK, Files
  <2>. QED BY <2>1, <2>2, QuietKept DEF Building
<1>7. CASE PrepareStage1 \/ PrepareBuilder \/ RunBuilder
  <2>1. /\ command' = command /\ issued' = issued /\ Running /\ target' = target
        /\ phase' # "tar" /\ phase # "none" /\ (Building' => Building)
        /\ Stays \/ calls' = Unwind
    BY <1>7 DEF PrepareStage1, PrepareBuilder, RunBuilder, Builder, Advance, Abort, Fail,
       Stays, Building
  <2>. QED BY <2>1, QuietKept
<1>8. CASE RunLevels
  <2>1. /\ command' = command /\ issued' = issued /\ Running /\ at' = at /\ Stays
        /\ phase = "container" /\ phase' \in {"tar", "cleanup"} /\ ~Building'
    BY <1>8 DEF RunLevels, Builder, Advance, Abort, Stays, Building
  <2>2. CASE target' = target /\ (at # "main" \/ phase' # "tar")
    BY <2>1, <2>2, QuietKept
  <2>3. CASE target' = [target EXCEPT !["image"] =
                          [id |-> issued, from |-> Verb, content |-> "truncated"]]
    <3>1. target'["image"].id = issued BY <2>3 DEF TypeOK, Files
    <3>2. UsesBuilt /\ phase # "none" =>
            ~Pending({"Clean"})' /\ \A n \in DOMAIN calls' : calls'[n] # "CleanAndRun"
      BY <2>1 DEF KeptInv, Stays, Pending
    <3>. QED BY <2>1, <3>1, <3>2 DEF KeptInv, UsesBuilt
  <2>. QED BY <1>8, <2>1, <2>2, <2>3 DEF RunLevels, Advance, Abort
<1>9. CASE TarAci
  <2>1. /\ command' = command /\ issued' = issued /\ Running /\ Stays
        /\ phase = "tar" /\ phase' \notin {"tar", "none"} /\ ~Building'
    BY <1>9 DEF TarAci, Builder, Advance, Abort, Stays, Building
  <2>2. UsesBuilt =>
          ~Pending({"Clean"})' /\ \A n \in DOMAIN calls' : calls'[n] # "CleanAndRun"
    BY <2>1 DEF KeptInv, Stays, Pending
  <2>. QED BY <2>1, <2>2 DEF KeptInv, UsesBuilt
<1>10. CASE \/ ExtractManifest \/ CleanupRun \/ RunTestFile \/ EndTests \/ StopTests
            \/ CleanupTest
  <2>1. /\ command' = command /\ issued' = issued /\ Running /\ target' = target
        /\ phase' # "tar" /\ phase # "none" /\ ~Building'
        /\ Stays \/ calls' = Unwind
    BY <1>10 DEF ExtractManifest, CleanupRun, RunTestFile, EndTests, StopTests, CleanupTest,
       Builder, Advance, Abort, Fail, Stays, Building, machine
  <2>. QED BY <2>1, QuietKept
<1>11. CASE Finish \/ Kill BY <1>11 DEF Finish, Kill, KeptInv, Running
<1>12. CASE UNCHANGED vars
  <2>1. Stays BY <1>12 DEF vars, machine, Stays
  <2>2. Pending({"Clean"})' <=> Pending({"Clean"}) BY <2>1, PendingStep
  <2>. QED BY <1>12, <2>2 DEF vars, machine, KeptInv, UsesBuilt, Exists, Building, Running
<1>. QED BY <1>1, <1>2, <1>3, <1>4, <1>5, <1>6, <1>7, <1>8, <1>9, <1>10, <1>11, <1>12
     DEF Next, Step

\* Without clean, install, push, test and sign never touch the image an earlier
\* command made (AlreadyBuiltKept), whatever fails and wherever they are killed.
THEOREM KeptCorrect == Spec => AlreadyBuiltKept
<1>. USE DEF disk, store, session, tests
<1>1. ASSUME TypeOK, KeptInv, [Next]_vars, Running, UsesBuilt,
             Exists("image"), target["image"].id # issued
      PROVE  target'["image"] = target["image"]
  <2>1. /\ calls # <<>> => Head(calls) \notin {"Clean", "CleanAndRun"}
        /\ ~Building /\ ~(phase = "tar" /\ at = "main")
    BY <1>1, Positions DEF KeptInv, Pending
  <2>2. CASE Kill
    BY <2>1, <2>2 DEF Kill, Cleaning
  <2>3. CASE RunLevels \/ TarAci
    BY <2>1, <2>3 DEF RunLevels, TarAci, Builder, Building
  <2>4. CASE \/ SignImage \/ SignZip \/ Gpg \/ Zip \/ ZipCopy
    BY <1>1, <2>4 DEF SignImage, SignZip, SignFile, Gpg, GpgFile,
       Zip, ZipCopy, TypeOK, Files
  <2>5. CASE Clean \/ CleanAndRun
    BY <2>1, <2>5 DEF Clean, CleanAndRun, Calling
  <2>6. CASE ~(\/ Kill \/ RunLevels \/ TarAci \/ SignImage \/ SignZip \/ Gpg \/ Zip \/ ZipCopy
               \/ Clean \/ CleanAndRun)
    <3>1. target' = target
      BY <1>1, <2>6 DEF Next, Step, Start, vars, Finish, Sign, Install, Push, Test,
         EnsureBuilt, EnsureSign, EnsureZip, EnsureZipSign, Expand, TestFirst,
         BuildTest, PrepareStage1, PrepareBuilder, RunBuilder, ExtractManifest, CleanupRun,
         Fetch, FetchTest, RunTest, RunTestFile, EndTests, StopTests, CleanupTest,
         CheckResult, UploadAci
    <3>. QED BY <3>1
  <2>. QED BY <2>2, <2>3, <2>4, <2>5, <2>6
<1>. DEFINE Keeps ==
       Running /\ ~command.clean /\ command.name \in {"install", "push", "test", "sign"}
         /\ Exists("image") /\ target["image"].id # issued
       => target'["image"] = target["image"]
<1>2. TypeOK /\ KeptInv /\ [Next]_vars => [Keeps]_vars
  BY <1>1 DEF UsesBuilt
<1>3. TypeOK /\ KeptInv /\ [Next]_vars => KeptInv' BY StepKept
<1>. QED BY <1>2, <1>3, InitKept, TypeCorrect, PTL DEF Spec, AlreadyBuiltKept
==============================================================================
