------------------------------- MODULE MCAci -------------------------------
(* Command lines with which TLC checks Aci. *)
EXTENDS Aci

Plain(n) == [name |-> n, clean |-> FALSE, test |-> FALSE, noTestFail |-> FALSE,
             keep |-> FALSE, sign |-> TRUE]

Cleaned(n)  == [Plain(n) EXCEPT !.clean = TRUE]
Tested(n)   == [Plain(n) EXCEPT !.test = TRUE]
Unsigned(n) == [Plain(n) EXCEPT !.sign = FALSE]

\* Every verb, signed, and the ones whose flags change the calls.
AllCommands == {Plain(n) : n \in Names}
  \cup {Cleaned("push"), Tested("push"), Tested("install"), Unsigned("push"),
        Unsigned("sign"), Cleaned("install"), Cleaned("test"), [Plain("test") EXCEPT !.keep = TRUE],
        [Tested("install") EXCEPT !.noTestFail = TRUE]}

\* The commands that read what an earlier, perhaps interrupted one left, and two
\* that test on a clean target.
CrashCommands == {Plain("push"), Plain("sign"), Plain("install"), Plain("try"),
                  Plain("clean"), Unsigned("push"), Cleaned("test"),
                  [Cleaned("push") EXCEPT !.test = TRUE]}

TryPush  == {Plain("try"), Plain("push")}
TestOnly == {Plain("test")}
============================================================================
