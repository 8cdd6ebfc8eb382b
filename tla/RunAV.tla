------------------------------- MODULE RunAV -------------------------------
(***************************************************************************)
(* runAV and runAV-clamd, the programs that ModSecurity calls on an        *)
(* uploaded file (@inspectFile): run_cmd starts clamscan, collects what it *)
(* writes in a buffer of a fixed size, and main looks for keywords in it   *)
(* and prints "1 ..." (accept) or "0 ..." (refuse).  The two programs      *)
(* differ in the command alone.                                            *)
(*                                                                         *)
(* Text is a sequence of tokens, each of the size of one character: the    *)
(* keywords that main looks for, "x" for any other text.                   *)
(***************************************************************************)
EXTENDS Naturals, Sequences, FiniteSets

CONSTANTS
    Names,          \* file names, as sequences of tokens
    Kinds,          \* what the scanner may say of a file, subset of AllKinds
    MaxReports,     \* bound on the files a scan reports on
    OutputSize,     \* MAX_OUTPUT_SIZE
    LineSize        \* size of the line buffer of run_cmd

AllKinds == {"ok", "found", "error", "empty", "noaccess"}
Tokens == {"x", ":", "_", " FOUND", " ERROR", "OK", "Empty file",
           "Can't access file ", "\n"}

ASSUME RunAVAssumption ==
    /\ Names \subseteq Seq({"x", ":", "_"})
    /\ Kinds \subseteq AllKinds
    /\ MaxReports \in Nat
    /\ OutputSize \in Nat \ {0}
    /\ LineSize \in Nat \ {0, 1}

VARIABLES
    pipe,       \* written by the scanner, not yet read
    scanner,    \* "running", "ended", "killed"; "none": popen failed
    reported,   \* kinds of the complete reports
    written,    \* number of tokens written
    output,     \* the buffer of main, up to its terminator
    size,       \* output_size, what is left of it in run_cmd
    pc,         \* "popen", "read", "parse", "done"
    answer      \* first character printed
vars == <<pipe, scanner, reported, written, output, size, pc, answer>>

TypeOK ==
    /\ pipe \in Seq(Tokens)
    /\ scanner \in {"none", "running", "ended", "killed"}
    /\ reported \in Seq(Kinds)
    /\ written \in Nat
    /\ output \in Seq(Tokens)
    /\ size \in Nat
    /\ pc \in {"popen", "read", "parse", "done"}
    /\ answer \in {"none", "0", "1"}
-----------------------------------------------------------------------------
(* The scanner *)

Text == [ok |-> <<"OK">>, found |-> <<"x", " FOUND">>, error |-> <<"x", " ERROR">>,
         empty |-> <<"Empty file">>, noaccess |-> <<"Can't access file ", "x">>]

\* one line per file: its name, a colon, a blank, the report
Line(name, kind) == name \o <<":", "_">> \o Text[kind] \o <<"\n">>

ScannerReports ==
    /\ scanner = "running"
    /\ Len(reported) < MaxReports
    /\ \E name \in Names, kind \in Kinds :
          /\ pipe' = pipe \o Line(name, kind)
          /\ written' = written + Len(Line(name, kind))
          /\ reported' = Append(reported, kind)
    /\ UNCHANGED <<scanner, output, size, pc, answer>>

ScannerEnds ==
    /\ scanner = "running"
    /\ scanner' = "ended"
    /\ UNCHANGED <<pipe, reported, written, output, size, pc, answer>>

\* it dies in the middle of a line, or before the first (also: it cannot be executed)
ScannerDies ==
    /\ scanner = "running"
    /\ scanner' = "killed"
    /\ \E name \in Names, kind \in Kinds : \E n \in 0..(Len(Line(name, kind)) - 1) :
          /\ pipe' = pipe \o SubSeq(Line(name, kind), 1, n)
          /\ written' = written + n
    /\ UNCHANGED <<reported, output, size, pc, answer>>
-----------------------------------------------------------------------------
(* run_cmd *)

PopenFails ==
    /\ pc = "popen"
    /\ scanner' = "none" /\ answer' = "1" /\ pc' = "done"
    /\ UNCHANGED <<pipe, reported, written, output, size>>

Popen ==
    /\ pc = "popen"
    /\ scanner' = "running" /\ pc' = "read"
    /\ UNCHANGED <<pipe, reported, written, output, size, answer>>

Lesser(a, b) == IF a < b THEN a ELSE b

\* what fgets(line, n, fp) may return: at most n - 1 characters, up to a line's end,
\* fewer only at the end of the file; for n = 1 the empty string, at once
Fgets(n) ==
    {k \in 0..Lesser(n - 1, Len(pipe)) :
        /\ \A i \in 1..(k - 1) : pipe[i] # "\n"
        /\ \/ k = n - 1
           \/ k > 0 /\ pipe[k] = "\n"
           \/ k > 0 /\ k = Len(pipe) /\ scanner # "running"}

\* mutants: the terminator of a line is counted; the buffer's size is not respected
ReadLineCounts ==
    /\ pc = "read"
    /\ \E k \in Fgets(Lesser(size, LineSize)) :
          /\ output' = output \o SubSeq(pipe, 1, k)
          /\ pipe' = SubSeq(pipe, k + 1, Len(pipe))
          /\ size' = IF size > k + 1 THEN size - k - 1 ELSE 1
    /\ UNCHANGED <<scanner, reported, written, pc, answer>>
ReadLineUnbounded ==
    /\ pc = "read"
    /\ \E k \in Fgets(LineSize) :
          /\ output' = output \o SubSeq(pipe, 1, k)
          /\ pipe' = SubSeq(pipe, k + 1, Len(pipe))
          /\ size' = size - k
    /\ UNCHANGED <<scanner, reported, written, pc, answer>>

\* an iteration of the loop; once size = 1 it has no effect and never ends
ReadLine ==
    /\ pc = "read"
    /\ \E k \in Fgets(Lesser(size, LineSize)) :
          /\ output' = output \o SubSeq(pipe, 1, k)
          /\ pipe' = SubSeq(pipe, k + 1, Len(pipe))
          /\ size' = size - k
    /\ UNCHANGED <<scanner, reported, written, pc, answer>>

\* fgets at the end of the file, then pclose, whose status is ignored
EndOfFile ==
    /\ pc = "read" /\ size > 1
    /\ pipe = <<>> /\ scanner # "running"
    /\ pc' = "parse"
    /\ UNCHANGED <<pipe, scanner, reported, written, output, size, answer>>
-----------------------------------------------------------------------------
(* main *)

Has(s, keyword) == \E i \in 1..Len(s) : s[i] = keyword
First(s, keyword) ==
    CHOOSE i \in 1..Len(s) : s[i] = keyword /\ \A j \in 1..(i - 1) : s[j] # keyword

\* mutant: OK is looked for before FOUND and ERROR
VerdictsOKFirst(s) ==
    IF s = <<>> THEN {"1"}
    ELSE IF ~Has(s, ":") THEN {"0"}
    ELSE IF First(s, ":") = Len(s) THEN {"0", "1"}
    ELSE LET rest == SubSeq(s, First(s, ":") + 2, Len(s)) IN
         IF Has(rest, "OK") \/ Has(rest, "Empty file") THEN {"1"} ELSE {"0"}

\* the answers main may give to an output; colon + 2 skips the blank, and points behind
\* the terminator, into uninitialized memory, when the colon is the last character
Verdicts(s) ==
    IF s = <<>> THEN {"1"}
    ELSE IF ~Has(s, ":") THEN {"0"}
    ELSE IF First(s, ":") = Len(s) THEN {"0", "1"}
    ELSE LET rest == SubSeq(s, First(s, ":") + 2, Len(s)) IN
         IF Has(rest, " FOUND") \/ Has(rest, " ERROR") THEN {"0"}
         ELSE IF Has(rest, "OK") \/ Has(rest, "Empty file") THEN {"1"}
         ELSE {"0"}

Answer ==
    /\ pc = "parse"
    /\ answer' \in Verdicts(output)
    /\ pc' = "done"
    /\ UNCHANGED <<pipe, scanner, reported, written, output, size>>
-----------------------------------------------------------------------------
Init ==
    /\ pipe = <<>>
    /\ scanner = "none"
    /\ reported = <<>>
    /\ written = 0
    /\ output = <<>>
    /\ size = OutputSize
    /\ pc = "popen"
    /\ answer = "none"

Scanner == ScannerReports \/ ScannerEnds \/ ScannerDies
Main == PopenFails \/ Popen \/ ReadLine \/ EndOfFile \/ Answer
Next == Scanner \/ Main

\* the scanner ends, one way or another; main is not suspended for ever
Fairness == WF_vars(Scanner) /\ WF_vars(Main)
Spec == Init /\ [][Next]_vars /\ Fairness
-----------------------------------------------------------------------------
(* Properties *)

\* run_cmd never writes more than output_size - 1 characters and a terminator into the
\* buffer of main, however long the output and the lines are.
BufferFits == Len(output) < OutputSize

\* The inductive form: what is left is what was not used, and never 0 (so that the loop
\* of run_cmd that would drain the pipe, on !output_size, is never reached).
Accounting == Len(output) + size = OutputSize /\ size >= 1

\* Main answers for what the scanner said: no file is accepted when one of the reports,
\* on whatever line, was FOUND or ERROR, also if the scanner died later; and if all
\* reports are OK or "Empty file" and the scanner ended, the file is accepted.
AnswerFollowsReports ==
    pc = "done" /\ scanner # "none" =>
        LET kinds == {reported[i] : i \in 1..Len(reported)} IN
        /\ kinds \cap {"found", "error"} # {} => answer = "0"
        /\ kinds \subseteq {"ok", "empty"} /\ scanner = "ended" => answer = "1"

\* Main answers whenever the scanner wrote less than the buffer holds.  (With one
\* character more the loop of run_cmd turns for ever on fgets(line, 1, fp).)
Answers == [](scanner \in {"ended", "killed"} /\ written < OutputSize - 1
                => <>(pc = "done"))
=============================================================================
