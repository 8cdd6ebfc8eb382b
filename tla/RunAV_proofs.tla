---------------------------- MODULE RunAV_proofs ----------------------------
(* Proofs about RunAV: the buffer of main is never overrun, and main answers for what the *)
(* scanner reported, whatever the names, the sizes and the cuts of the reads.             *)
EXTENDS RunAV, SequenceTheorems, WellFoundedInduction, TLAPS

\* the constants as numbers
LEMMA Sizes == OutputSize \in Nat /\ OutputSize >= 1 /\ LineSize \in Nat /\ LineSize >= 2
<1>1. OutputSize \in Nat \ {0} /\ LineSize \in Nat \ {0, 1}
  BY RunAVAssumption, Zenon
<1> QED BY <1>1

\* what the scanner writes is a sequence of tokens
LEMMA LineType ==
    ASSUME NEW name \in Names, NEW kind \in Kinds
    PROVE  Line(name, kind) \in Seq(Tokens)
<1>1. name \in Seq(Tokens)
  <2>1. Names \subseteq Seq({"x", ":", "_"}) /\ {"x", ":", "_"} \subseteq Tokens
    BY RunAVAssumption DEF Tokens
  <2> QED BY <2>1, SeqMonotonic
<1>2. <<":", "_">> \in Seq(Tokens) /\ <<"\n">> \in Seq(Tokens)
  BY DEF Tokens
<1>3. Text[kind] \in Seq(Tokens)
  <2>1. kind \in AllKinds
    BY RunAVAssumption
  <2>2. /\ <<"OK">> \in Seq(Tokens)
        /\ <<"x", " FOUND">> \in Seq(Tokens)
        /\ <<"x", " ERROR">> \in Seq(Tokens)
        /\ <<"Empty file">> \in Seq(Tokens)
        /\ <<"Can't access file ", "x">> \in Seq(Tokens)
    BY DEF Tokens
  <2>3. CASE kind = "ok"
    BY <2>2, <2>3 DEF Text
  <2>4. CASE kind = "found"
    BY <2>2, <2>4 DEF Text
  <2>5. CASE kind = "error"
    BY <2>2, <2>5 DEF Text
  <2>6. CASE kind = "empty"
    BY <2>2, <2>6 DEF Text
  <2>7. CASE kind = "noaccess"
    BY <2>2, <2>7 DEF Text
  <2> QED BY <2>1, <2>3, <2>4, <2>5, <2>6, <2>7 DEF AllKinds
<1>4. name \o <<":", "_">> \in Seq(Tokens)
  BY <1>1, <1>2, ConcatProperties
<1>5. name \o <<":", "_">> \o Text[kind] \in Seq(Tokens)
  BY <1>3, <1>4, ConcatProperties
<1> QED
  BY <1>2, <1>5, ConcatProperties DEF Line

\* cutting a sequence in two
LEMMA Cut ==
    ASSUME NEW s \in Seq(Tokens), NEW k \in 0..Len(s)
    PROVE  /\ SubSeq(s, 1, k) \in Seq(Tokens) /\ Len(SubSeq(s, 1, k)) = k
           /\ SubSeq(s, k + 1, Len(s)) \in Seq(Tokens)
<1>1. \A i \in 1..Len(s) : s[i] \in Tokens
  OBVIOUS
<1>2. SubSeq(s, 1, k) \in Seq(Tokens) /\ Len(SubSeq(s, 1, k)) = k
  BY <1>1, SMT
<1>3. SubSeq(s, k + 1, Len(s)) \in Seq(Tokens)
  BY <1>1, SMT
<1> QED BY <1>2, <1>3

IInv == TypeOK /\ Accounting

\* The whole buffer is left at the start.
LEMMA InitInv == Init => IInv
<1> SUFFICES ASSUME Init PROVE IInv
  OBVIOUS
<1>1. <<>> \in Seq(Tokens) /\ <<>> \in Seq(Kinds) /\ Len(<<>>) = 0
  OBVIOUS
<1>2. TypeOK
  BY <1>1, Sizes DEF Init, TypeOK
<1>3. Accounting
  BY <1>1, Sizes DEF Init, Accounting
<1> QED BY <1>2, <1>3 DEF IInv

\* What a read takes from size it adds to output.
LEMMA StepInv == IInv /\ [Next]_vars => IInv'
<1> SUFFICES ASSUME IInv, [Next]_vars PROVE IInv'
  OBVIOUS
<1> USE DEF IInv, TypeOK, Accounting
<1>1. CASE ScannerReports
  BY <1>1, LineType DEF ScannerReports
<1>2. CASE ScannerEnds
  BY <1>2 DEF ScannerEnds
<1>3. CASE ScannerDies
  <2>0. PICK name \in Names, kind \in Kinds : \E n \in 0..(Len(Line(name, kind)) - 1) :
            /\ pipe' = pipe \o SubSeq(Line(name, kind), 1, n)
            /\ written' = written + n
    BY <1>3 DEF ScannerDies
  <2>1. PICK n \in 0..(Len(Line(name, kind)) - 1) :
            /\ pipe' = pipe \o SubSeq(Line(name, kind), 1, n)
            /\ written' = written + n
    BY <2>0
  <2>2. Line(name, kind) \in Seq(Tokens) /\ n \in 0..Len(Line(name, kind))
    BY <2>1, LineType
  <2>3. SubSeq(Line(name, kind), 1, n) \in Seq(Tokens)
    BY <2>2, Cut
  <2>4. pipe' \in Seq(Tokens)
    BY <2>1, <2>3, ConcatProperties
  <2>5. written' \in Nat
    BY <2>1, <2>2, LenProperties
  <2> QED BY <1>3, <2>4, <2>5 DEF ScannerDies
<1>4. CASE PopenFails
  BY <1>4 DEF PopenFails
<1>5. CASE Popen
  BY <1>5 DEF Popen
<1>6. CASE ReadLine
  <2>1. PICK k \in Fgets(Lesser(size, LineSize)) :
            /\ output' = output \o SubSeq(pipe, 1, k)
            /\ pipe' = SubSeq(pipe, k + 1, Len(pipe))
            /\ size' = size - k
    BY <1>6 DEF ReadLine
  <2>2. k \in 0..Len(pipe) /\ k <= size - 1
    <3>1. Lesser(size, LineSize) \in Nat /\ Lesser(size, LineSize) <= size
      BY Sizes DEF Lesser
    <3>2. k \in 0..Lesser(Lesser(size, LineSize) - 1, Len(pipe))
      BY <2>1 DEF Fgets
    <3>3. Len(pipe) \in Nat
      BY LenProperties
    <3> QED BY <3>1, <3>2, <3>3 DEF Lesser
  <2>3. /\ SubSeq(pipe, 1, k) \in Seq(Tokens) /\ Len(SubSeq(pipe, 1, k)) = k
        /\ SubSeq(pipe, k + 1, Len(pipe)) \in Seq(Tokens)
    BY <2>2, Cut
  <2>4. output' \in Seq(Tokens) /\ Len(output') = Len(output) + k
    BY <2>1, <2>3, ConcatProperties
  <2>5. size' \in Nat /\ size' >= 1 /\ Len(output') + size' = OutputSize
    <3>1. Len(output) \in Nat /\ OutputSize \in Nat
      BY LenProperties, Sizes
    <3>2. k \in Nat /\ k <= size - 1
      BY <2>2
    <3>3. size' = size - k /\ Len(output') = Len(output) + k
      BY <2>1, <2>4
    <3>4. size \in Nat /\ Len(output) + size = OutputSize
      OBVIOUS
    <3> HIDE DEF IInv, TypeOK, Accounting
    <3> QED BY <3>1, <3>2, <3>3, <3>4
  <2> QED BY <1>6, <2>1, <2>3, <2>4, <2>5 DEF ReadLine
<1>7. CASE EndOfFile
  BY <1>7 DEF EndOfFile
<1>8. CASE Answer
  <2>1. Verdicts(output) \subseteq {"0", "1"}
    BY DEF Verdicts
  <2> QED BY <1>8, <2>1 DEF Answer
<1>9. CASE UNCHANGED vars
  BY <1>9 DEF vars
<1> QED
  BY <1>1, <1>2, <1>3, <1>4, <1>5, <1>6, <1>7, <1>8, <1>9 DEF Next, Scanner, Main

\* run_cmd keeps account of its buffer, for every output, buffer size and line size: what is
\* used and what is left add up, and at least the room of the terminator is left.
THEOREM RunCmdAccounts == Spec => []Accounting
<1>1. IInv => Accounting
  BY DEF IInv
<1> QED BY InitInv, StepInv, <1>1, PTL DEF Spec

\* Hence output and its terminator always fit the buffer of main.
THEOREM OutputFits == Spec => []BufferFits
<1>1. IInv => BufferFits
  <2> SUFFICES ASSUME IInv PROVE BufferFits
    OBVIOUS
  <2>1. Len(output) \in Nat /\ size \in Nat /\ OutputSize \in Nat
    BY Sizes, LenProperties DEF IInv, TypeOK
  <2> QED BY <2>1 DEF IInv, Accounting, BufferFits
<1> QED BY InitInv, StepInv, <1>1, PTL DEF Spec

\* Types: the buffer, the pipe and the reports hold only what the scanner can write.
THEOREM ScanTyped == Spec => []TypeOK
<1>1. IInv => TypeOK
  BY DEF IInv
<1> QED BY InitInv, StepInv, <1>1, PTL DEF Spec
-----------------------------------------------------------------------------
(***************************************************************************)
(* What main answers.  The buffer of main and what is still in the pipe    *)
(* are together what the scanner has written: the reads of run_cmd, which  *)
(* cut it anywhere, change nothing of it.                                  *)
(***************************************************************************)
All == output \o pipe

\* the keyword of a report
MarkOf == [ok |-> "OK", found |-> " FOUND", error |-> " ERROR", empty |-> "Empty file",
           noaccess |-> "Can't access file "]
Bad == {" FOUND", " ERROR"}

\* a keyword stands in s behind a colon and a blank
Behind(s, keyword) ==
    \E c, i \in 1..Len(s) : s[c] = ":" /\ i >= c + 2 /\ s[i] = keyword

Marked == \A r \in 1..Len(reported) : Behind(All, MarkOf[reported[r]])

\* a scanner that was not killed has written complete reports only
Honest ==
    scanner # "killed" =>
        /\ All # <<>> => reported # <<>>
        /\ \A i \in 1..Len(All) : All[i] \in Bad =>
               \E r \in 1..Len(reported) : reported[r] \in {"found", "error"}

Control ==
    /\ pc = "popen" => scanner = "none" /\ output = <<>> /\ pipe = <<>> /\ reported = <<>>
    /\ pc = "read" => scanner # "none"
    /\ pc = "parse" => pipe = <<>> /\ scanner \in {"ended", "killed"}
    /\ pc = "done" => scanner # "running"

AnswerInv == TypeOK /\ Accounting /\ Marked /\ Honest /\ Control /\ AnswerFollowsReports

\* First finds an occurrence, and none before another one.
LEMMA FirstIs ==
    ASSUME NEW s, Len(s) \in Nat, NEW k, NEW c \in 1..Len(s), s[c] = k
    PROVE  First(s, k) \in 1..Len(s) /\ s[First(s, k)] = k /\ First(s, k) <= c
<1> DEFINE R == {p \in Nat \X Nat : p[1] < p[2]}
           T == {i \in 1..Len(s) : s[i] = k}
<1>1. IsWellFoundedOn(R, Nat)
  BY NatLessThanWellFounded DEF OpToRel
<1>2. c \in T /\ T \in SUBSET Nat
  OBVIOUS
<1> HIDE DEF R, T
<1>3. PICK x \in T : \A y \in T : <<y, x>> \notin R
  BY <1>1, <1>2, WFMin
<1>4. ASSUME NEW y \in T PROVE ~(y < x)
  <2>1. x \in Nat /\ y \in Nat /\ <<y, x>> \in Nat \X Nat
    BY <1>2
  <2> QED BY <1>3, <2>1 DEF R
<1>5. x \in 1..Len(s) /\ s[x] = k /\ \A j \in 1..(x - 1) : s[j] # k
  <2>1. x \in 1..Len(s) /\ s[x] = k
    BY DEF T
  <2>2. ASSUME NEW j \in 1..(x - 1), s[j] = k PROVE FALSE
    <3>1. j \in T /\ j < x
      BY <2>1, <2>2 DEF T
    <3> QED BY <1>4, <3>1
  <2> QED BY <2>1, <2>2
<1>6. /\ First(s, k) \in 1..Len(s) /\ s[First(s, k)] = k
      /\ \A j \in 1..(First(s, k) - 1) : s[j] # k
  BY <1>5 DEF First
<1> QED BY <1>6

\* the end of a sequence, from a on
LEMMA Suffix ==
    ASSUME NEW s \in Seq(Tokens), NEW a \in 1..Len(s)
    PROVE  /\ Len(SubSeq(s, a, Len(s))) = Len(s) - a + 1
           /\ \A j \in 1..(Len(s) - a + 1) : SubSeq(s, a, Len(s))[j] = s[a + j - 1]
<1>1. Len(s) \in Nat /\ a \in Int /\ Len(s) \in Int /\ a <= Len(s)
  BY LenProperties
<1>2. \A i \in a..Len(s) : s[i] \in Tokens
  BY <1>1, ElementOfSeq
<1> QED BY <1>1, <1>2, SubSeqProperties

\* it holds nothing that the sequence does not hold
LEMMA RestIsPart ==
    ASSUME NEW s \in Seq(Tokens), NEW a \in Nat \ {0}
    PROVE  \A j \in 1..Len(SubSeq(s, a, Len(s))) :
               \E i \in 1..Len(s) : SubSeq(s, a, Len(s))[j] = s[i]
<1> DEFINE rest == SubSeq(s, a, Len(s))
<1>1. Len(s) \in Nat
  BY LenProperties
<1>2. CASE a <= Len(s)
  <2>1. a \in 1..Len(s)
    BY <1>1, <1>2
  <2>2. /\ Len(rest) = Len(s) - a + 1
        /\ \A j \in 1..(Len(s) - a + 1) : rest[j] = s[a + j - 1]
    BY <2>1, Suffix
  <2> HIDE DEF rest
  <2>3. \A j \in 1..Len(rest) : a + j - 1 \in 1..Len(s)
    BY <1>1, <2>1, <2>2
  <2>4. \A j \in 1..Len(rest) : \E i \in 1..Len(s) : rest[j] = s[i]
    BY <2>2, <2>3
  <2> QED BY <2>4 DEF rest
<1>3. CASE a > Len(s)
  <2>1. rest = <<>>
    BY <1>1, <1>3, SubSeqEmpty
  <2> HIDE DEF rest
  <2>2. Len(rest) = 0
    BY <2>1, EmptySeq
  <2>3. \A j \in 1..Len(rest) : \E i \in 1..Len(s) : rest[j] = s[i]
    BY <2>2
  <2> QED BY <2>3 DEF rest
<1> QED BY <1>1, <1>2, <1>3

\* What main looks at: everything behind the first colon and its blank.
LEMMA RestHas ==
    ASSUME NEW s \in Seq(Tokens), NEW keyword, Behind(s, keyword)
    PROVE  /\ s # <<>> /\ Has(s, ":") /\ First(s, ":") # Len(s)
           /\ Has(SubSeq(s, First(s, ":") + 2, Len(s)), keyword)
<1>1. PICK c, i \in 1..Len(s) : s[c] = ":" /\ i >= c + 2 /\ s[i] = keyword
  BY DEF Behind
<1> DEFINE f == First(s, ":")
           rest == SubSeq(s, f + 2, Len(s))
<1>2. Len(s) \in Nat
  BY LenProperties
<1>3. f \in 1..Len(s) /\ f <= c
  BY <1>1, <1>2, FirstIs
<1> HIDE DEF f
<1>4. f + 2 \in 1..Len(s) /\ i - f - 1 \in Nat \ {0}
  BY <1>1, <1>2, <1>3
<1>5. Len(rest) = Len(s) - f - 1 /\ \A j \in 1..Len(rest) : rest[j] = s[f + 1 + j]
  <2>1. /\ Len(rest) = Len(s) - (f + 2) + 1
        /\ \A j \in 1..(Len(s) - (f + 2) + 1) : rest[j] = s[(f + 2) + j - 1]
    BY <1>4, Suffix
  <2>2. Len(s) - (f + 2) + 1 = Len(s) - f - 1 /\ \A j \in Nat : (f + 2) + j - 1 = f + 1 + j
    BY <1>2, <1>3
  <2> HIDE DEF rest
  <2> QED BY <1>2, <1>3, <2>1, <2>2
<1> HIDE DEF rest
<1>6. i - f - 1 \in 1..Len(rest) /\ rest[i - f - 1] = keyword
  <2>1. i - f - 1 \in 1..Len(rest) /\ f + 1 + (i - f - 1) = i
    BY <1>1, <1>2, <1>3, <1>4, <1>5
  <2> QED BY <1>1, <1>5, <2>1
<1>7. Has(rest, keyword)
  BY <1>6 DEF Has
<1>8. Len(s) # 0 /\ Has(s, ":") /\ f # Len(s)
  BY <1>1, <1>2, <1>3 DEF Has
<1>9. s # <<>>
  BY <1>8, EmptySeq
<1> QED BY <1>7, <1>8, <1>9 DEF f, rest

\* A keyword of a refusal behind a colon and a blank: main refuses.
LEMMA Refused ==
    ASSUME NEW s \in Seq(Tokens), NEW keyword \in Bad, Behind(s, keyword)
    PROVE  Verdicts(s) = {"0"}
<1>1. /\ s # <<>> /\ Has(s, ":") /\ First(s, ":") # Len(s)
      /\ Has(SubSeq(s, First(s, ":") + 2, Len(s)), keyword)
  BY RestHas
<1> QED BY <1>1 DEF Verdicts, Bad

\* the place behind the colon's blank
LEMMA BehindBlank ==
    ASSUME NEW n \in Nat, NEW f \in 1..n
    PROVE  f + 2 \in Nat \ {0}
OBVIOUS

\* A keyword of acceptance there and no keyword of a refusal anywhere: main accepts.
LEMMA Accepted ==
    ASSUME NEW s \in Seq(Tokens), NEW keyword \in {"OK", "Empty file"}, Behind(s, keyword),
           \A i \in 1..Len(s) : s[i] \notin Bad
    PROVE  Verdicts(s) = {"1"}
<1> DEFINE f == First(s, ":")
           rest == SubSeq(s, f + 2, Len(s))
<1>1. s # <<>> /\ Has(s, ":") /\ f # Len(s) /\ Has(rest, keyword)
  BY RestHas
<1>2. Len(s) \in Nat /\ f \in 1..Len(s)
  <2>1. Len(s) \in Nat
    BY LenProperties
  <2>2. PICK c \in 1..Len(s) : s[c] = ":"
    BY <1>1 DEF Has
  <2> QED BY <2>1, <2>2, FirstIs
<1> HIDE DEF f
<1>3. \A j \in 1..Len(rest) : rest[j] \notin Bad
  <2>1. f + 2 \in Nat \ {0}
    BY <1>2, BehindBlank
  <2>2. \A j \in 1..Len(rest) : \E i \in 1..Len(s) : rest[j] = s[i]
    BY <2>1, RestIsPart
  <2> HIDE DEF rest
  <2> QED BY <2>2
<1>4. ~Has(rest, " FOUND") /\ ~Has(rest, " ERROR")
  BY <1>3 DEF Has, Bad
<1>5. Has(rest, "OK") \/ Has(rest, "Empty file")
  BY <1>1
<1> HIDE DEF rest
<1> QED BY <1>1, <1>4, <1>5 DEF Verdicts, f, rest

\* sequences of one and of two tokens
LEMMA Single == ASSUME NEW a \in Tokens
                PROVE  <<a>> \in Seq(Tokens) /\ Len(<<a>>) = 1 /\ <<a>>[1] = a
OBVIOUS

\* Two tokens are a sequence.
LEMMA Pair == ASSUME NEW a \in Tokens, NEW b \in Tokens
              PROVE  /\ <<a, b>> \in Seq(Tokens) /\ Len(<<a, b>>) = 2
                     /\ <<a, b>>[1] = a /\ <<a, b>>[2] = b
OBVIOUS

\* The texts of the reports: each has its keyword, and only refusals have a bad one.
LEMMA TextParts ==
    ASSUME NEW kind \in AllKinds
    PROVE  /\ Text[kind] \in Seq(Tokens) /\ Len(Text[kind]) \in {1, 2}
           /\ \E m \in 1..Len(Text[kind]) : Text[kind][m] = MarkOf[kind]
           /\ \A j \in 1..Len(Text[kind]) :
                  Text[kind][j] \in Bad => kind \in {"found", "error"}
<1> DEFINE t == Text[kind]
           k == MarkOf[kind]
<1>1. CASE kind = "ok"
  <2>1. t = <<"OK">>
    BY <1>1 DEF Text
  <2>0. k = "OK"
    BY <1>1 DEF MarkOf
  <2>2. "OK" \in Tokens
    BY DEF Tokens
  <2>3. <<"OK">> \in Seq(Tokens) /\ Len(<<"OK">>) = 1
    BY <2>2, Single
  <2>4. <<"OK">>[1] = "OK"
    BY <2>2, Single
  <2> HIDE DEF t, k
  <2>5. t \in Seq(Tokens) /\ Len(t) = 1 /\ t[1] = "OK"
    BY <2>1, <2>3, <2>4
  <2>8. Len(t) = 1
    BY <2>5
  <2>6. 1 \in 1..Len(t) /\ t[1] = k
    <3>1. t[1] = k
      BY <2>0, <2>5
    <3>2. 1 \in 1..Len(t)
      BY <2>8
    <3> QED BY <3>1, <3>2
  <2>7. \A j \in 1..Len(t) : t[j] \in Bad => kind \in {"found", "error"}
    <3>1. 1..Len(t) = {1}
      BY <2>8
    <3>2. \A j \in {1} : t[j] \notin Bad
      BY <2>5 DEF Bad
    <3> QED BY <3>1, <3>2
  <2> QED BY <2>5, <2>6, <2>7 DEF t, k
<1>2. CASE kind = "found"
  <2>1. t = <<"x", " FOUND">>
    BY <1>2 DEF Text
  <2>0. k = " FOUND"
    BY <1>2 DEF MarkOf
  <2>2. "x" \in Tokens /\ " FOUND" \in Tokens
    BY DEF Tokens
  <2>3. <<"x", " FOUND">> \in Seq(Tokens) /\ Len(<<"x", " FOUND">>) = 2
    BY <2>2, Pair
  <2>4. <<"x", " FOUND">>[1] = "x" /\ <<"x", " FOUND">>[2] = " FOUND"
    BY <2>2, Pair
  <2> HIDE DEF t, k
  <2>5. t \in Seq(Tokens) /\ Len(t) = 2 /\ t[1] = "x" /\ t[2] = " FOUND"
    BY <2>1, <2>3, <2>4
  <2>8. Len(t) = 2
    BY <2>5
  <2>6. 2 \in 1..Len(t) /\ t[2] = k
    <3>1. t[2] = k
      BY <2>0, <2>5
    <3>2. 2 \in 1..Len(t)
      BY <2>8
    <3> QED BY <3>1, <3>2
  <2>7. \A j \in 1..Len(t) : t[j] \in Bad => kind \in {"found", "error"}
    BY <1>2, Zenon
  <2> QED BY <2>5, <2>6, <2>7 DEF t, k
<1>3. CASE kind = "error"
  <2>1. t = <<"x", " ERROR">>
    BY <1>3 DEF Text
  <2>0. k = " ERROR"
    BY <1>3 DEF MarkOf
  <2>2. "x" \in Tokens /\ " ERROR" \in Tokens
    BY DEF Tokens
  <2>3. <<"x", " ERROR">> \in Seq(Tokens) /\ Len(<<"x", " ERROR">>) = 2
    BY <2>2, Pair
  <2>4. <<"x", " ERROR">>[1] = "x" /\ <<"x", " ERROR">>[2] = " ERROR"
    BY <2>2, Pair
  <2> HIDE DEF t, k
  <2>5. t \in Seq(Tokens) /\ Len(t) = 2 /\ t[1] = "x" /\ t[2] = " ERROR"
    BY <2>1, <2>3, <2>4
  <2>8. Len(t) = 2
    BY <2>5
  <2>6. 2 \in 1..Len(t) /\ t[2] = k
    <3>1. t[2] = k
      BY <2>0, <2>5
    <3>2. 2 \in 1..Len(t)
      BY <2>8
    <3> QED BY <3>1, <3>2
  <2>7. \A j \in 1..Len(t) : t[j] \in Bad => kind \in {"found", "error"}
    BY <1>3, Zenon
  <2> QED BY <2>5, <2>6, <2>7 DEF t, k
<1>4. CASE kind = "empty"
  <2>1. t = <<"Empty file">>
    BY <1>4 DEF Text
  <2>0. k = "Empty file"
    BY <1>4 DEF MarkOf
  <2>2. "Empty file" \in Tokens
    BY DEF Tokens
  <2>3. <<"Empty file">> \in Seq(Tokens) /\ Len(<<"Empty file">>) = 1
    BY <2>2, Single
  <2>4. <<"Empty file">>[1] = "Empty file"
    BY <2>2, Single
  <2> HIDE DEF t, k
  <2>5. t \in Seq(Tokens) /\ Len(t) = 1 /\ t[1] = "Empty file"
    BY <2>1, <2>3, <2>4
  <2>8. Len(t) = 1
    BY <2>5
  <2>6. 1 \in 1..Len(t) /\ t[1] = k
    <3>1. t[1] = k
      BY <2>0, <2>5
    <3>2. 1 \in 1..Len(t)
      BY <2>8
    <3> QED BY <3>1, <3>2
  <2>7. \A j \in 1..Len(t) : t[j] \in Bad => kind \in {"found", "error"}
    <3>1. 1..Len(t) = {1}
      BY <2>8
    <3>2. \A j \in {1} : t[j] \notin Bad
      BY <2>5 DEF Bad
    <3> QED BY <3>1, <3>2
  <2> QED BY <2>5, <2>6, <2>7 DEF t, k
<1>5. CASE kind = "noaccess"
  <2>1. t = <<"Can't access file ", "x">>
    BY <1>5 DEF Text
  <2>0. k = "Can't access file "
    BY <1>5 DEF MarkOf
  <2>2. "Can't access file " \in Tokens /\ "x" \in Tokens
    BY DEF Tokens
  <2>3. <<"Can't access file ", "x">> \in Seq(Tokens) /\ Len(<<"Can't access file ", "x">>) = 2
    BY <2>2, Pair
  <2>4. /\ <<"Can't access file ", "x">>[1] = "Can't access file "
        /\ <<"Can't access file ", "x">>[2] = "x"
    BY <2>2, Pair
  <2> HIDE DEF t, k
  <2>5. t \in Seq(Tokens) /\ Len(t) = 2 /\ t[1] = "Can't access file " /\ t[2] = "x"
    BY <2>1, <2>3, <2>4
  <2>8. Len(t) = 2
    BY <2>5
  <2>6. 1 \in 1..Len(t) /\ t[1] = k
    <3>1. t[1] = k
      BY <2>0, <2>5
    <3>2. 1 \in 1..Len(t)
      BY <2>8
    <3> QED BY <3>1, <3>2
  <2>7. \A j \in 1..Len(t) : t[j] \in Bad => kind \in {"found", "error"}
    <3>1. 1..Len(t) = {1, 2}
      BY <2>8
    <3>2. \A j \in {1, 2} : t[j] \notin Bad
      BY <2>5 DEF Bad
    <3> QED BY <3>1, <3>2
  <2> QED BY <2>5, <2>6, <2>7 DEF t, k
<1> QED BY <1>1, <1>2, <1>3, <1>4, <1>5 DEF AllKinds

\* A line of the scanner: the keyword of its report stands behind the colon and the blank,
\* and no name of a file can hold a bad one.
LEMMA LineParts ==
    ASSUME NEW name \in Names, NEW kind \in Kinds
    PROVE  /\ Behind(Line(name, kind), MarkOf[kind])
           /\ \A i \in 1..Len(Line(name, kind)) :
                  Line(name, kind)[i] \in Bad => kind \in {"found", "error"}
<1> DEFINE n == Len(name)
           t == Text[kind]
           k == Len(t)
           c == <<":", "_">>
           e == <<"\n">>
           p == name \o c
           q == p \o t
           l == q \o e
<1>1. name \in Seq({"x", ":", "_"}) /\ kind \in AllKinds
  BY RunAVAssumption, Zenon
<1>2. name \in Seq(Tokens) /\ n \in Nat
  <2>1. {"x", ":", "_"} \subseteq Tokens
    BY DEF Tokens
  <2> QED BY <1>1, <2>1, SeqMonotonic, LenProperties
<1>3. \A i \in 1..n : name[i] \notin Bad
  <2>1. ASSUME NEW i \in 1..n PROVE name[i] \notin Bad
    <3>1. name[i] \in {"x", ":", "_"}
      BY <1>1, ElementOfSeq
    <3> QED BY <3>1 DEF Bad
  <2> QED BY <2>1
<1>4. /\ t \in Seq(Tokens) /\ k \in {1, 2}
      /\ \E m \in 1..k : t[m] = MarkOf[kind]
      /\ \A j \in 1..k : t[j] \in Bad => kind \in {"found", "error"}
  BY <1>1, TextParts
<1>5. Line(name, kind) = l
  BY DEF Line
<1>6. c \in Seq(Tokens) /\ Len(c) = 2 /\ c[1] = ":" /\ c[2] = "_"
  <2>1. ":" \in Tokens /\ "_" \in Tokens
    BY DEF Tokens
  <2> QED BY <2>1, Pair
<1>7. e \in Seq(Tokens) /\ Len(e) = 1 /\ e[1] = "\n"
  <2>1. "\n" \in Tokens
    BY DEF Tokens
  <2> QED BY <2>1, Single
<1> HIDE DEF t
<1> HIDE DEF c, e
<1>8. /\ Len(l) = n + k + 3
      /\ \A i \in 1..n : l[i] = name[i]
      /\ l[n + 1] = ":" /\ l[n + 2] = "_"
      /\ \A m \in 1..k : l[n + 2 + m] = t[m]
      /\ l[n + k + 3] = "\n"
  <2>0. n \in Nat /\ k \in Nat
    BY <1>2, <1>4, LenProperties
  <2>1. Len(c) = 2 /\ Len(e) = 1
    BY <1>6, <1>7
  <2>2. c \in Seq(Tokens) /\ e \in Seq(Tokens) /\ t \in Seq(Tokens)
    BY <1>4, <1>6, <1>7
  <2>3. /\ p \in Seq(Tokens) /\ Len(p) = n + Len(c)
        /\ \A i \in 1..(n + Len(c)) : p[i] = IF i <= n THEN name[i] ELSE c[i - n]
    BY <1>2, <2>2, ConcatProperties
  <2> HIDE DEF p
  <2>4. p \in Seq(Tokens)
    BY <2>3
  <2>5. /\ q \in Seq(Tokens) /\ Len(q) = Len(p) + k
        /\ \A i \in 1..(Len(p) + k) : q[i] = IF i <= Len(p) THEN p[i] ELSE t[i - Len(p)]
    BY <2>2, <2>4, ConcatProperties
  <2> HIDE DEF q
  <2>6. q \in Seq(Tokens)
    BY <2>5
  <2>7. /\ Len(l) = Len(q) + Len(e)
        /\ \A i \in 1..(Len(q) + Len(e)) : l[i] = IF i <= Len(q) THEN q[i] ELSE e[i - Len(q)]
    BY <2>2, <2>6, ConcatProperties
  <2> HIDE DEF l, n, k
  <2>8. Len(p) = n + 2 /\ Len(q) = n + 2 + k /\ Len(l) = n + 2 + k + 1
    BY <2>0, <2>1, <2>3, <2>5, <2>7
  <2>9. \A i \in 1..(n + 2) : l[i] = IF i <= n THEN name[i] ELSE c[i - n]
    <3>1. \A i \in 1..(n + 2) : /\ i \in 1..(Len(p) + k) /\ i <= Len(p)
                                /\ i \in 1..(Len(q) + Len(e)) /\ i <= Len(q)
      BY <2>0, <2>1, <2>8
    <3> QED BY <2>1, <2>3, <2>5, <2>7, <3>1
  <2>10. \A i \in 1..n : l[i] = name[i]
    BY <2>0, <2>9
  <2>11. l[n + 1] = c[1] /\ l[n + 2] = c[2]
    BY <2>0, <2>9
  <2>12. \A m \in 1..k : l[n + 2 + m] = t[m]
    <3>1. \A m \in 1..k : /\ n + 2 + m \in 1..(Len(p) + k) /\ ~(n + 2 + m <= Len(p))
                          /\ (n + 2 + m) - Len(p) = m
                          /\ n + 2 + m \in 1..(Len(q) + Len(e)) /\ n + 2 + m <= Len(q)
      BY <2>0, <2>1, <2>8
    <3> QED BY <2>5, <2>7, <3>1
  <2>13. l[n + k + 3] = e[1] /\ Len(l) = n + k + 3
    <3>1. /\ n + k + 3 \in 1..(Len(q) + Len(e)) /\ ~(n + k + 3 <= Len(q))
          /\ (n + k + 3) - Len(q) = 1
      BY <2>0, <2>1, <2>8
    <3>2. l[n + k + 3] = e[1]
      BY <2>7, <3>1
    <3> QED BY <2>0, <2>8, <3>2
  <2> QED BY <1>6, <1>7, <2>10, <2>11, <2>12, <2>13
<1> HIDE DEF l, n, k
<1>9. k \in {1, 2} /\ Len(l) = n + k + 3
  BY <1>4, <1>8
<1>10. Behind(l, MarkOf[kind])
  <2>1. PICK m \in 1..k : t[m] = MarkOf[kind]
    BY <1>4
  <2>2. n + 1 \in 1..Len(l) /\ n + 2 + m \in 1..Len(l) /\ n + 2 + m >= (n + 1) + 2
    BY <1>2, <1>9
  <2>3. l[n + 1] = ":" /\ l[n + 2 + m] = MarkOf[kind]
    BY <1>8, <2>1
  <2> QED BY <2>2, <2>3 DEF Behind
<1>11. ASSUME NEW i \in 1..Len(l), l[i] \in Bad PROVE kind \in {"found", "error"}
  <2>1. CASE i \in 1..n
    BY <1>3, <1>8, <1>11, <2>1
  <2>2. CASE i \in {n + 1, n + 2}
    BY <1>8, <1>11, <2>2 DEF Bad
  <2>3. CASE i \in (n + 3)..(n + 2 + k)
    <3>1. i - n - 2 \in 1..k /\ n + 2 + (i - n - 2) = i
      BY <1>2, <1>9, <2>3
    <3>2. l[i] = t[i - n - 2]
      BY <1>8, <3>1
    <3> QED BY <1>4, <1>11, <3>1, <3>2
  <2>4. CASE i = n + k + 3
    BY <1>8, <1>11, <2>4 DEF Bad
  <2>5. i \in 1..n \/ i \in {n + 1, n + 2} \/ i \in (n + 3)..(n + 2 + k) \/ i = n + k + 3
    BY <1>2, <1>9
  <2> QED BY <2>1, <2>2, <2>3, <2>4, <2>5
<1> QED BY <1>5, <1>10, <1>11

\* More output hides no keyword, neither of what was there nor of what is added.
LEMMA BehindGrows ==
    ASSUME NEW s \in Seq(Tokens), NEW t \in Seq(Tokens), NEW keyword,
           Behind(s, keyword) \/ Behind(t, keyword)
    PROVE  Behind(s \o t, keyword)
<1> DEFINE u == s \o t
<1>1. Len(s) \in Nat /\ Len(t) \in Nat
  BY LenProperties
<1>2. /\ Len(u) = Len(s) + Len(t)
      /\ \A i \in 1..(Len(s) + Len(t)) : u[i] = IF i <= Len(s) THEN s[i] ELSE t[i - Len(s)]
  BY ConcatProperties
<1> HIDE DEF u
<1>3. CASE Behind(s, keyword)
  <2>1. PICK c, i \in 1..Len(s) : s[c] = ":" /\ i >= c + 2 /\ s[i] = keyword
    BY <1>3 DEF Behind
  <2>2. c \in 1..Len(u) /\ i \in 1..Len(u) /\ u[c] = s[c] /\ u[i] = s[i]
    BY <1>1, <1>2
  <2>3. Behind(u, keyword)
    BY <2>1, <2>2 DEF Behind
  <2> QED BY <2>3 DEF u
<1>4. CASE Behind(t, keyword)
  <2>1. PICK c, i \in 1..Len(t) : t[c] = ":" /\ i >= c + 2 /\ t[i] = keyword
    BY <1>4 DEF Behind
  <2> DEFINE c2 == Len(s) + c
             i2 == Len(s) + i
  <2>2. c2 \in 1..Len(u) /\ i2 \in 1..Len(u) /\ i2 >= c2 + 2
    BY <1>1, <1>2, <2>1
  <2>3. \A j \in 1..Len(t) : u[Len(s) + j] = t[j]
    <3>1. \A j \in 1..Len(t) : /\ Len(s) + j \in 1..(Len(s) + Len(t))
                               /\ ~(Len(s) + j <= Len(s)) /\ (Len(s) + j) - Len(s) = j
      BY <1>1
    <3> QED BY <1>2, <3>1
  <2>4. u[c2] = t[c] /\ u[i2] = t[i]
    BY <2>3
  <2> HIDE DEF c2, i2
  <2>5. Behind(u, keyword)
    BY <2>1, <2>2, <2>4 DEF Behind
  <2> QED BY <2>5 DEF u
<1> QED BY <1>3, <1>4

\* what two pieces of output together hold
LEMMA ConcatElements ==
    ASSUME NEW s \in Seq(Tokens), NEW t \in Seq(Tokens), NEW i \in 1..Len(s \o t)
    PROVE  \/ \E j \in 1..Len(s) : (s \o t)[i] = s[j]
           \/ \E j \in 1..Len(t) : (s \o t)[i] = t[j]
<1> DEFINE u == s \o t
<1>1. Len(s) \in Nat /\ Len(t) \in Nat
  BY LenProperties
<1>2. /\ Len(u) = Len(s) + Len(t)
      /\ \A k \in 1..(Len(s) + Len(t)) : u[k] = IF k <= Len(s) THEN s[k] ELSE t[k - Len(s)]
  BY ConcatProperties
<1>3. i \in 1..Len(u)
  OBVIOUS
<1> HIDE DEF u
<1>4. \/ i \in 1..Len(s) /\ u[i] = s[i]
      \/ i - Len(s) \in 1..Len(t) /\ u[i] = t[i - Len(s)]
  BY <1>1, <1>2, <1>3
<1>5. (\E j \in 1..Len(s) : u[i] = s[j]) \/ (\E j \in 1..Len(t) : u[i] = t[j])
  BY <1>4
<1> QED BY <1>5 DEF u

\* In the initial state nothing is written, reported or answered.
LEMMA AnswerInit == Init => AnswerInv
<1> SUFFICES ASSUME Init PROVE AnswerInv
  OBVIOUS
<1>1. TypeOK /\ Accounting
  BY InitInv DEF IInv
<1>2. All = <<>> /\ Len(All) = 0 /\ reported = <<>> /\ Len(reported) = 0
  BY DEF Init, All
<1>3. Marked
  BY <1>2 DEF Marked
<1>4. Honest
  BY <1>2 DEF Honest
<1>5. Control /\ AnswerFollowsReports
  BY DEF Init, Control, AnswerFollowsReports
<1> QED BY <1>1, <1>3, <1>4, <1>5 DEF AnswerInv

\* The scanner completes a report.
LEMMA ReportsAnswer ==
    ASSUME AnswerInv, ScannerReports
    PROVE  Marked' /\ Honest' /\ Control' /\ AnswerFollowsReports'
<1>1. PICK name \in Names, kind \in Kinds :
          pipe' = pipe \o Line(name, kind) /\ reported' = Append(reported, kind)
  BY DEF ScannerReports
<1> DEFINE l == Line(name, kind)
<1>2. l \in Seq(Tokens)
  BY LineType
<1>3. pipe \in Seq(Tokens) /\ output \in Seq(Tokens) /\ reported \in Seq(Kinds)
  BY DEF AnswerInv, TypeOK
<1>4. /\ Behind(l, MarkOf[kind])
      /\ \A i \in 1..Len(l) : l[i] \in Bad => kind \in {"found", "error"}
  BY LineParts
<1> HIDE DEF l
<1>5. All \in Seq(Tokens) /\ All' = All \o l
  <2>1. pipe' = pipe \o l /\ output' = output
    BY <1>1 DEF l, ScannerReports
  <2>2. All \in Seq(Tokens)
    BY <1>3, ConcatProperties DEF All
  <2>3. (output \o pipe) \o l = output \o (pipe \o l)
    BY <1>2, <1>3, ConcatAssociative
  <2> QED BY <2>1, <2>2, <2>3 DEF All
<1>6. /\ Len(reported) \in Nat /\ Len(reported') = Len(reported) + 1 /\ reported' # <<>>
      /\ \A r \in 1..Len(reported) : reported'[r] = reported[r]
      /\ reported'[Len(reported) + 1] = kind
  <2>1. reported' = Append(reported, kind)
    BY <1>1
  <2> QED BY <1>3, <2>1, AppendProperties, LenProperties
<1>7. Marked'
  <2>1. ASSUME NEW r \in 1..Len(reported') PROVE Behind(All', MarkOf[reported'[r]])
    <3>1. CASE r \in 1..Len(reported)
      <4>1. Behind(All, MarkOf[reported[r]])
        BY <3>1 DEF AnswerInv, Marked
      <4>2. Behind(All \o l, MarkOf[reported[r]])
        BY <1>2, <1>5, <4>1, BehindGrows
      <4> QED BY <1>5, <1>6, <3>1, <4>2
    <3>2. CASE r = Len(reported) + 1
      <4>1. Behind(All \o l, MarkOf[kind])
        BY <1>2, <1>4, <1>5, BehindGrows
      <4> QED BY <1>5, <1>6, <3>2, <4>1
    <3> QED BY <1>6, <3>1, <3>2
  <2> QED BY <2>1 DEF Marked
<1>8. Honest'
  <2>1. scanner # "killed"
    BY DEF ScannerReports
  <2>2. ASSUME NEW i \in 1..Len(All'), All'[i] \in Bad
        PROVE  \E r \in 1..Len(reported') : reported'[r] \in {"found", "error"}
    <3>1. i \in 1..Len(All \o l) /\ (All \o l)[i] \in Bad
      BY <1>5, <2>2
    <3>2. CASE \E j \in 1..Len(All) : (All \o l)[i] = All[j]
      <4>1. PICK j \in 1..Len(All) : All[j] \in Bad
        BY <3>1, <3>2
      <4>2. PICK r \in 1..Len(reported) : reported[r] \in {"found", "error"}
        BY <2>1, <4>1 DEF AnswerInv, Honest
      <4> QED BY <1>6, <4>2
    <3>3. CASE \E j \in 1..Len(l) : (All \o l)[i] = l[j]
      <4>1. kind \in {"found", "error"}
        BY <1>4, <3>1, <3>3
      <4> QED BY <1>6, <4>1
    <3> QED BY <1>2, <1>5, <3>1, <3>2, <3>3, ConcatElements
  <2> QED BY <1>6, <2>2 DEF Honest
<1>9. Control' /\ AnswerFollowsReports'
  <2>1. pc' = "read" /\ scanner' = "running"
    BY DEF ScannerReports, AnswerInv, Control, TypeOK
  <2> QED BY <2>1 DEF Control, AnswerFollowsReports
<1> QED BY <1>7, <1>8, <1>9

\* Writing to the pipe is writing behind all that was written.
LEMMA TokensAssociate ==
    ASSUME NEW a \in Seq(Tokens), NEW b \in Seq(Tokens), NEW c \in Seq(Tokens)
    PROVE  (a \o b) \o c = a \o (b \o c)
<1> DEFINE S == Tokens
<1>1. a \in Seq(S) /\ b \in Seq(S) /\ c \in Seq(S)
  OBVIOUS
<1> HIDE DEF S
<1> QED BY <1>1, ConcatAssociative

\* The scanner dies within a line.
LEMMA DeathAnswer ==
    ASSUME AnswerInv, ScannerDies
    PROVE  Marked' /\ Honest' /\ Control' /\ AnswerFollowsReports'
<1>1. PICK name \in Names, kind \in Kinds : \E n \in 0..(Len(Line(name, kind)) - 1) :
          pipe' = pipe \o SubSeq(Line(name, kind), 1, n)
  BY DEF ScannerDies
<1>2. PICK n \in 0..(Len(Line(name, kind)) - 1) : pipe' = pipe \o SubSeq(Line(name, kind), 1, n)
  BY <1>1
<1> DEFINE l == SubSeq(Line(name, kind), 1, n)
<1>3. l \in Seq(Tokens)
  <2>1. Line(name, kind) \in Seq(Tokens) /\ n \in 0..Len(Line(name, kind))
    BY <1>2, LineType
  <2> QED BY <2>1, Cut
<1>4. pipe \in Seq(Tokens) /\ output \in Seq(Tokens) /\ reported \in Seq(Kinds)
  BY DEF AnswerInv, TypeOK
<1>5. All \in Seq(Tokens) /\ All' = All \o l
  <2>1. pipe' = pipe \o l /\ output' = output
    BY <1>2 DEF ScannerDies
  <2> HIDE DEF l
  <2>2. All \in Seq(Tokens)
    BY <1>4, ConcatProperties DEF All
  <2>3. (output \o pipe) \o l = output \o (pipe \o l)
    BY <1>3, <1>4, TokensAssociate
  <2> QED BY <2>1, <2>2, <2>3 DEF All
<1> HIDE DEF l
<1>6. Marked'
  <2>0. reported' = reported
    BY DEF ScannerDies
  <2>1. ASSUME NEW r \in 1..Len(reported) PROVE Behind(All', MarkOf[reported[r]])
    <3>1. Behind(All, MarkOf[reported[r]])
      BY DEF AnswerInv, Marked
    <3> QED BY <1>3, <1>5, <3>1, BehindGrows
  <2> QED BY <2>0, <2>1 DEF Marked
<1>7. Honest'
  BY DEF ScannerDies, Honest
<1>8. Control' /\ AnswerFollowsReports'
  <2>1. pc' = "read" /\ scanner' = "killed"
    BY DEF ScannerDies, AnswerInv, Control, TypeOK
  <2> QED BY <2>1 DEF Control, AnswerFollowsReports
<1> QED BY <1>6, <1>7, <1>8

\* Main answers for what the scanner reported.
LEMMA MainAnswers ==
    ASSUME AnswerInv, Answer
    PROVE  AnswerFollowsReports'
<1>0. /\ MarkOf["found"] = " FOUND" /\ MarkOf["error"] = " ERROR"
      /\ MarkOf["ok"] = "OK" /\ MarkOf["empty"] = "Empty file"
  BY DEF MarkOf
<1>1. /\ output \in Seq(Tokens) /\ pipe \in Seq(Tokens) /\ reported \in Seq(Kinds)
      /\ pipe = <<>> /\ pc = "parse"
  BY DEF AnswerInv, TypeOK, Control, Answer
<1>2. All = output
  BY <1>1, ConcatEmptySeq DEF All
<1>3. Kinds \subseteq AllKinds
  BY RunAVAssumption, Zenon
<1>4. answer' \in Verdicts(output) /\ reported' = reported /\ scanner' = scanner
  BY DEF Answer
<1>5. \A r \in 1..Len(reported) : Behind(output, MarkOf[reported[r]])
  BY <1>2 DEF AnswerInv, Marked
<1>6. ASSUME NEW r \in 1..Len(reported), reported[r] \in {"found", "error"}
      PROVE  answer' = "0"
  <2>1. MarkOf[reported[r]] \in Bad
    BY <1>0, <1>6 DEF Bad
  <2>2. Behind(output, MarkOf[reported[r]])
    BY <1>5
  <2>3. Verdicts(output) = {"0"}
    BY <1>1, <2>1, <2>2, Refused
  <2> QED BY <1>4, <2>3
<1>7. ASSUME \A r \in 1..Len(reported) : reported[r] \in {"ok", "empty"}, scanner = "ended"
      PROVE  answer' = "1"
  <2>1. CASE output = <<>>
    BY <1>4, <2>1 DEF Verdicts
  <2>2. CASE output # <<>>
    <3>1. /\ reported # <<>>
          /\ \A i \in 1..Len(output) : output[i] \in Bad =>
                 \E r \in 1..Len(reported) : reported[r] \in {"found", "error"}
      BY <1>2, <1>7, <2>2 DEF AnswerInv, Honest
    <3>2. \A i \in 1..Len(output) : output[i] \notin Bad
      BY <1>7, <3>1
    <3>3. 1 \in 1..Len(reported)
      BY <1>1, <3>1, EmptySeq
    <3>4. reported[1] \in {"ok", "empty"} /\ Behind(output, MarkOf[reported[1]])
      BY <1>5, <1>7, <3>3
    <3>5. MarkOf[reported[1]] \in {"OK", "Empty file"}
      BY <1>0, <3>4
    <3>6. Verdicts(output) = {"1"}
      BY <1>1, <3>2, <3>4, <3>5, Accepted
    <3> QED BY <1>4, <3>6
  <2> QED BY <2>1, <2>2
<1> QED BY <1>4, <1>6, <1>7 DEF AnswerFollowsReports

\* A read takes a prefix of the pipe, of at most its length...
LEMMA ReadCuts ==
    ASSUME ReadLine, TypeOK
    PROVE  \E k \in 0..Len(pipe) : /\ output' = output \o SubSeq(pipe, 1, k)
                                   /\ pipe' = SubSeq(pipe, k + 1, Len(pipe))
<1>1. PICK k \in Fgets(Lesser(size, LineSize)) :
          output' = output \o SubSeq(pipe, 1, k) /\ pipe' = SubSeq(pipe, k + 1, Len(pipe))
  BY DEF ReadLine
<1>2. k \in 0..Len(pipe)
  <2>1. Lesser(size, LineSize) \in Nat
    BY Sizes DEF TypeOK, Lesser
  <2>2. k \in 0..Lesser(Lesser(size, LineSize) - 1, Len(pipe))
    BY <1>1 DEF Fgets
  <2>3. Len(pipe) \in Nat
    BY LenProperties DEF TypeOK
  <2> QED BY <2>1, <2>2, <2>3 DEF Lesser
<1> QED BY <1>1, <1>2

\* ...and moves it to the end of the buffer.
LEMMA MovesNothing ==
    ASSUME NEW s \in Seq(Tokens), NEW t \in Seq(Tokens), NEW k \in 0..Len(t)
    PROVE  (s \o SubSeq(t, 1, k)) \o SubSeq(t, k + 1, Len(t)) = s \o t
<1> DEFINE a == SubSeq(t, 1, k)
           b == SubSeq(t, k + 1, Len(t))
<1>1. Len(t) \in Nat
  BY LenProperties
<1>2. a \in Seq(Tokens) /\ b \in Seq(Tokens)
  BY Cut
<1>3. a \o b = t
  <2>1. 1 \in 1..(Len(t) + 1) /\ k \in (1 - 1)..Len(t) /\ Len(t) \in k..Len(t)
    BY <1>1
  <2>2. a \o b = SubSeq(t, 1, Len(t))
    BY <2>1, ConcatAdjacentSubSeq
  <2>3. SubSeq(t, 1, Len(t)) = t
    BY SubSeqFull
  <2> QED BY <2>2, <2>3
<1> HIDE DEF a, b
<1>4. (s \o a) \o b = s \o (a \o b)
  BY <1>2, TokensAssociate
<1>5. (s \o a) \o b = s \o t
  BY <1>3, <1>4
<1> QED BY <1>5 DEF a, b

\* Every step keeps it.
LEMMA AnswerStep == AnswerInv /\ [Next]_vars => AnswerInv'
<1> SUFFICES ASSUME AnswerInv, [Next]_vars PROVE AnswerInv'
  OBVIOUS
<1>1. TypeOK' /\ Accounting'
  BY StepInv DEF AnswerInv, IInv
<1>2. ASSUME All' = All, reported' = reported PROVE Marked'
  BY <1>2 DEF AnswerInv, Marked
<1>3. ASSUME All' = All, reported' = reported, scanner' # "killed" => scanner # "killed"
      PROVE  Honest'
  BY <1>3 DEF AnswerInv, Honest
<1>4. ASSUME output' = output, pipe' = pipe PROVE All' = All
  BY <1>4 DEF All
<1>5. Marked' /\ Honest' /\ Control' /\ AnswerFollowsReports'
  <2>1. CASE ScannerReports
    BY <2>1, ReportsAnswer
  <2>2. CASE ScannerEnds
    <3>1. All' = All /\ reported' = reported /\ scanner = "running" /\ scanner' = "ended"
      BY <1>4, <2>2 DEF ScannerEnds
    <3>2. pc = "read" /\ pc' = "read"
      BY <2>2 DEF ScannerEnds, AnswerInv, Control, TypeOK
    <3>3. Control' /\ AnswerFollowsReports'
      BY <3>1, <3>2 DEF Control, AnswerFollowsReports
    <3> QED BY <1>2, <1>3, <3>1, <3>3
  <2>3. CASE ScannerDies
    BY <2>3, DeathAnswer
  <2>4. CASE PopenFails
    <3>1. All' = All /\ reported' = reported /\ pc' = "done" /\ scanner' = "none"
      BY <1>4, <2>4 DEF PopenFails
    <3>2. scanner # "killed"
      BY <2>4 DEF PopenFails, AnswerInv, Control
    <3>3. Control' /\ AnswerFollowsReports'
      BY <3>1 DEF Control, AnswerFollowsReports
    <3> QED BY <1>2, <1>3, <3>1, <3>2, <3>3
  <2>5. CASE Popen
    <3>1. All' = All /\ reported' = reported /\ pc' = "read" /\ scanner' = "running"
      BY <1>4, <2>5 DEF Popen
    <3>2. scanner # "killed"
      BY <2>5 DEF Popen, AnswerInv, Control
    <3>3. Control' /\ AnswerFollowsReports'
      BY <3>1 DEF Control, AnswerFollowsReports
    <3> QED BY <1>2, <1>3, <3>1, <3>2, <3>3
  <2>6. CASE ReadLine
    <3>1. PICK k \in 0..Len(pipe) : /\ output' = output \o SubSeq(pipe, 1, k)
                                    /\ pipe' = SubSeq(pipe, k + 1, Len(pipe))
      BY <2>6, ReadCuts DEF AnswerInv
    <3>2. All' = All
      BY <3>1, MovesNothing DEF AnswerInv, TypeOK, All
    <3>3. /\ reported' = reported /\ scanner' = scanner
          /\ pc = "read" /\ pc' = "read"
      BY <2>6 DEF ReadLine
    <3>4. Control' /\ AnswerFollowsReports'
      BY <3>3 DEF AnswerInv, Control, AnswerFollowsReports
    <3> QED BY <1>2, <1>3, <3>2, <3>3, <3>4
  <2>7. CASE EndOfFile
    <3>1. /\ All' = All /\ reported' = reported /\ scanner' = scanner
          /\ pc' = "parse" /\ pipe' = <<>>
      BY <1>4, <2>7 DEF EndOfFile
    <3>2. scanner \in {"ended", "killed"}
      BY <2>7 DEF EndOfFile, AnswerInv, Control, TypeOK
    <3>3. Control' /\ AnswerFollowsReports'
      BY <3>1, <3>2 DEF Control, AnswerFollowsReports
    <3> QED BY <1>2, <1>3, <3>1, <3>3
  <2>8. CASE Answer
    <3>1. All' = All /\ reported' = reported /\ scanner' = scanner /\ pc' = "done"
      BY <1>4, <2>8 DEF Answer
    <3>2. scanner \in {"ended", "killed"}
      BY <2>8 DEF Answer, AnswerInv, Control
    <3>3. Control'
      BY <3>1, <3>2 DEF Control
    <3> QED BY <1>2, <1>3, <2>8, <3>1, <3>3, MainAnswers
  <2>9. CASE UNCHANGED vars
    <3>1. All' = All /\ reported' = reported /\ scanner' = scanner
      BY <1>4, <2>9 DEF vars
    <3>2. Control' /\ AnswerFollowsReports'
      BY <2>9 DEF vars, AnswerInv, Control, AnswerFollowsReports
    <3> QED BY <1>2, <1>3, <3>1, <3>2
  <2> QED
    BY <2>1, <2>2, <2>3, <2>4, <2>5, <2>6, <2>7, <2>8, <2>9 DEF Next, Scanner, Main
<1> QED BY <1>1, <1>5 DEF AnswerInv

\* Main answers for what the scanner said, whatever the names, the sizes of the buffers and
\* the cuts of the reads: every FOUND or ERROR is refused, also behind other reports and
\* when the scanner died; a scan that ended with OK and "Empty file" alone is accepted.
THEOREM AnswersReports == Spec => []AnswerFollowsReports
<1>1. AnswerInv => AnswerFollowsReports
  BY DEF AnswerInv
<1> QED BY AnswerInit, AnswerStep, <1>1, PTL DEF Spec
=============================================================================
