--------------------------- MODULE PatchSeriesProofs ---------------------------
(***************************************************************************)
(* Why the scripts that edit the patch series bring no broken 0006 to the  *)
(* mirror, why a rewrite repairs whatever it finds and why nothing the     *)
(* editors do takes that back: for every number of scripts started, killed *)
(* or failing.                                                             *)
(*                                                                         *)
(* The argument is about the steps that a running script has left: what    *)
(* comes right before a step is what the step can rely on, and a trial of  *)
(* the series counts for as long as nothing is written after it.           *)
(***************************************************************************)
EXTENDS PatchSeries, TLAPS, SequenceTheorems, FiniteSetTheorems

Hunks == {"whitelist", "whitelist_sorted", "nvedit"}

(* At most one of the hunks appended to 0006 is of these kinds.            *)
OneOf(tail, kinds) ==
  \A i, j \in DOMAIN tail : tail[i] \in kinds /\ tail[j] \in kinds => i = j

P6Type ==
  {p \in [xfer : {"four", "three"}, counts : BOOLEAN,
          size : {"inner", "leading", "gone"}, tail : Seq(Hunks),
          header : {"unchanged", "usbeth", "spl", "miscounted"}] :
     OneOf(p.tail, WhitelistHunks) /\ OneOf(p.tail, {"nvedit"})}

P7Type == [gate : {"require", "tolerate"}, counts : BOOLEAN, call : BOOLEAN]

DirType(dir) ==
  /\ "0006" \in DOMAIN dir => dir["0006"] \in P6Type
  /\ "0007" \in DOMAIN dir => dir["0007"] \in P7Type

Messages ==
  {"missing block", "no file", "fn missing", "xfer missing", "pattern missing"}

Steps ==
  {Write(f, P4and5) : f \in {"0004", "0005"}}
    \cup {Write("0006", p) : p \in P6Type}
    \cup {Write("0007", p) : p \in P7Type}
    \cup {Apply(names) : names \in SUBSET Series}
    \cup {AssertSize}
    \cup {Copy(f) : f \in {"0004", "0005", "0006", "0007"}}
    \cup {Exit(msg) : msg \in Messages}

Typed == DirType(out) /\ DirType(mirror) /\ plan \in Seq(Steps)

(* After this step the file is in OUT, or the script has stopped.          *)
Provides(step, name) ==
  \/ step.op = "write" /\ step.file = name
  \/ step.op = "apply" /\ name \in step.files

CopiesExist ==
  \A i \in 1 .. Len(plan) : plan[i].op = "copy" =>
    \/ plan[i].file \in DOMAIN out
    \/ \E j \in 1 .. i - 1 : Provides(plan[j], plan[i].file)

(* The order in which a script that tries the series goes on from there.   *)
InOrder(steps) ==
  /\ \A i \in 1 .. Len(steps) :
       steps[i].op = "copy" => steps[i] \in {Copy("0006"), Copy("0007")}
  /\ \A i \in 2 .. Len(steps) :
       /\ steps[i] = Copy("0006") => steps[i - 1] \in {Apply(Series), AssertSize}
       /\ steps[i] = AssertSize => steps[i - 1] = Apply(Series)
       /\ steps[i] = Copy("0007") => steps[i - 1] = Copy("0006")

At(step) == plan # <<>> /\ Head(plan) = step

MirrorsOut6 == "0006" \in DOMAIN mirror /\ mirror["0006"] = out["0006"]

TrialCounts ==
  /\ At(AssertSize) \/ At(Copy("0006")) \/ At(Copy("0007")) => Applies(out, Series)
  /\ At(Copy("0007")) /\ wsl => MirrorsOut6

ChecksFirst == script \notin Unchecked => InOrder(plan) /\ TrialCounts

(* What a rewrite leaves that the editors keep.                            *)
Whole6(p) == p.header = "spl"
Whole7(p) == p.counts /\ p.call
WholeWrites(steps) ==
  \A i \in 1 .. Len(steps) : steps[i].op = "write" =>
    /\ steps[i].file = "0006" => Whole6(steps[i].patch)
    /\ steps[i].file = "0007" => Whole7(steps[i].patch)

WholeOut == Has(out, Series) /\ Whole6(out["0006"]) /\ Whole7(out["0007"])

WholeMirror ==
  /\ Has(mirror, Series)
  /\ WellFormed(mirror["0006"]) /\ Whole6(mirror["0006"]) /\ Whole7(mirror["0007"])

TrustKept ==
  trusted => /\ script \notin Unchecked
             /\ WholeOut /\ WholeWrites(plan)
             /\ wsl => WholeMirror

(* How far a rewrite has got.                                              *)
Holds(dir, name, p) == name \in DOMAIN dir /\ dir[name] = p

TakenFromRewrite(steps) ==
  \A i \in 1 .. Len(steps) : steps[i] = Rewrite[6 - Len(steps) + i]

EndOfRewrite(steps) == Len(steps) <= 6 /\ TakenFromRewrite(steps)

MadeSoFar(left) ==
  /\ left <= 4 => Holds(out, "0006", RewriteP6)
  /\ left <= 3 => Holds(out, "0007", RewriteP7)
  /\ left <= 1 /\ wsl => Holds(mirror, "0006", RewriteP6)
  /\ left = 0 /\ wsl => Holds(mirror, "0007", RewriteP7)

RewriteProgress ==
  script = "rewrite" => EndOfRewrite(plan) /\ MadeSoFar(Len(plan))

(* The inductive invariant.                                                *)
IInv ==
  /\ Typed
  /\ CopiesExist
  /\ ChecksFirst
  /\ TrustKept
  /\ RewriteProgress
  /\ RewriteRepairs
-----------------------------------------------------------------------------
(* Sequences that the scripts' plans are put together from.                *)

LEMMA Cat11 ==
  ASSUME NEW a, NEW b
  PROVE  <<a>> \o <<b>> = <<a, b>>
<1> DEFINE S == {a, b}
<1>1. <<a>> \in Seq(S) /\ <<b>> \in Seq(S) /\ <<a, b>> \in Seq(S)
  OBVIOUS
<1>2. Len(<<a>>) = 1 /\ Len(<<b>>) = 1 /\ Len(<<a, b>>) = 2
  OBVIOUS
<1>3. /\ <<a>> \o <<b>> \in Seq(S) /\ Len(<<a>> \o <<b>>) = 2
      /\ \A i \in 1 .. 2 : (<<a>> \o <<b>>)[i] = IF i <= 1 THEN <<a>>[i] ELSE <<b>>[i - 1]
  BY <1>1, <1>2, ConcatProperties
<1>4. \A i \in 1 .. 2 : (<<a>> \o <<b>>)[i] = <<a, b>>[i]
  <2> TAKE i \in 1 .. 2
  <2>1. i = 1 \/ i = 2
    OBVIOUS
  <2> QED BY <1>3, <2>1
<1> HIDE DEF S
<1> QED BY <1>1, <1>2, <1>3, <1>4, SeqEqual

LEMMA Cat12 ==
  ASSUME NEW a, NEW b, NEW c
  PROVE  <<a>> \o <<b, c>> = <<a, b, c>>
<1> DEFINE S == {a, b, c}
<1>1. <<a>> \in Seq(S) /\ <<b, c>> \in Seq(S) /\ <<a, b, c>> \in Seq(S)
  OBVIOUS
<1>2. Len(<<a>>) = 1 /\ Len(<<b, c>>) = 2 /\ Len(<<a, b, c>>) = 3
  OBVIOUS
<1>3. /\ <<a>> \o <<b, c>> \in Seq(S) /\ Len(<<a>> \o <<b, c>>) = 3
      /\ \A i \in 1 .. 3 :
           (<<a>> \o <<b, c>>)[i] = IF i <= 1 THEN <<a>>[i] ELSE <<b, c>>[i - 1]
  BY <1>1, <1>2, ConcatProperties
<1>4. \A i \in 1 .. 3 : (<<a>> \o <<b, c>>)[i] = <<a, b, c>>[i]
  <2> TAKE i \in 1 .. 3
  <2>1. i = 1 \/ i = 2 \/ i = 3
    OBVIOUS
  <2> QED BY <1>3, <2>1
<1> HIDE DEF S
<1> QED BY <1>1, <1>2, <1>3, <1>4, SeqEqual

LEMMA Cat13 ==
  ASSUME NEW a, NEW b, NEW c, NEW d
  PROVE  <<a>> \o <<b, c, d>> = <<a, b, c, d>>
<1> DEFINE S == {a, b, c, d}
<1>1. <<a>> \in Seq(S) /\ <<b, c, d>> \in Seq(S) /\ <<a, b, c, d>> \in Seq(S)
  OBVIOUS
<1>2. Len(<<a>>) = 1 /\ Len(<<b, c, d>>) = 3 /\ Len(<<a, b, c, d>>) = 4
  OBVIOUS
<1>3. /\ <<a>> \o <<b, c, d>> \in Seq(S) /\ Len(<<a>> \o <<b, c, d>>) = 4
      /\ \A i \in 1 .. 4 :
           (<<a>> \o <<b, c, d>>)[i] = IF i <= 1 THEN <<a>>[i] ELSE <<b, c, d>>[i - 1]
  BY <1>1, <1>2, ConcatProperties
<1>4. \A i \in 1 .. 4 : (<<a>> \o <<b, c, d>>)[i] = <<a, b, c, d>>[i]
  <2> TAKE i \in 1 .. 4
  <2>1. i = 1 \/ i = 2 \/ i = 3 \/ i = 4
    OBVIOUS
  <2> QED BY <1>3, <2>1
<1> HIDE DEF S
<1> QED BY <1>1, <1>2, <1>3, <1>4, SeqEqual

LEMMA Around1 ==
  ASSUME NEW a, NEW x, NEW b
  PROVE  <<a>> \o <<x>> \o <<b>> = <<a, x, b>>
<1> DEFINE S == {a, x, b}
<1>1. <<a>> \in Seq(S) /\ <<x>> \in Seq(S) /\ <<b>> \in Seq(S)
  OBVIOUS
<1>2. <<a>> \o <<x>> \o <<b>> = <<a>> \o (<<x>> \o <<b>>)
  BY <1>1, ConcatAssociative
<1>3. <<x>> \o <<b>> = <<x, b>>
  BY Cat11
<1> QED BY <1>2, <1>3, Cat12

LEMMA Around2 ==
  ASSUME NEW a, NEW x, NEW y, NEW b
  PROVE  <<a>> \o <<x, y>> \o <<b>> = <<a, x, y, b>>
<1> DEFINE S == {a, x, y, b}
<1>1. <<a>> \in Seq(S) /\ <<x>> \in Seq(S) /\ <<y>> \in Seq(S) /\ <<b>> \in Seq(S)
      /\ <<x, y>> \in Seq(S)
  OBVIOUS
<1>2. <<a>> \o <<x, y>> \o <<b>> = <<a>> \o (<<x, y>> \o <<b>>)
  BY <1>1, ConcatAssociative
<1>3. <<x, y>> = <<x>> \o <<y>>
  BY Cat11
<1>4. (<<x>> \o <<y>>) \o <<b>> = <<x>> \o (<<y>> \o <<b>>)
  BY <1>1, ConcatAssociative
<1>5. <<x, y>> \o <<b>> = <<x, y, b>>
  BY <1>3, <1>4, Cat11, Cat12
<1> QED BY <1>2, <1>5, Cat13
-----------------------------------------------------------------------------
(* Steps.                                                                  *)

LEMMA StepOps ==
  /\ \A f, p : /\ Write(f, p).op = "write" /\ Write(f, p).file = f
               /\ Write(f, p).patch = p
  /\ \A names : Apply(names).op = "apply" /\ Apply(names).files = names
  /\ AssertSize.op = "assert_size"
  /\ \A f : Copy(f).op = "copy" /\ Copy(f).file = f
  /\ \A msg : Exit(msg).op = "exit"
BY DEF Write, Apply, AssertSize, Copy, Exit

(* What a step is, by its op.                                              *)
LEMMA StepCases ==
  ASSUME NEW s \in Steps
  PROVE  /\ s.op \in {"write", "apply", "assert_size", "copy", "exit"}
         /\ s.op = "write" =>
              /\ s = Write(s.file, s.patch)
              /\ s.file = "0006" => s.patch \in P6Type
              /\ s.file = "0007" => s.patch \in P7Type
         /\ s.op = "apply" => s = Apply(s.files) /\ s.files \in SUBSET Series
         /\ s.op = "assert_size" => s = AssertSize
         /\ s.op = "copy" =>
              s = Copy(s.file) /\ s.file \in {"0004", "0005", "0006", "0007"}
<1>1. CASE \E f \in {"0004", "0005"} : s = Write(f, P4and5)
  BY <1>1, StepOps
<1>2. CASE \E p \in P6Type : s = Write("0006", p)
  BY <1>2, StepOps
<1>3. CASE \E p \in P7Type : s = Write("0007", p)
  BY <1>3, StepOps
<1>4. CASE \E names \in SUBSET Series : s = Apply(names)
  BY <1>4, StepOps
<1>5. CASE s = AssertSize
  BY <1>5, StepOps
<1>6. CASE \E f \in {"0004", "0005", "0006", "0007"} : s = Copy(f)
  BY <1>6, StepOps
<1>7. CASE \E msg \in Messages : s = Exit(msg)
  BY <1>7, StepOps
<1> QED BY <1>1, <1>2, <1>3, <1>4, <1>5, <1>6, <1>7 DEF Steps

LEMMA StepsIn ==
  /\ Write("0004", P4and5) \in Steps /\ Write("0005", P4and5) \in Steps
  /\ \A p \in P6Type : Write("0006", p) \in Steps
  /\ \A p \in P7Type : Write("0007", p) \in Steps
  /\ \A names \in SUBSET Series : Apply(names) \in Steps
  /\ AssertSize \in Steps
  /\ \A f \in {"0004", "0005", "0006", "0007"} : Copy(f) \in Steps
  /\ \A msg \in Messages : Exit(msg) \in Steps
BY DEF Steps

LEMMA PutTyped ==
  ASSUME NEW dir, DirType(dir), NEW name, NEW p,
         name = "0006" => p \in P6Type, name = "0007" => p \in P7Type
  PROVE  DirType(Put(dir, name, p))
<1> DEFINE d == Put(dir, name, p)
<1>1. /\ DOMAIN d = DOMAIN dir \cup {name} /\ d[name] = p
      /\ \A f \in DOMAIN dir : f # name => d[f] = dir[f]
  BY DEF Put
<1> HIDE DEF d
<1>2. ASSUME "0006" \in DOMAIN d PROVE d["0006"] \in P6Type
  <2>1. CASE name = "0006"
    BY <1>1, <2>1
  <2>2. CASE name # "0006"
    BY <1>1, <1>2, <2>2 DEF DirType
  <2> QED BY <2>1, <2>2
<1>3. ASSUME "0007" \in DOMAIN d PROVE d["0007"] \in P7Type
  <2>1. CASE name = "0007"
    BY <1>1, <2>1
  <2>2. CASE name # "0007"
    BY <1>1, <1>3, <2>2 DEF DirType
  <2> QED BY <2>1, <2>2
<1> QED BY <1>2, <1>3 DEF DirType, d
-----------------------------------------------------------------------------
(* The plan that a script has left.                                        *)

LEMMA NothingLeft == <<>> \in Seq(Steps) /\ Len(<<>>) = 0
BY EmptySeq

LEMMA PlanDone ==
  ASSUME plan \in Seq(Steps), plan # <<>>, plan' = Tail(plan)
  PROVE  /\ Head(plan) \in Steps /\ Head(plan) = plan[1] /\ Len(plan) \in Nat \ {0}
         /\ plan' \in Seq(Steps) /\ Len(plan') = Len(plan) - 1
         /\ \A i \in 1 .. Len(plan') : plan'[i] = plan[i + 1]
<1>1. Len(plan) \in Nat \ {0} /\ Head(plan) = plan[1]
  BY EmptySeq
<1> QED BY <1>1, HeadTailProperties

LEMMA HeadLeft ==
  ASSUME NEW s \in Seq(Steps), s # <<>>
  PROVE  1 \in 1 .. Len(s) /\ Head(s) = s[1]
<1>1. Len(s) \in Nat \ {0}
  BY EmptySeq
<1> QED BY <1>1

(* A file that a step left relies on is there, or an earlier one makes it  *)
(* so.                                                                     *)
LEMMA CopiesStillExist ==
  ASSUME Typed, CopiesExist, plan # <<>>, plan' = Tail(plan),
         DOMAIN out \subseteq DOMAIN out',
         \A f : Provides(Head(plan), f) => f \in DOMAIN out'
  PROVE  CopiesExist'
<1>1. /\ Head(plan) = plan[1] /\ Len(plan) \in Nat \ {0}
      /\ Len(plan') = Len(plan) - 1
      /\ \A i \in 1 .. Len(plan') : plan'[i] = plan[i + 1]
  BY PlanDone DEF Typed
<1> SUFFICES ASSUME NEW i \in 1 .. Len(plan'), plan'[i].op = "copy"
             PROVE  \/ plan'[i].file \in DOMAIN out'
                    \/ \E j \in 1 .. i - 1 : Provides(plan'[j], plan'[i].file)
  BY DEF CopiesExist
<1>2. i + 1 \in 1 .. Len(plan) /\ plan'[i] = plan[i + 1]
  BY <1>1
<1>3. CASE plan[i + 1].file \in DOMAIN out
  BY <1>2, <1>3
<1>4. ASSUME NEW j \in 1 .. i, Provides(plan[j], plan[i + 1].file)
      PROVE  \/ plan'[i].file \in DOMAIN out'
             \/ \E k \in 1 .. i - 1 : Provides(plan'[k], plan'[i].file)
  <2>1. CASE j = 1
    BY <1>1, <1>2, <1>4, <2>1
  <2>2. CASE j # 1
    <3>1. j - 1 \in 1 .. i - 1 /\ j - 1 \in 1 .. Len(plan') /\ (j - 1) + 1 = j
      BY <1>1, <2>2
    <3>2. plan'[j - 1] = plan[j]
      BY <1>1, <3>1
    <3> QED BY <1>2, <1>4, <3>1, <3>2
  <2> QED BY <2>1, <2>2
<1>5. (i + 1) - 1 = i
  OBVIOUS
<1> QED BY <1>2, <1>3, <1>4, <1>5 DEF CopiesExist

(* The head of a plan in order follows the step just made.                 *)
LEMMA OrderLeft ==
  ASSUME Typed, InOrder(plan), plan # <<>>, plan' = Tail(plan)
  PROVE  /\ InOrder(plan')
         /\ At(Copy("0006"))' => Head(plan) \in {Apply(Series), AssertSize}
         /\ At(AssertSize)' => Head(plan) = Apply(Series)
         /\ At(Copy("0007"))' => Head(plan) = Copy("0006")
<1>1. /\ Head(plan) = plan[1] /\ Len(plan) \in Nat \ {0}
      /\ plan' \in Seq(Steps) /\ Len(plan') = Len(plan) - 1
      /\ \A i \in 1 .. Len(plan') : plan'[i] = plan[i + 1]
  BY PlanDone DEF Typed
<1>2. ASSUME NEW i \in 1 .. Len(plan'), plan'[i].op = "copy"
      PROVE  plan'[i] \in {Copy("0006"), Copy("0007")}
  <2>1. i + 1 \in 1 .. Len(plan) /\ plan'[i] = plan[i + 1]
    BY <1>1
  <2> QED BY <1>2, <2>1 DEF InOrder
<1>3. ASSUME NEW i \in 2 .. Len(plan')
      PROVE  /\ plan'[i] = Copy("0006") =>
                  plan'[i - 1] \in {Apply(Series), AssertSize}
             /\ plan'[i] = AssertSize => plan'[i - 1] = Apply(Series)
             /\ plan'[i] = Copy("0007") => plan'[i - 1] = Copy("0006")
  <2>1. /\ i + 1 \in 2 .. Len(plan) /\ (i + 1) - 1 = i
        /\ i \in 1 .. Len(plan') /\ i - 1 \in 1 .. Len(plan') /\ (i - 1) + 1 = i
    BY <1>1
  <2>2. plan'[i] = plan[i + 1] /\ plan'[i - 1] = plan[i]
    BY <1>1, <2>1
  <2> QED BY <2>1, <2>2 DEF InOrder
<1>4. InOrder(plan')
  BY <1>2, <1>3 DEF InOrder
<1>5. ASSUME NEW step, At(step)'
      PROVE  2 \in 2 .. Len(plan) /\ plan[2] = step /\ plan[2 - 1] = Head(plan)
  <2>1. plan' # <<>> /\ Head(plan') = step
    BY <1>5 DEF At
  <2>2. 1 \in 1 .. Len(plan') /\ plan'[1] = step
    BY <1>1, <2>1, HeadLeft
  <2> QED BY <1>1, <2>2
<1> QED BY <1>4, <1>5 DEF InOrder

LEMMA WritesLeft ==
  ASSUME Typed, WholeWrites(plan), plan # <<>>, plan' = Tail(plan)
  PROVE  WholeWrites(plan')
<1>1. /\ Len(plan) \in Nat \ {0} /\ Len(plan') = Len(plan) - 1
      /\ \A i \in 1 .. Len(plan') : plan'[i] = plan[i + 1]
  BY PlanDone DEF Typed
<1> SUFFICES ASSUME NEW i \in 1 .. Len(plan'), plan'[i].op = "write"
             PROVE  /\ plan'[i].file = "0006" => Whole6(plan'[i].patch)
                    /\ plan'[i].file = "0007" => Whole7(plan'[i].patch)
  BY DEF WholeWrites
<1>2. i + 1 \in 1 .. Len(plan) /\ plan'[i] = plan[i + 1]
  BY <1>1
<1> QED BY <1>2 DEF WholeWrites
-----------------------------------------------------------------------------
(* The steps of a running script.                                          *)

LEMMA RewriteSteps ==
  /\ Len(Rewrite) = 6
  /\ Rewrite[1] = Apply({}) /\ Rewrite[2] = Write("0006", RewriteP6)
  /\ Rewrite[3] = Write("0007", RewriteP7) /\ Rewrite[4] = Apply(Series)
  /\ Rewrite[5] = Copy("0006") /\ Rewrite[6] = Copy("0007")
BY DEF Rewrite

LEMMA OneToSix ==
  ASSUME NEW n \in Nat, n # 0, n <= 6
  PROVE  /\ n \in 1 .. 6 /\ 1 \in 1 .. n
         /\ n = 1 \/ n = 2 \/ n = 3 \/ n = 4 \/ n = 5 \/ n = 6
OBVIOUS

LEMMA OneLess ==
  ASSUME NEW n \in 1 .. 6, NEW m, m = n - 1
  PROVE  /\ \/ n = 6 /\ m = 5
            \/ n = 5 /\ m = 4
            \/ n = 4 /\ m = 3
            \/ n = 3 /\ m = 2
            \/ n = 2 /\ m = 1
            \/ n = 1 /\ m = 0
         /\ m <= 3 => n <= 4
         /\ m <= 2 => n <= 3
         /\ m = 0 => n <= 1
OBVIOUS

(* Where a rewrite is, by the number of steps it has left.                 *)
LEMMA RewriteAt ==
  ASSUME NEW s \in Seq(Steps), Len(s) # 0, EndOfRewrite(s)
  PROVE  /\ Len(s) \in 1 .. 6
         /\ Len(s) = 6 => s[1] = Apply({})
         /\ Len(s) = 5 => s[1] = Write("0006", RewriteP6)
         /\ Len(s) = 4 => s[1] = Write("0007", RewriteP7)
         /\ Len(s) = 3 => s[1] = Apply(Series)
         /\ Len(s) = 2 => s[1] = Copy("0006")
         /\ Len(s) = 1 => s[1] = Copy("0007")
<1>1. Len(s) \in Nat /\ Len(s) <= 6
  BY LenProperties, Zenon DEF EndOfRewrite
<1>2. /\ Len(s) \in 1 .. 6 /\ 1 \in 1 .. Len(s)
      /\ \/ Len(s) = 1 \/ Len(s) = 2 \/ Len(s) = 3
         \/ Len(s) = 4 \/ Len(s) = 5 \/ Len(s) = 6
  BY <1>1, OneToSix, Zenon
<1>3. s[1] = Rewrite[6 - Len(s) + 1]
  BY <1>2, Zenon DEF EndOfRewrite, TakenFromRewrite
<1>4. ASSUME NEW n \in 1 .. 6, s[1] = Rewrite[6 - n + 1]
      PROVE  /\ n = 6 => s[1] = Apply({})
             /\ n = 5 => s[1] = Write("0006", RewriteP6)
             /\ n = 4 => s[1] = Write("0007", RewriteP7)
             /\ n = 3 => s[1] = Apply(Series)
             /\ n = 2 => s[1] = Copy("0006")
             /\ n = 1 => s[1] = Copy("0007")
  <2>1. CASE n = 6
    BY <1>4, <2>1, RewriteSteps
  <2>2. CASE n = 5
    BY <1>4, <2>2, RewriteSteps
  <2>3. CASE n = 4
    BY <1>4, <2>3, RewriteSteps
  <2>4. CASE n = 3
    BY <1>4, <2>4, RewriteSteps
  <2>5. CASE n = 2
    BY <1>4, <2>5, RewriteSteps
  <2>6. CASE n = 1
    BY <1>4, <2>6, RewriteSteps
  <2> QED BY <2>1, <2>2, <2>3, <2>4, <2>5, <2>6
<1> QED BY <1>2, <1>3, <1>4, Zenon

(* The step that a rewrite is about to make, by its kind, and what is left.*)
LEMMA RewriteLeft ==
  ASSUME Typed, RewriteProgress, script = "rewrite", plan # <<>>,
         plan' = Tail(plan)
  PROVE  /\ EndOfRewrite(plan') /\ Len(plan') = Len(plan) - 1
         /\ Len(plan') <= 3 => Holds(out, "0006", RewriteP6)
         /\ Len(plan') <= 2 => Holds(out, "0007", RewriteP7)
         /\ Len(plan') = 0 /\ wsl => Holds(mirror, "0006", RewriteP6)
         /\ Head(plan).op = "write" =>
              \/ Len(plan') = 4 /\ Head(plan) = Write("0006", RewriteP6)
              \/ Len(plan') = 3 /\ Head(plan) = Write("0007", RewriteP7)
         /\ Head(plan).op = "apply" => Len(plan') \in {5, 2}
         /\ Head(plan).op # "assert_size"
         /\ Head(plan).op = "copy" =>
              \/ Len(plan') = 1 /\ Head(plan) = Copy("0006")
              \/ Len(plan') = 0 /\ Head(plan) = Copy("0007")
<1>1. /\ Len(plan) \in Nat \ {0} /\ Len(plan') = Len(plan) - 1
      /\ \A i \in 1 .. Len(plan') : plan'[i] = plan[i + 1]
      /\ Head(plan) = plan[1] /\ plan \in Seq(Steps)
  BY PlanDone DEF Typed
<1>2. EndOfRewrite(plan) /\ MadeSoFar(Len(plan))
  BY DEF RewriteProgress
<1>3. EndOfRewrite(plan')
  <2>1. Len(plan') <= 6
    BY <1>1, <1>2 DEF EndOfRewrite
  <2>2. ASSUME NEW i \in 1 .. Len(plan')
        PROVE  plan'[i] = Rewrite[6 - Len(plan') + i]
    <3>1. i + 1 \in 1 .. Len(plan) /\ plan'[i] = plan[i + 1]
      BY <1>1
    <3>2. plan[i + 1] = Rewrite[6 - Len(plan) + (i + 1)]
      BY <1>2, <3>1, Zenon DEF EndOfRewrite, TakenFromRewrite
    <3>3. 6 - Len(plan) + (i + 1) = 6 - Len(plan') + i
      BY <1>1
    <3> QED BY <3>1, <3>2, <3>3
  <2> QED BY <2>1, <2>2 DEF EndOfRewrite, TakenFromRewrite
<1>4. /\ Len(plan) \in 1 .. 6
      /\ Len(plan) = 6 => Head(plan) = Apply({})
      /\ Len(plan) = 5 => Head(plan) = Write("0006", RewriteP6)
      /\ Len(plan) = 4 => Head(plan) = Write("0007", RewriteP7)
      /\ Len(plan) = 3 => Head(plan) = Apply(Series)
      /\ Len(plan) = 2 => Head(plan) = Copy("0006")
      /\ Len(plan) = 1 => Head(plan) = Copy("0007")
  BY <1>1, <1>2, RewriteAt
<1>5. \/ Len(plan) = 6 /\ Len(plan') = 5
      \/ Len(plan) = 5 /\ Len(plan') = 4
      \/ Len(plan) = 4 /\ Len(plan') = 3
      \/ Len(plan) = 3 /\ Len(plan') = 2
      \/ Len(plan) = 2 /\ Len(plan') = 1
      \/ Len(plan) = 1 /\ Len(plan') = 0
  BY <1>1, <1>4, OneLess, Zenon
<1>6. /\ Len(plan') <= 3 => Holds(out, "0006", RewriteP6)
      /\ Len(plan') <= 2 => Holds(out, "0007", RewriteP7)
      /\ Len(plan') = 0 /\ wsl => Holds(mirror, "0006", RewriteP6)
  BY <1>1, <1>2, <1>4, OneLess, Zenon DEF MadeSoFar
<1>7. /\ Head(plan).op = "write" =>
           \/ Len(plan') = 4 /\ Head(plan) = Write("0006", RewriteP6)
           \/ Len(plan') = 3 /\ Head(plan) = Write("0007", RewriteP7)
      /\ Head(plan).op = "apply" => Len(plan') \in {5, 2}
      /\ Head(plan).op # "assert_size"
      /\ Head(plan).op = "copy" =>
           \/ Len(plan') = 1 /\ Head(plan) = Copy("0006")
           \/ Len(plan') = 0 /\ Head(plan) = Copy("0007")
  BY <1>4, <1>5, StepOps
<1> QED BY <1>1, <1>3, <1>6, <1>7

(* The script has stopped, or has no step left.                            *)
LEMMA Stopped ==
  ASSUME plan' = <<>>
  PROVE  /\ plan' \in Seq(Steps) /\ Len(plan') = 0 /\ CopiesExist'
         /\ InOrder(plan') /\ TrialCounts' /\ WholeWrites(plan')
<1>1. plan' \in Seq(Steps) /\ Len(plan') = 0
  BY NothingLeft, Zenon
<1>2. ~At(AssertSize)' /\ ~At(Copy("0006"))' /\ ~At(Copy("0007"))'
  BY DEF At
<1> QED BY <1>1, <1>2 DEF CopiesExist, InOrder, TrialCounts, WholeWrites

(* A script fails, or is killed.                                           *)
LEMMA FailStep ==
  ASSUME IInv, script # "none", Stop(FALSE),
         UNCHANGED <<out, mirror, wsl, trusted>>
  PROVE  IInv'
<1>1. script' = "none" /\ plan' = <<>> /\ ended' = [by |-> script, ok |-> FALSE]
  BY DEF Stop
<1>2. /\ plan' \in Seq(Steps) /\ CopiesExist' /\ InOrder(plan') /\ TrialCounts'
      /\ WholeWrites(plan')
  BY <1>1, Stopped
<1>3. Typed'
  BY <1>2 DEF IInv, Typed, DirType
<1>4. ChecksFirst'
  BY <1>2 DEF ChecksFirst
<1>5. TrustKept'
  BY <1>1, <1>2 DEF IInv, TrustKept, WholeOut, WholeMirror, Has, Unchecked
<1>6. RewriteProgress'
  BY <1>1 DEF RewriteProgress
<1>7. RewriteRepairs'
  BY <1>1 DEF RewriteRepairs
<1> QED BY <1>2, <1>3, <1>4, <1>5, <1>6, <1>7 DEF IInv

LEMMA WriteStepKeeps ==
  ASSUME IInv, WriteStep
  PROVE  IInv'
<1> DEFINE s == Head(plan)
<1>1. /\ script # "none" /\ plan # <<>> /\ s.op = "write" /\ plan' = Tail(plan)
      /\ out' = Put(out, s.file, s.patch)
      /\ UNCHANGED <<mirror, wsl, script, ended, trusted>>
  BY DEF WriteStep, Next0
<1>2. /\ s \in Steps /\ s = plan[1] /\ Len(plan) \in Nat \ {0}
      /\ plan' \in Seq(Steps)
  BY <1>1, PlanDone DEF IInv, Typed
<1>3. /\ s = Write(s.file, s.patch)
      /\ s.file = "0006" => s.patch \in P6Type
      /\ s.file = "0007" => s.patch \in P7Type
  BY <1>1, <1>2, StepCases
<1>4. /\ DOMAIN out' = DOMAIN out \cup {s.file} /\ out'[s.file] = s.patch
      /\ \A f \in DOMAIN out : f # s.file => out'[f] = out[f]
  BY <1>1 DEF Put
<1>5. Typed'
  BY <1>1, <1>2, <1>3, PutTyped DEF IInv, Typed, DirType
<1>6. CopiesExist'
  <2>1. \A f : Provides(s, f) => f \in DOMAIN out'
    BY <1>1, <1>4 DEF Provides
  <2> QED BY <1>1, <1>4, <2>1, CopiesStillExist DEF IInv
<1>7. ChecksFirst'
  <2> SUFFICES ASSUME script \notin Unchecked
               PROVE  InOrder(plan') /\ TrialCounts'
    BY <1>1 DEF ChecksFirst
  <2>1. /\ InOrder(plan')
        /\ At(Copy("0006"))' => s \in {Apply(Series), AssertSize}
        /\ At(AssertSize)' => s = Apply(Series)
        /\ At(Copy("0007"))' => s = Copy("0006")
    BY <1>1, OrderLeft DEF IInv, ChecksFirst
  <2>2. s \notin {Apply(Series), AssertSize, Copy("0006")}
    BY <1>1, StepOps
  <2> QED BY <2>1, <2>2 DEF TrialCounts
<1>8. TrustKept'
  <2> SUFFICES ASSUME trusted
               PROVE  /\ script \notin Unchecked /\ WholeOut' /\ WholeWrites(plan')
                      /\ wsl => WholeMirror'
    BY <1>1 DEF TrustKept
  <2>1. script \notin Unchecked /\ WholeOut /\ WholeWrites(plan) /\ (wsl => WholeMirror)
    BY DEF IInv, TrustKept
  <2>2. WholeWrites(plan')
    BY <1>1, <2>1, WritesLeft DEF IInv
  <2>3. /\ s.file = "0006" => Whole6(s.patch)
        /\ s.file = "0007" => Whole7(s.patch)
    BY <1>1, <1>2, <2>1 DEF WholeWrites
  <2>4. /\ {"0006", "0007"} \subseteq DOMAIN out
        /\ Whole6(out["0006"]) /\ Whole7(out["0007"])
    BY <2>1 DEF WholeOut, Has, Series
  <2>5. Whole6(out'["0006"])
    BY <1>4, <2>3, <2>4
  <2>6. Whole7(out'["0007"])
    BY <1>4, <2>3, <2>4
  <2>7. WholeOut'
    BY <1>4, <2>4, <2>5, <2>6 DEF WholeOut, Has, Series
  <2>8. wsl => WholeMirror'
    BY <1>1, <2>1 DEF WholeMirror, Has
  <2> QED BY <2>1, <2>2, <2>7, <2>8
<1>9. RewriteProgress'
  <2> SUFFICES ASSUME script = "rewrite"
               PROVE  EndOfRewrite(plan') /\ MadeSoFar(Len(plan))'
    BY <1>1 DEF RewriteProgress
  <2>1. /\ EndOfRewrite(plan')
        /\ Len(plan') <= 3 => Holds(out, "0006", RewriteP6)
        /\ \/ Len(plan') = 4 /\ s = Write("0006", RewriteP6)
           \/ Len(plan') = 3 /\ s = Write("0007", RewriteP7)
    BY <1>1, RewriteLeft DEF IInv
  <2>2. CASE Len(plan') = 4 /\ s = Write("0006", RewriteP6)
    <3>1. s.file = "0006" /\ s.patch = RewriteP6
      BY <2>2, StepOps
    <3>2. Holds(out', "0006", RewriteP6)
      BY <1>4, <3>1 DEF Holds
    <3>3. ~(Len(plan') <= 3) /\ ~(Len(plan') <= 1) /\ Len(plan') # 0
      BY <2>2
    <3> QED BY <2>1, <3>2, <3>3, Zenon DEF MadeSoFar
  <2>3. CASE Len(plan') = 3 /\ s = Write("0007", RewriteP7)
    <3>1. s.file = "0007" /\ s.patch = RewriteP7
      BY <2>3, StepOps
    <3>2. Len(plan') <= 3
      BY <2>3
    <3>3. Holds(out, "0006", RewriteP6)
      BY <2>1, <3>2, Zenon
    <3>4. Holds(out', "0006", RewriteP6) /\ Holds(out', "0007", RewriteP7)
      BY <1>4, <3>1, <3>3 DEF Holds
    <3>5. ~(Len(plan') <= 1) /\ Len(plan') # 0
      BY <2>3
    <3> QED BY <2>1, <3>4, <3>5, Zenon DEF MadeSoFar
  <2> QED BY <2>1, <2>2, <2>3
<1>10. RewriteRepairs'
  BY <1>1 DEF RewriteRepairs
<1> QED BY <1>5, <1>6, <1>7, <1>8, <1>9, <1>10 DEF IInv

LEMMA ApplyStepKeeps ==
  ASSUME IInv, ApplyStep
  PROVE  IInv'
<1> DEFINE s == Head(plan)
<1>1. /\ script # "none" /\ plan # <<>> /\ s.op = "apply"
      /\ UNCHANGED <<out, mirror, wsl, trusted>>
  BY DEF ApplyStep, Next0
<1>2. CASE Stop(FALSE)
  BY <1>1, <1>2, FailStep
<1>3. CASE Applies(out, s.files) /\ plan' = Tail(plan) /\ UNCHANGED <<script, ended>>
  <2>1. s \in Steps /\ s = Apply(s.files) /\ plan' \in Seq(Steps)
    BY <1>1, <1>3, PlanDone, StepCases DEF IInv, Typed
  <2>2. Typed'
    BY <1>1, <2>1 DEF IInv, Typed, DirType
  <2>3. CopiesExist'
    <3>1. \A f : Provides(s, f) => f \in DOMAIN out'
      BY <1>1, <1>3 DEF Provides, Applies, Has
    <3> QED BY <1>1, <1>3, <3>1, CopiesStillExist DEF IInv
  <2>4. ChecksFirst'
    <3> SUFFICES ASSUME script \notin Unchecked
                 PROVE  InOrder(plan') /\ TrialCounts'
      BY <1>3 DEF ChecksFirst
    <3>1. /\ InOrder(plan')
          /\ At(Copy("0006"))' => s \in {Apply(Series), AssertSize}
          /\ At(AssertSize)' => s = Apply(Series)
          /\ At(Copy("0007"))' => s = Copy("0006")
      BY <1>1, <1>3, OrderLeft DEF IInv, ChecksFirst
    <3>2. s # AssertSize /\ s # Copy("0006")
      BY <1>1, StepOps
    <3>3. s = Apply(Series) => s.files = Series
      BY StepOps
    <3>4. s = Apply(Series) => Applies(out, Series)'
      BY <1>1, <1>3, <3>3 DEF Applies, Has
    <3> QED BY <3>1, <3>2, <3>4 DEF TrialCounts
  <2>5. TrustKept'
    <3>1. trusted => WholeWrites(plan')
      BY <1>1, <1>3, WritesLeft DEF IInv, TrustKept
    <3> QED BY <1>1, <1>3, <3>1 DEF IInv, TrustKept, WholeOut, WholeMirror, Has
  <2>6. RewriteProgress'
    <3> SUFFICES ASSUME script = "rewrite"
                 PROVE  EndOfRewrite(plan') /\ MadeSoFar(Len(plan))'
      BY <1>3 DEF RewriteProgress
    <3>1. /\ EndOfRewrite(plan') /\ Len(plan') \in {5, 2}
          /\ Len(plan') <= 3 => Holds(out, "0006", RewriteP6)
          /\ Len(plan') <= 2 => Holds(out, "0007", RewriteP7)
      BY <1>1, <1>3, RewriteLeft DEF IInv
    <3>2. CASE Len(plan') = 5
      <4>1. ~(Len(plan') <= 4) /\ ~(Len(plan') <= 3) /\ ~(Len(plan') <= 1) /\ Len(plan') # 0
        BY <3>2
      <4> QED BY <3>1, <4>1, Zenon DEF MadeSoFar
    <3>3. CASE Len(plan') = 2
      <4>1. Len(plan') <= 3 /\ Len(plan') <= 2 /\ ~(Len(plan') <= 1) /\ Len(plan') # 0
        BY <3>3
      <4>2. Holds(out', "0006", RewriteP6) /\ Holds(out', "0007", RewriteP7)
        BY <1>1, <3>1, <4>1 DEF Holds
      <4> QED BY <3>1, <4>1, <4>2, Zenon DEF MadeSoFar
    <3> QED BY <3>1, <3>2, <3>3
  <2>7. RewriteRepairs'
    BY <1>1, <1>3 DEF RewriteRepairs
  <2> QED BY <2>2, <2>3, <2>4, <2>5, <2>6, <2>7 DEF IInv
<1> QED BY <1>2, <1>3 DEF ApplyStep

LEMMA AssertStepKeeps ==
  ASSUME IInv, AssertStep
  PROVE  IInv'
<1> DEFINE s == Head(plan)
<1>1. /\ script # "none" /\ plan # <<>> /\ s.op = "assert_size"
      /\ UNCHANGED <<out, mirror, wsl, trusted>>
  BY DEF AssertStep, Next0
<1>2. CASE Stop(FALSE)
  BY <1>1, <1>2, FailStep
<1>3. CASE plan' = Tail(plan) /\ UNCHANGED <<script, ended>>
  <2>1. s \in Steps /\ s = AssertSize /\ plan' \in Seq(Steps)
    BY <1>1, <1>3, PlanDone, StepCases DEF IInv, Typed
  <2>2. Typed'
    BY <1>1, <2>1 DEF IInv, Typed, DirType
  <2>3. CopiesExist'
    <3>1. \A f : Provides(s, f) => f \in DOMAIN out'
      BY <1>1 DEF Provides
    <3> QED BY <1>1, <1>3, <3>1, CopiesStillExist DEF IInv
  <2>4. ChecksFirst'
    <3> SUFFICES ASSUME script \notin Unchecked
                 PROVE  InOrder(plan') /\ TrialCounts'
      BY <1>3 DEF ChecksFirst
    <3>1. /\ InOrder(plan')
          /\ At(AssertSize)' => s = Apply(Series)
          /\ At(Copy("0007"))' => s = Copy("0006")
      BY <1>1, <1>3, OrderLeft DEF IInv, ChecksFirst
    <3>2. s # Apply(Series) /\ s # Copy("0006")
      BY <1>1, StepOps
    <3>3. Applies(out, Series)'
      BY <1>1, <2>1 DEF IInv, ChecksFirst, TrialCounts, At, Applies, Has
    <3> QED BY <3>1, <3>2, <3>3 DEF TrialCounts
  <2>5. TrustKept'
    <3>1. trusted => WholeWrites(plan')
      BY <1>1, <1>3, WritesLeft DEF IInv, TrustKept
    <3> QED BY <1>1, <1>3, <3>1 DEF IInv, TrustKept, WholeOut, WholeMirror, Has
  <2>6. RewriteProgress'
    <3>1. script # "rewrite"
      BY <1>1, <1>3, RewriteLeft DEF IInv
    <3> QED BY <1>3, <3>1 DEF RewriteProgress
  <2>7. RewriteRepairs'
    BY <1>1, <1>3 DEF RewriteRepairs
  <2> QED BY <2>2, <2>3, <2>4, <2>5, <2>6, <2>7 DEF IInv
<1> QED BY <1>2, <1>3 DEF AssertStep

(* What a copy brings to the mirror.                                       *)
LEMMA CopyBrings ==
  ASSUME IInv, CopyStep
  PROVE  /\ Head(plan).op = "copy" /\ Head(plan) \in Steps
         /\ Head(plan) = Copy(Head(plan).file)
         /\ Head(plan).file \in DOMAIN out
         /\ wsl' => mirror' = Put(mirror, Head(plan).file, out[Head(plan).file])
         /\ ~wsl' => mirror' = mirror
         /\ script \notin Unchecked =>
              /\ (wsl' <=> wsl) /\ Applies(out, Series)
              /\ Head(plan) \in {Copy("0006"), Copy("0007")}
              /\ Head(plan) = Copy("0007") /\ wsl => MirrorsOut6
<1> DEFINE s == Head(plan)
<1>1. /\ plan # <<>> /\ s.op = "copy" /\ plan' = Tail(plan)
      /\ wsl' = (wsl \/ script = "gen_dual")
      /\ mirror' = IF wsl' THEN Put(mirror, s.file, out[s.file]) ELSE mirror
  BY DEF CopyStep, Next0
<1>2. s \in Steps /\ s = plan[1] /\ 1 \in 1 .. Len(plan)
  BY <1>1, HeadLeft, PlanDone DEF IInv, Typed
<1>3. s = Copy(s.file)
  BY <1>1, <1>2, StepCases
<1>4. s.file \in DOMAIN out
  <2>1. s.file \in DOMAIN out \/ \E j \in 1 .. 1 - 1 : Provides(plan[j], s.file)
    BY <1>1, <1>2 DEF IInv, CopiesExist
  <2> QED BY <2>1
<1>5. ASSUME script \notin Unchecked
      PROVE  /\ (wsl' <=> wsl) /\ Applies(out, Series)
             /\ s \in {Copy("0006"), Copy("0007")}
             /\ s = Copy("0007") /\ wsl => MirrorsOut6
  <2>1. InOrder(plan) /\ TrialCounts
    BY <1>5 DEF IInv, ChecksFirst
  <2>2. s \in {Copy("0006"), Copy("0007")}
    BY <1>1, <1>2, <2>1 DEF InOrder
  <2>3. At(s)
    BY <1>1 DEF At
  <2>4. wsl' <=> wsl
    BY <1>1, <1>5 DEF Unchecked
  <2> QED BY <2>1, <2>2, <2>3, <2>4 DEF TrialCounts
<1> QED BY <1>1, <1>2, <1>3, <1>4, <1>5

LEMMA CopyStepKeeps ==
  ASSUME IInv, CopyStep
  PROVE  IInv'
<1> DEFINE s == Head(plan)
<1>1. /\ script # "none" /\ plan # <<>> /\ s.op = "copy" /\ plan' = Tail(plan)
      /\ UNCHANGED <<out, script, ended, trusted>>
  BY DEF CopyStep, Next0
<1>2. /\ s \in Steps /\ s = Copy(s.file) /\ s.file \in DOMAIN out
      /\ wsl' => mirror' = Put(mirror, s.file, out[s.file])
      /\ ~wsl' => mirror' = mirror
  BY CopyBrings
<1>3. ASSUME script \notin Unchecked
      PROVE  /\ (wsl' <=> wsl) /\ Applies(out, Series)
             /\ s \in {Copy("0006"), Copy("0007")}
             /\ s = Copy("0007") /\ wsl => MirrorsOut6
  BY <1>3, CopyBrings
<1>4. wsl' => /\ DOMAIN mirror' = DOMAIN mirror \cup {s.file}
              /\ mirror'[s.file] = out[s.file]
              /\ \A f \in DOMAIN mirror : f # s.file => mirror'[f] = mirror[f]
  BY <1>2 DEF Put
<1>5. Typed'
  <2>1. plan' \in Seq(Steps) /\ DirType(out) /\ DirType(mirror)
    BY <1>1, PlanDone DEF IInv, Typed
  <2>2. DirType(mirror')
    <3>1. CASE wsl'
      <4>1. /\ s.file = "0006" => out[s.file] \in P6Type
            /\ s.file = "0007" => out[s.file] \in P7Type
        BY <1>2, <2>1 DEF DirType
      <4> QED BY <1>2, <2>1, <3>1, <4>1, PutTyped
    <3>2. CASE ~wsl'
      BY <1>2, <2>1, <3>2
    <3> QED BY <3>1, <3>2
  <2> QED BY <1>1, <2>1, <2>2 DEF Typed, DirType
<1>6. CopiesExist'
  <2>1. \A f : Provides(s, f) => f \in DOMAIN out'
    BY <1>1 DEF Provides
  <2> QED BY <1>1, <2>1, CopiesStillExist DEF IInv
<1>7. ChecksFirst'
  <2> SUFFICES ASSUME script \notin Unchecked
               PROVE  InOrder(plan') /\ TrialCounts'
    BY <1>1 DEF ChecksFirst
  <2>1. /\ InOrder(plan')
        /\ At(Copy("0006"))' => s \in {Apply(Series), AssertSize}
        /\ At(AssertSize)' => s = Apply(Series)
        /\ At(Copy("0007"))' => s = Copy("0006")
    BY <1>1, OrderLeft DEF IInv, ChecksFirst
  <2>2. s \notin {Apply(Series), AssertSize}
    BY <1>1, StepOps
  <2>3. Applies(out, Series)'
    BY <1>1, <1>3 DEF Applies, Has
  <2>4. s = Copy("0006") /\ wsl' => MirrorsOut6'
    <3> SUFFICES ASSUME s = Copy("0006"), wsl' PROVE MirrorsOut6'
      OBVIOUS
    <3>1. s.file = "0006"
      BY StepOps
    <3> QED BY <1>1, <1>4, <3>1 DEF MirrorsOut6
  <2> QED BY <2>1, <2>2, <2>3, <2>4 DEF TrialCounts
<1>8. TrustKept'
  <2> SUFFICES ASSUME trusted
               PROVE  /\ script \notin Unchecked /\ WholeOut' /\ WholeWrites(plan')
                      /\ wsl' => WholeMirror'
    BY <1>1 DEF TrustKept
  <2>1. script \notin Unchecked /\ WholeOut /\ WholeWrites(plan) /\ (wsl => WholeMirror)
    BY DEF IInv, TrustKept
  <2>2. WholeWrites(plan')
    BY <1>1, <2>1, WritesLeft DEF IInv
  <2>3. WholeOut'
    BY <1>1, <2>1 DEF WholeOut, Has
  <2>4. ASSUME wsl' PROVE WholeMirror'
    <3>1. /\ {"0006", "0007"} \subseteq DOMAIN mirror
          /\ WellFormed(mirror["0006"])
          /\ Whole6(mirror["0006"]) /\ Whole7(mirror["0007"])
      BY <1>3, <2>1, <2>4 DEF WholeMirror, Has, Series
    <3>2. WellFormed(out["0006"]) /\ Whole6(out["0006"]) /\ Whole7(out["0007"])
      BY <1>3, <2>1 DEF Applies, WholeOut, Series
    <3>3. s.file \in {"0006", "0007"}
      BY <1>3, <2>1, StepOps
    <3>4. {"0006", "0007"} \subseteq DOMAIN mirror'
      BY <1>4, <2>4, <3>1
    <3>5. WellFormed(mirror'["0006"]) /\ Whole6(mirror'["0006"])
      <4>1. mirror'["0006"] \in {mirror["0006"], out["0006"]}
        BY <1>4, <2>4, <3>1
      <4> QED BY <3>1, <3>2, <4>1
    <3>6. Whole7(mirror'["0007"])
      <4>1. mirror'["0007"] \in {mirror["0007"], out["0007"]}
        BY <1>4, <2>4, <3>1
      <4> QED BY <3>1, <3>2, <4>1
    <3> QED BY <3>4, <3>5, <3>6 DEF WholeMirror, Has, Series
  <2> QED BY <2>1, <2>2, <2>3, <2>4
<1>9. RewriteProgress'
  <2> SUFFICES ASSUME script = "rewrite"
               PROVE  EndOfRewrite(plan') /\ MadeSoFar(Len(plan))'
    BY <1>1 DEF RewriteProgress
  <2>1. /\ EndOfRewrite(plan')
        /\ Len(plan') <= 3 => Holds(out, "0006", RewriteP6)
        /\ Len(plan') <= 2 => Holds(out, "0007", RewriteP7)
        /\ Len(plan') = 0 /\ wsl => Holds(mirror, "0006", RewriteP6)
        /\ \/ Len(plan') = 1 /\ s = Copy("0006")
           \/ Len(plan') = 0 /\ s = Copy("0007")
    BY <1>1, RewriteLeft DEF IInv
  <2>2. wsl' => wsl
    BY <1>3 DEF Unchecked
  <2>3. Len(plan') <= 3 /\ Len(plan') <= 2
    BY <2>1
  <2>4. Holds(out', "0006", RewriteP6) /\ Holds(out', "0007", RewriteP7)
    BY <1>1, <2>1, <2>3 DEF Holds
  <2>5. wsl' => Holds(mirror', "0006", RewriteP6)
    <3>1. CASE s = Copy("0006")
      <4>1. s.file = "0006"
        BY <3>1, StepOps
      <4> QED BY <1>1, <1>4, <2>4, <4>1 DEF Holds
    <3>2. CASE s = Copy("0007") /\ Len(plan') = 0
      <4>1. s.file = "0007"
        BY <3>2, StepOps
      <4> QED BY <1>4, <2>1, <2>2, <3>2, <4>1 DEF Holds
    <3> QED BY <2>1, <3>1, <3>2
  <2>6. Len(plan') = 0 /\ wsl' => Holds(mirror', "0007", RewriteP7)
    <3>1. Len(plan') = 0 => s = Copy("0007")
      BY <2>1
    <3>2. s = Copy("0007") => s.file = "0007"
      BY StepOps
    <3> QED BY <1>1, <1>4, <2>4, <3>1, <3>2 DEF Holds
  <2> QED BY <2>1, <2>4, <2>5, <2>6, Zenon DEF MadeSoFar
<1>10. RewriteRepairs'
  BY <1>1 DEF RewriteRepairs
<1> QED BY <1>5, <1>6, <1>7, <1>8, <1>9, <1>10 DEF IInv

LEMMA FinishKeeps ==
  ASSUME IInv, Finish
  PROVE  IInv'
<1>1. /\ script # "none" /\ plan = <<>> /\ script' = "none" /\ plan' = <<>>
      /\ ended' = [by |-> script, ok |-> TRUE]
      /\ trusted' = (trusted \/ script = "rewrite")
      /\ UNCHANGED <<out, mirror, wsl>>
  BY DEF Finish, Stop
<1>2. /\ plan' \in Seq(Steps) /\ CopiesExist' /\ InOrder(plan') /\ TrialCounts'
      /\ WholeWrites(plan')
  BY <1>1, Stopped
<1>3. Typed'
  BY <1>1, <1>2 DEF IInv, Typed, DirType
<1>4. ChecksFirst'
  BY <1>2 DEF ChecksFirst
<1>5. script = "rewrite" =>
        /\ Holds(out, "0006", RewriteP6) /\ Holds(out, "0007", RewriteP7)
        /\ wsl => /\ Holds(mirror, "0006", RewriteP6)
                  /\ Holds(mirror, "0007", RewriteP7)
  <2>1. Len(plan) = 0
    BY <1>1, NothingLeft, Zenon
  <2>2. Len(plan) <= 4 /\ Len(plan) <= 3 /\ Len(plan) <= 1
    BY <2>1
  <2> QED BY <2>1, <2>2, Zenon DEF IInv, RewriteProgress, MadeSoFar
<1>6. WellFormed(RewriteP6) /\ Whole6(RewriteP6) /\ Whole7(RewriteP7)
  BY DEF WellFormed, Whole6, Whole7, RewriteP6, RewriteP7
<1>7. TrustKept'
  <2> SUFFICES ASSUME trusted \/ script = "rewrite"
               PROVE  WholeOut' /\ (wsl' => WholeMirror')
    BY <1>1, <1>2 DEF TrustKept, Unchecked
  <2>1. WholeOut /\ (wsl => WholeMirror)
    <3>1. CASE trusted
      BY <3>1 DEF IInv, TrustKept
    <3>2. CASE script = "rewrite"
      <4>1. WholeOut
        BY <1>5, <1>6, <3>2 DEF WholeOut, Holds, Has, Series
      <4>2. wsl => WholeMirror
        BY <1>5, <1>6, <3>2 DEF WholeMirror, Holds, Has, Series
      <4> QED BY <4>1, <4>2
    <3> QED BY <3>1, <3>2
  <2> QED BY <1>1, <2>1 DEF WholeOut, WholeMirror, Has
<1>8. RewriteProgress'
  BY <1>1 DEF RewriteProgress
<1>9. RewriteRepairs'
  <2> SUFFICES ASSUME ended' = [by |-> "rewrite", ok |-> TRUE]
               PROVE  /\ out'["0006"] = RewriteP6 /\ out'["0007"] = RewriteP7
                      /\ wsl' => mirror'["0006"] = RewriteP6 /\ mirror'["0007"] = RewriteP7
    BY DEF RewriteRepairs
  <2>1. script = "rewrite"
    BY <1>1
  <2> QED BY <1>1, <1>5, <2>1 DEF Holds
<1> QED BY <1>2, <1>3, <1>4, <1>7, <1>8, <1>9 DEF IInv

LEMMA UnchangedKeeps ==
  ASSUME IInv, UNCHANGED <<out, mirror, wsl, script, plan, ended, trusted>>
  PROVE  IInv'
<1>1. Typed'
  BY DEF IInv, Typed, DirType
<1>2. CopiesExist'
  BY DEF IInv, CopiesExist
<1>3. ChecksFirst'
  BY DEF IInv, ChecksFirst, TrialCounts, At, Applies, Has, MirrorsOut6
<1>4. TrustKept'
  BY DEF IInv, TrustKept, WholeOut, WholeMirror, Has
<1>5. RewriteProgress'
  BY DEF IInv, RewriteProgress, MadeSoFar, Holds
<1>6. RewriteRepairs'
  BY DEF IInv, RewriteRepairs
<1> QED BY <1>1, <1>2, <1>3, <1>4, <1>5, <1>6 DEF IInv
-----------------------------------------------------------------------------
(* The plans that scripts start with.                                      *)

(* Every file that the plan copies is there or made before; no plan begins *)
(* with a copy or with the check of a trial that was not made.             *)
GoodPlan(steps) ==
  /\ steps \in Seq(Steps)
  /\ \A i \in 1 .. Len(steps) : steps[i].op = "copy" =>
       \/ steps[i].file \in DOMAIN out
       \/ \E j \in 1 .. i - 1 : Provides(steps[j], steps[i].file)
  /\ steps # <<>> => steps[1].op \notin {"copy", "assert_size"}

(* What a script that tries the series has to bring besides.               *)
CheckedPlan(steps) ==
  GoodPlan(steps) /\ InOrder(steps) /\ (WholeOut => WholeWrites(steps))

LEMMA OneStep ==
  ASSUME NEW a \in Steps
  PROVE  <<a>> \in Seq(Steps) /\ Len(<<a>>) = 1 /\ <<a>>[1] = a
OBVIOUS

LEMMA TwoSteps ==
  ASSUME NEW a \in Steps, NEW b \in Steps
  PROVE  /\ <<a, b>> \in Seq(Steps) /\ Len(<<a, b>>) = 2
         /\ <<a, b>>[1] = a /\ <<a, b>>[2] = b
OBVIOUS

LEMMA ThreeSteps ==
  ASSUME NEW a \in Steps, NEW b \in Steps, NEW c \in Steps
  PROVE  /\ <<a, b, c>> \in Seq(Steps) /\ Len(<<a, b, c>>) = 3
         /\ <<a, b, c>>[1] = a /\ <<a, b, c>>[2] = b /\ <<a, b, c>>[3] = c
OBVIOUS

LEMMA FourSteps ==
  ASSUME NEW a \in Steps, NEW b \in Steps, NEW c \in Steps, NEW d \in Steps
  PROVE  /\ <<a, b, c, d>> \in Seq(Steps) /\ Len(<<a, b, c, d>>) = 4
         /\ <<a, b, c, d>>[1] = a /\ <<a, b, c, d>>[2] = b
         /\ <<a, b, c, d>>[3] = c /\ <<a, b, c, d>>[4] = d
OBVIOUS

LEMMA SixSteps ==
  ASSUME NEW a \in Steps, NEW b \in Steps, NEW c \in Steps,
         NEW d \in Steps, NEW e \in Steps, NEW f \in Steps
  PROVE  /\ <<a, b, c, d, e, f>> \in Seq(Steps) /\ Len(<<a, b, c, d, e, f>>) = 6
         /\ <<a, b, c, d, e, f>>[1] = a /\ <<a, b, c, d, e, f>>[2] = b
         /\ <<a, b, c, d, e, f>>[3] = c /\ <<a, b, c, d, e, f>>[4] = d
         /\ <<a, b, c, d, e, f>>[5] = e /\ <<a, b, c, d, e, f>>[6] = f
OBVIOUS

LEMMA PlanEmpty == CheckedPlan(<<>>)
<1>1. <<>> \in Seq(Steps) /\ Len(<<>>) = 0
  BY NothingLeft
<1> QED BY <1>1 DEF CheckedPlan, GoodPlan, InOrder, WholeWrites

LEMMA PlanExit ==
  ASSUME NEW msg \in Messages
  PROVE  CheckedPlan(<<Exit(msg)>>)
<1> DEFINE s == <<Exit(msg)>>
<1>1. s \in Seq(Steps) /\ Len(s) = 1 /\ s[1] = Exit(msg)
  BY StepsIn, OneStep
<1> HIDE DEF s
<1>2. \A i \in 1 .. 1 : i = 1
  OBVIOUS
<1>3. \A i \in 2 .. 1 : FALSE
  OBVIOUS
<1>4. GoodPlan(s)
  BY <1>1, <1>2, StepOps DEF GoodPlan
<1>5. InOrder(s)
  BY <1>1, <1>2, <1>3, StepOps DEF InOrder
<1>6. WholeWrites(s)
  BY <1>1, <1>2, StepOps DEF WholeWrites
<1> QED BY <1>4, <1>5, <1>6 DEF CheckedPlan, s

(* The plan of the scripts that change 0006, try the series and copy it.   *)
LEMMA PlanEdit ==
  ASSUME NEW p \in P6Type, WholeOut => Whole6(p)
  PROVE  CheckedPlan(<<Write("0006", p), Apply(Series), Copy("0006")>>)
<1> DEFINE s == <<Write("0006", p), Apply(Series), Copy("0006")>>
<1>1. /\ s \in Seq(Steps) /\ Len(s) = 3
      /\ s[1] = Write("0006", p) /\ s[2] = Apply(Series) /\ s[3] = Copy("0006")
  BY StepsIn, ThreeSteps DEF Series
<1> HIDE DEF s
<1>2. \A i \in 1 .. 3 : i = 1 \/ i = 2 \/ i = 3
  OBVIOUS
<1>3. \A i \in 2 .. 3 : i = 2 \/ i = 3
  OBVIOUS
<1>4. GoodPlan(s)
  <2>1. Provides(s[1], "0006") /\ 1 \in 1 .. 3 - 1
    BY <1>1, StepOps DEF Provides
  <2> QED BY <1>1, <1>2, <2>1, StepOps DEF GoodPlan
<1>5. InOrder(s)
  BY <1>1, <1>2, <1>3, StepOps DEF InOrder
<1>6. WholeOut => WholeWrites(s)
  BY <1>1, <1>2, StepOps DEF WholeWrites
<1> QED BY <1>4, <1>5, <1>6 DEF CheckedPlan, s

LEMMA PlanWhitelist ==
  ASSUME NEW p \in P6Type, WholeOut => Whole6(p)
  PROVE  CheckedPlan(<<Apply({}), Apply({"0006"}), Write("0006", p),
                       Apply(Series), Copy("0006"), Copy("0007")>>)
<1> DEFINE s == <<Apply({}), Apply({"0006"}), Write("0006", p),
                  Apply(Series), Copy("0006"), Copy("0007")>>
<1>1. /\ s \in Seq(Steps) /\ Len(s) = 6
      /\ s[1] = Apply({}) /\ s[2] = Apply({"0006"}) /\ s[3] = Write("0006", p)
      /\ s[4] = Apply(Series) /\ s[5] = Copy("0006") /\ s[6] = Copy("0007")
  BY StepsIn, SixSteps DEF Series
<1> HIDE DEF s
<1>2. \A i \in 1 .. 6 : i = 1 \/ i = 2 \/ i = 3 \/ i = 4 \/ i = 5 \/ i = 6
  OBVIOUS
<1>3. \A i \in 2 .. 6 : i = 2 \/ i = 3 \/ i = 4 \/ i = 5 \/ i = 6
  OBVIOUS
<1>4. GoodPlan(s)
  <2>1. /\ Provides(s[4], "0006") /\ 4 \in 1 .. 5 - 1
        /\ Provides(s[4], "0007") /\ 4 \in 1 .. 6 - 1
    BY <1>1, StepOps DEF Provides, Series
  <2> QED BY <1>1, <1>2, <2>1, StepOps DEF GoodPlan
<1>5. InOrder(s)
  BY <1>1, <1>2, <1>3, StepOps DEF InOrder
<1>6. WholeOut => WholeWrites(s)
  BY <1>1, <1>2, StepOps DEF WholeWrites
<1> QED BY <1>4, <1>5, <1>6 DEF CheckedPlan, s

LEMMA PlanSorted ==
  ASSUME NEW p \in P6Type, WholeOut => Whole6(p),
         NEW q \in P6Type, WholeOut => Whole6(q)
  PROVE  CheckedPlan(<<Write("0006", p), Apply({}), Apply({"0006"}),
                       Write("0006", q), Apply(Series), Copy("0006")>>)
<1> DEFINE s == <<Write("0006", p), Apply({}), Apply({"0006"}),
                  Write("0006", q), Apply(Series), Copy("0006")>>
<1>1. /\ s \in Seq(Steps) /\ Len(s) = 6
      /\ s[1] = Write("0006", p) /\ s[2] = Apply({})
      /\ s[3] = Apply({"0006"}) /\ s[4] = Write("0006", q)
      /\ s[5] = Apply(Series) /\ s[6] = Copy("0006")
  BY StepsIn, SixSteps DEF Series
<1> HIDE DEF s
<1>2. \A i \in 1 .. 6 : i = 1 \/ i = 2 \/ i = 3 \/ i = 4 \/ i = 5 \/ i = 6
  OBVIOUS
<1>3. \A i \in 2 .. 6 : i = 2 \/ i = 3 \/ i = 4 \/ i = 5 \/ i = 6
  OBVIOUS
<1>4. GoodPlan(s)
  <2>1. /\ Provides(s[1], "0006") /\ 1 \in 1 .. 6 - 1
    BY <1>1, StepOps DEF Provides, Series
  <2> QED BY <1>1, <1>2, <2>1, StepOps DEF GoodPlan
<1>5. InOrder(s)
  BY <1>1, <1>2, <1>3, StepOps DEF InOrder
<1>6. WholeOut => WholeWrites(s)
  BY <1>1, <1>2, StepOps DEF WholeWrites
<1> QED BY <1>4, <1>5, <1>6 DEF CheckedPlan, s

LEMMA PlanAdd ==
  ASSUME NEW p \in P6Type, WholeOut => Whole6(p)
  PROVE  CheckedPlan(<<Apply({"0006"}), Write("0006", p), Apply(Series),
                       Copy("0006")>>)
<1> DEFINE s == <<Apply({"0006"}), Write("0006", p), Apply(Series),
                  Copy("0006")>>
<1>1. /\ s \in Seq(Steps) /\ Len(s) = 4
      /\ s[1] = Apply({"0006"}) /\ s[2] = Write("0006", p)
      /\ s[3] = Apply(Series) /\ s[4] = Copy("0006")
  BY StepsIn, FourSteps DEF Series
<1> HIDE DEF s
<1>2. \A i \in 1 .. 4 : i = 1 \/ i = 2 \/ i = 3 \/ i = 4
  OBVIOUS
<1>3. \A i \in 2 .. 4 : i = 2 \/ i = 3 \/ i = 4
  OBVIOUS
<1>4. GoodPlan(s)
  <2>1. /\ Provides(s[2], "0006") /\ 2 \in 1 .. 4 - 1
    BY <1>1, StepOps DEF Provides, Series
  <2> QED BY <1>1, <1>2, <2>1, StepOps DEF GoodPlan
<1>5. InOrder(s)
  BY <1>1, <1>2, <1>3, StepOps DEF InOrder
<1>6. WholeOut => WholeWrites(s)
  BY <1>1, <1>2, StepOps DEF WholeWrites
<1> QED BY <1>4, <1>5, <1>6 DEF CheckedPlan, s

LEMMA PlanSize ==
  ASSUME NEW p \in P6Type, WholeOut => Whole6(p)
  PROVE  CheckedPlan(<<Write("0006", p), Apply(Series), AssertSize,
                       Copy("0006")>>)
<1> DEFINE s == <<Write("0006", p), Apply(Series), AssertSize,
                  Copy("0006")>>
<1>1. /\ s \in Seq(Steps) /\ Len(s) = 4
      /\ s[1] = Write("0006", p) /\ s[2] = Apply(Series)
      /\ s[3] = AssertSize /\ s[4] = Copy("0006")
  BY StepsIn, FourSteps DEF Series
<1> HIDE DEF s
<1>2. \A i \in 1 .. 4 : i = 1 \/ i = 2 \/ i = 3 \/ i = 4
  OBVIOUS
<1>3. \A i \in 2 .. 4 : i = 2 \/ i = 3 \/ i = 4
  OBVIOUS
<1>4. GoodPlan(s)
  <2>1. /\ Provides(s[1], "0006") /\ 1 \in 1 .. 4 - 1
    BY <1>1, StepOps DEF Provides, Series
  <2> QED BY <1>1, <1>2, <2>1, StepOps DEF GoodPlan
<1>5. InOrder(s)
  BY <1>1, <1>2, <1>3, StepOps DEF InOrder
<1>6. WholeOut => WholeWrites(s)
  BY <1>1, <1>2, StepOps DEF WholeWrites
<1> QED BY <1>4, <1>5, <1>6 DEF CheckedPlan, s

(* The plans of the scripts that copy with no trial.                       *)

LEMMA PlanDual ==
  GoodPlan(<<Write("0004", P4and5), Write("0005", P4and5), Copy("0004"),
             Copy("0005")>>)
<1> DEFINE s == <<Write("0004", P4and5), Write("0005", P4and5),
                  Copy("0004"), Copy("0005")>>
<1>1. /\ s \in Seq(Steps) /\ Len(s) = 4
      /\ s[1] = Write("0004", P4and5) /\ s[2] = Write("0005", P4and5)
      /\ s[3] = Copy("0004") /\ s[4] = Copy("0005")
  BY StepsIn, FourSteps
<1> HIDE DEF s
<1>2. \A i \in 1 .. 4 : i = 1 \/ i = 2 \/ i = 3 \/ i = 4
  OBVIOUS
<1>3. GoodPlan(s)
  <2>1. /\ Provides(s[1], "0004") /\ 1 \in 1 .. 3 - 1
        /\ Provides(s[2], "0005") /\ 2 \in 1 .. 4 - 1
    BY <1>1, StepOps DEF Provides, Series
  <2> QED BY <1>1, <1>2, <2>1, StepOps DEF GoodPlan
<1> QED BY <1>3 DEF s

LEMMA PlanBoth ==
  ASSUME NEW p \in P6Type, NEW q \in P7Type
  PROVE  GoodPlan(<<Write("0006", p), Write("0007", q), Copy("0006"),
                    Copy("0007")>>)
<1> DEFINE s == <<Write("0006", p), Write("0007", q), Copy("0006"),
                  Copy("0007")>>
<1>1. /\ s \in Seq(Steps) /\ Len(s) = 4
      /\ s[1] = Write("0006", p) /\ s[2] = Write("0007", q)
      /\ s[3] = Copy("0006") /\ s[4] = Copy("0007")
  BY StepsIn, FourSteps
<1> HIDE DEF s
<1>2. \A i \in 1 .. 4 : i = 1 \/ i = 2 \/ i = 3 \/ i = 4
  OBVIOUS
<1>3. GoodPlan(s)
  <2>1. /\ Provides(s[1], "0006") /\ 1 \in 1 .. 3 - 1
        /\ Provides(s[2], "0007") /\ 2 \in 1 .. 4 - 1
    BY <1>1, StepOps DEF Provides, Series
  <2> QED BY <1>1, <1>2, <2>1, StepOps DEF GoodPlan
<1> QED BY <1>3 DEF s

LEMMA PlanFix ==
  ASSUME NEW p \in P6Type, NEW q \in P7Type
  PROVE  GoodPlan(<<Write("0007", q), Write("0006", p), Copy("0007"),
                    Copy("0006")>>)
<1> DEFINE s == <<Write("0007", q), Write("0006", p), Copy("0007"),
                  Copy("0006")>>
<1>1. /\ s \in Seq(Steps) /\ Len(s) = 4
      /\ s[1] = Write("0007", q) /\ s[2] = Write("0006", p)
      /\ s[3] = Copy("0007") /\ s[4] = Copy("0006")
  BY StepsIn, FourSteps
<1> HIDE DEF s
<1>2. \A i \in 1 .. 4 : i = 1 \/ i = 2 \/ i = 3 \/ i = 4
  OBVIOUS
<1>3. GoodPlan(s)
  <2>1. /\ Provides(s[1], "0007") /\ 1 \in 1 .. 3 - 1
        /\ Provides(s[2], "0006") /\ 2 \in 1 .. 4 - 1
    BY <1>1, StepOps DEF Provides, Series
  <2> QED BY <1>1, <1>2, <2>1, StepOps DEF GoodPlan
<1> QED BY <1>3 DEF s

LEMMA PlanFixHalf ==
  ASSUME NEW q \in P7Type, NEW msg \in Messages
  PROVE  GoodPlan(<<Write("0007", q), Exit(msg)>>)
<1> DEFINE s == <<Write("0007", q), Exit(msg)>>
<1>1. /\ s \in Seq(Steps) /\ Len(s) = 2
      /\ s[1] = Write("0007", q) /\ s[2] = Exit(msg)
  BY StepsIn, TwoSteps
<1> HIDE DEF s
<1>2. \A i \in 1 .. 2 : i = 1 \/ i = 2
  OBVIOUS
<1>3. GoodPlan(s)
  BY <1>1, <1>2, StepOps DEF GoodPlan
<1> QED BY <1>3 DEF s

LEMMA RewriteTypes == RewriteP6 \in P6Type /\ RewriteP7 \in P7Type
<1>1. OneOf(<<>>, WhitelistHunks) /\ OneOf(<<>>, {"nvedit"})
  BY DEF OneOf
<1>2. <<>> \in Seq(Hunks)
  OBVIOUS
<1>3. RewriteP6 \in [xfer : {"four", "three"}, counts : BOOLEAN,
                     size : {"inner", "leading", "gone"}, tail : Seq(Hunks),
                     header : {"unchanged", "usbeth", "spl", "miscounted"}]
  BY <1>2 DEF RewriteP6
<1>4. RewriteP6.tail = <<>>
  BY DEF RewriteP6
<1>5. RewriteP7 \in P7Type
  BY DEF RewriteP7, P7Type
<1>6. RewriteP6 \in P6Type
  BY <1>1, <1>3, <1>4, Zenon DEF P6Type
<1> QED BY <1>5, <1>6

LEMMA PlanRewrite == CheckedPlan(Rewrite) /\ EndOfRewrite(Rewrite)
<1> DEFINE s == Rewrite
<1>1. /\ s \in Seq(Steps) /\ Len(s) = 6
      /\ s[1] = Apply({}) /\ s[2] = Write("0006", RewriteP6)
      /\ s[3] = Write("0007", RewriteP7) /\ s[4] = Apply(Series)
      /\ s[5] = Copy("0006") /\ s[6] = Copy("0007")
  <2>1. {} \in SUBSET Series /\ Series \in SUBSET Series
    OBVIOUS
  <2> QED BY <2>1, StepsIn, SixSteps, RewriteTypes DEF Rewrite
<1>2. \A i \in 1 .. 6 : i = 1 \/ i = 2 \/ i = 3 \/ i = 4 \/ i = 5 \/ i = 6
  OBVIOUS
<1>3. \A i \in 2 .. 6 : i = 2 \/ i = 3 \/ i = 4 \/ i = 5 \/ i = 6
  OBVIOUS
<1>4. Whole6(RewriteP6) /\ Whole7(RewriteP7)
  BY DEF Whole6, Whole7, RewriteP6, RewriteP7
<1>5. \A i \in 1 .. 6 : 6 - 6 + i = i
  OBVIOUS
<1>6. Len(s) <= 6
  BY <1>1
<1>7. EndOfRewrite(Rewrite)
  BY <1>1, <1>5, <1>6 DEF EndOfRewrite, TakenFromRewrite
<1> HIDE DEF s
<1>8. GoodPlan(s)
  <2>1. /\ Provides(s[4], "0006") /\ 4 \in 1 .. 5 - 1
        /\ Provides(s[4], "0007") /\ 4 \in 1 .. 6 - 1
    BY <1>1, StepOps DEF Provides, Series
  <2> QED BY <1>1, <1>2, <2>1, StepOps DEF GoodPlan
<1>9. InOrder(s)
  BY <1>1, <1>2, <1>3, StepOps DEF InOrder
<1>10. WholeWrites(s)
  BY <1>1, <1>2, <1>4, StepOps DEF WholeWrites
<1> QED BY <1>7, <1>8, <1>9, <1>10 DEF CheckedPlan, s

(* A script that starts with such a plan keeps the invariant.              *)
LEMMA StartKeeps ==
  ASSUME IInv, NEW s, s # "none", NEW steps, Run(s, steps),
         GoodPlan(steps), s \notin Unchecked => CheckedPlan(steps),
         s = "rewrite" => steps = Rewrite
  PROVE  IInv'
<1>1. /\ script' = s /\ plan' = steps
      /\ trusted' = (trusted /\ s \notin Unchecked)
      /\ UNCHANGED <<out, mirror, wsl, ended>>
  BY DEF Run
<1>2. Typed'
  BY <1>1 DEF IInv, Typed, DirType, GoodPlan
<1>3. CopiesExist'
  BY <1>1 DEF CopiesExist, GoodPlan
<1>4. ASSUME steps # <<>> PROVE Head(steps).op \notin {"copy", "assert_size"}
  <2>1. Head(steps) = steps[1]
    BY <1>4, HeadLeft DEF GoodPlan
  <2> QED BY <1>4, <2>1 DEF GoodPlan
<1>5. ChecksFirst'
  <2> SUFFICES ASSUME s \notin Unchecked PROVE InOrder(plan') /\ TrialCounts'
    BY <1>1 DEF ChecksFirst
  <2>1. InOrder(plan')
    BY <1>1 DEF CheckedPlan
  <2>2. ~At(AssertSize)' /\ ~At(Copy("0006"))' /\ ~At(Copy("0007"))'
    BY <1>1, <1>4, StepOps DEF At
  <2> QED BY <2>1, <2>2 DEF TrialCounts
<1>6. TrustKept'
  <2> SUFFICES ASSUME trusted, s \notin Unchecked
               PROVE  WholeOut' /\ WholeWrites(plan') /\ (wsl' => WholeMirror')
    BY <1>1 DEF TrustKept
  <2>1. WholeOut /\ (wsl => WholeMirror)
    BY DEF IInv, TrustKept
  <2>2. WholeWrites(plan')
    BY <1>1, <2>1 DEF CheckedPlan
  <2> QED BY <1>1, <2>1, <2>2 DEF WholeOut, WholeMirror, Has
<1>7. RewriteProgress'
  <2> SUFFICES ASSUME s = "rewrite" PROVE EndOfRewrite(plan') /\ MadeSoFar(Len(plan))'
    BY <1>1 DEF RewriteProgress
  <2>1. EndOfRewrite(plan')
    BY <1>1, PlanRewrite
  <2>2. Len(plan') = 6
    BY <1>1, RewriteSteps
  <2>3. ~(Len(plan') <= 4) /\ ~(Len(plan') <= 3) /\ ~(Len(plan') <= 1) /\ Len(plan') # 0
    BY <2>2
  <2> QED BY <2>1, <2>3, Zenon DEF MadeSoFar
<1>8. RewriteRepairs'
  BY <1>1 DEF RewriteRepairs
<1> QED BY <1>2, <1>3, <1>5, <1>6, <1>7, <1>8 DEF IInv

(* The edits of a patch.                                                   *)

LEMMA Edits6 ==
  ASSUME NEW p \in P6Type
  PROVE  /\ \A z \in {"inner", "leading", "gone"} :
              /\ [p EXCEPT !.size = z] \in P6Type
              /\ [p EXCEPT !.size = z].header = p.header
         /\ [p EXCEPT !.header = "miscounted"] \in P6Type
         /\ [p EXCEPT !.xfer = "three", !.counts = FALSE] \in P6Type
         /\ \A t \in Seq(Hunks) :
              OneOf(t, WhitelistHunks) /\ OneOf(t, {"nvedit"}) =>
                /\ [p EXCEPT !.tail = t] \in P6Type
                /\ [p EXCEPT !.tail = t].header = p.header
<1>1. /\ p \in [xfer : {"four", "three"}, counts : BOOLEAN,
                size : {"inner", "leading", "gone"}, tail : Seq(Hunks),
                header : {"unchanged", "usbeth", "spl", "miscounted"}]
      /\ OneOf(p.tail, WhitelistHunks) /\ OneOf(p.tail, {"nvedit"})
  BY DEF P6Type
<1>2. ASSUME NEW z \in {"inner", "leading", "gone"}
      PROVE  /\ [p EXCEPT !.size = z] \in P6Type
             /\ [p EXCEPT !.size = z].header = p.header
  BY <1>1 DEF P6Type
<1>3. [p EXCEPT !.header = "miscounted"] \in P6Type
  BY <1>1 DEF P6Type
<1>4. [p EXCEPT !.xfer = "three", !.counts = FALSE] \in P6Type
  BY <1>1 DEF P6Type
<1>5. ASSUME NEW t \in Seq(Hunks), OneOf(t, WhitelistHunks), OneOf(t, {"nvedit"})
      PROVE  /\ [p EXCEPT !.tail = t] \in P6Type
             /\ [p EXCEPT !.tail = t].header = p.header
  BY <1>1, <1>5 DEF P6Type
<1> QED BY <1>2, <1>3, <1>4, <1>5

LEMMA Edit7 ==
  ASSUME NEW p \in P7Type
  PROVE  [p EXCEPT !.gate = "tolerate", !.counts = FALSE] \in P7Type
BY DEF P7Type

(* A hunk that is appended when there is none of its kind.                 *)
LEMMA AppendOne ==
  ASSUME NEW tail \in Seq(Hunks), NEW h \in Hunks, NEW kinds,
         OneOf(tail, kinds),
         h \in kinds => \A i \in DOMAIN tail : tail[i] \notin kinds
  PROVE  Append(tail, h) \in Seq(Hunks) /\ OneOf(Append(tail, h), kinds)
<1> DEFINE t == Append(tail, h)
<1>1. /\ t \in Seq(Hunks) /\ Len(t) = Len(tail) + 1 /\ t[Len(t)] = h
      /\ \A i \in 1 .. Len(tail) : t[i] = tail[i]
      /\ Len(tail) \in Nat /\ DOMAIN tail = 1 .. Len(tail) /\ DOMAIN t = 1 .. Len(t)
  BY AppendProperties, LenProperties
<1> HIDE DEF t
<1>2. ASSUME NEW i \in DOMAIN t, NEW j \in DOMAIN t, t[i] \in kinds, t[j] \in kinds
      PROVE  i = j
  <2>1. \A k \in DOMAIN t : k \in DOMAIN tail \/ k = Len(t)
    BY <1>1
  <2>2. CASE i \in DOMAIN tail /\ j \in DOMAIN tail
    BY <1>1, <1>2, <2>2 DEF OneOf
  <2>3. CASE h \in kinds
    <3>1. i \notin DOMAIN tail /\ j \notin DOMAIN tail
      BY <1>1, <1>2, <2>3
    <3> QED BY <2>1, <3>1
  <2>4. CASE h \notin kinds
    BY <1>1, <1>2, <2>1, <2>2, <2>4
  <2> QED BY <2>3, <2>4
<1> QED BY <1>1, <1>2 DEF OneOf, t

(* What precedes the whitelist hunk holds none.                            *)
LEMMA NoneBefore ==
  ASSUME NEW tail \in Seq(Hunks), OneOf(tail, WhitelistHunks)
  PROVE  LET kept == BeforeWhitelist(tail) IN
           /\ kept \in Seq(Hunks)
           /\ \A i \in DOMAIN kept : kept[i] \notin WhitelistHunks
           /\ \A kinds : OneOf(tail, kinds) => OneOf(kept, kinds)
<1> DEFINE kept == BeforeWhitelist(tail)
           cuts == {i \in DOMAIN tail : tail[i] \in WhitelistHunks}
<1>1. CASE cuts = {}
  <2>1. kept = tail
    BY <1>1 DEF BeforeWhitelist
  <2>2. \A i \in DOMAIN tail : tail[i] \notin WhitelistHunks
    BY <1>1
  <2> HIDE DEF kept
  <2> QED BY <2>1, <2>2 DEF kept
<1>2. CASE cuts # {}
  <2>1. PICK c \in cuts : TRUE
    BY <1>2
  <2>2. \A j \in cuts : j = c
    BY <2>1 DEF OneOf
  <2> DEFINE m == CHOOSE i \in cuts : \A j \in cuts : i <= j
  <2>3. Len(tail) \in Nat /\ DOMAIN tail = 1 .. Len(tail)
    BY LenProperties
  <2>4. c \in 1 .. Len(tail)
    BY <2>1, <2>3
  <2>5. \A j \in cuts : c <= j
    BY <2>2, <2>4
  <2>6. m \in cuts
    BY <2>1, <2>5, Zenon
  <2>7. m = c
    BY <2>2, <2>6, Zenon
  <2>8. kept = SubSeq(tail, 1, m - 1)
    BY <1>2, Zenon DEF BeforeWhitelist
  <2> HIDE DEF m, kept
  <2>9. kept = SubSeq(tail, 1, c - 1)
    BY <2>7, <2>8
  <2>10. /\ kept \in Seq(Hunks) /\ Len(kept) = c - 1
         /\ \A i \in 1 .. c - 1 : kept[i] = tail[i]
    BY <2>3, <2>4, <2>9, SubSeqProperties
  <2>11. DOMAIN kept = 1 .. c - 1
    BY <2>10, LenProperties
  <2>12. \A i \in DOMAIN kept : i \in DOMAIN tail /\ i # c /\ kept[i] = tail[i]
    BY <2>3, <2>4, <2>10, <2>11
  <2>13. \A i \in DOMAIN kept : kept[i] \notin WhitelistHunks
    BY <2>2, <2>12
  <2>14. \A kinds : OneOf(tail, kinds) => OneOf(kept, kinds)
    BY <2>12 DEF OneOf
  <2> QED BY <2>10, <2>13, <2>14 DEF kept
<1> QED BY <1>1, <1>2

(* The header edits that look for a line `diff' does not mark find nothing.*)
LEMMA NeverAdded ==
  ASSUME NEW h, NEW lines, "nowhere" \in lines \/ "ext4_write" \in lines
  PROVE  ~Lines(h, lines)
BY DEF Lines, Added

LEMMA FixPlan ==
  ASSUME NEW p, NEW steps
  PROVE  CheckedPlan(HeaderFix(FALSE, p, steps))
<1>1. "no file" \in Messages /\ "pattern missing" \in Messages
  BY DEF Messages
<1>2. HeaderFix(FALSE, p, steps) \in {<<Exit("no file")>>, <<Exit("pattern missing")>>}
  BY Zenon DEF HeaderFix
<1> QED BY <1>1, <1>2, PlanExit

(* What the edited patch inherits when the working copy is whole.          *)
LEMMA Out6 ==
  ASSUME IInv, Has(out, {"0006"})
  PROVE  out["0006"] \in P6Type /\ (WholeOut => Whole6(out["0006"]))
BY DEF IInv, Typed, DirType, Has, WholeOut

LEMMA GenDualPlan == GoodPlan(GenDual)
<1>1. "missing block" \in Messages
  BY DEF Messages
<1>2. GoodPlan(<<Exit("missing block")>>)
  BY <1>1, PlanExit DEF CheckedPlan
<1> QED BY <1>2, PlanDual DEF GenDual

LEMMA GenMramFramPlan == GoodPlan(GenMramFram)
<1>1. GenP6(tree) \in P6Type
  <2>1. OneOf(<<>>, WhitelistHunks) /\ OneOf(<<>>, {"nvedit"})
    BY DEF OneOf
  <2>2. GenP6(tree) \in
          [xfer : {"four", "three"}, counts : BOOLEAN,
           size : {"inner", "leading", "gone"}, tail : Seq(Hunks),
           header : {"unchanged", "usbeth", "spl", "miscounted"}]
    BY DEF GenP6
  <2>3. GenP6(tree).tail = <<>>
    BY DEF GenP6
  <2> QED BY <2>1, <2>2, <2>3, Zenon DEF P6Type
<1>2. GenP7(tree) \in P7Type
  <2>1. (~tree.call) \in BOOLEAN
    OBVIOUS
  <2> QED BY <2>1 DEF GenP7, P7Type
<1> QED BY <1>1, <1>2, PlanBoth DEF GenMramFram

LEMMA FixPatchesPlan ==
  ASSUME IInv
  PROVE  GoodPlan(FixPatches)
<1>1. /\ "no file" \in Messages /\ "fn missing" \in Messages
      /\ "xfer missing" \in Messages
  BY DEF Messages
<1>2. CASE ~Has(out, {"0007"})
  BY <1>1, <1>2, PlanExit DEF FixPatches, CheckedPlan
<1>3. CASE Has(out, {"0007"}) /\ out["0007"].gate # "require"
  BY <1>1, <1>3, PlanExit DEF FixPatches, CheckedPlan
<1>4. CASE Has(out, {"0007"}) /\ ~(out["0007"].gate # "require")
  <2> DEFINE q == [out["0007"] EXCEPT !.gate = "tolerate", !.counts = FALSE]
             p == [out["0006"] EXCEPT !.xfer = "three", !.counts = FALSE]
  <2>1. q \in P7Type
    BY <1>4, Edit7 DEF IInv, Typed, DirType, Has
  <2>2. CASE ~Has(out, {"0006"})
    <3>1. FixPatches = <<Write("0007", q)>> \o <<Exit("no file")>>
      BY <1>4, <2>2, Zenon DEF FixPatches
    <3> HIDE DEF q
    <3>2. FixPatches = <<Write("0007", q), Exit("no file")>>
      BY <3>1, Cat11
    <3> QED BY <1>1, <2>1, <3>2, PlanFixHalf
  <2>3. CASE Has(out, {"0006"}) /\ out["0006"].xfer # "four"
    <3>1. FixPatches = <<Write("0007", q)>> \o <<Exit("xfer missing")>>
      BY <1>4, <2>3, Zenon DEF FixPatches
    <3> HIDE DEF q
    <3>2. FixPatches = <<Write("0007", q), Exit("xfer missing")>>
      BY <3>1, Cat11
    <3> QED BY <1>1, <2>1, <3>2, PlanFixHalf
  <2>4. CASE Has(out, {"0006"}) /\ ~(out["0006"].xfer # "four")
    <3>1. FixPatches = <<Write("0007", q)>>
                         \o <<Write("0006", p), Copy("0007"), Copy("0006")>>
      BY <1>4, <2>4, Zenon DEF FixPatches
    <3>2. p \in P6Type
      BY <2>4, Out6, Edits6
    <3> HIDE DEF q, p
    <3>3. FixPatches = <<Write("0007", q), Write("0006", p), Copy("0007"), Copy("0006")>>
      BY <3>1, Cat13
    <3> QED BY <2>1, <3>2, <3>3, PlanFix
  <2> QED BY <2>2, <2>3, <2>4
<1> QED BY <1>2, <1>3, <1>4

LEMMA NoWhere4Plan ==
  ASSUME IInv
  PROVE  CheckedPlan(NoWhere4)
<1> DEFINE p == [out["0006"] EXCEPT !.header = "miscounted"]
<1>1. "no file" \in Messages /\ "pattern missing" \in Messages
  BY DEF Messages
<1>2. CASE Has(out, {"0006"}) /\ Lines("usbeth", {"mram"})
  <2>1. p \in P6Type
    BY <1>2, Out6, Edits6
  <2>2. ~WholeOut
    BY <1>2 DEF Lines, WholeOut, Whole6
  <2>3. NoWhere4 = <<Write("0006", p)>> \o <<Apply(Series)>> \o <<Copy("0006")>>
    BY <1>2, Zenon DEF NoWhere4, HeaderFix
  <2> HIDE DEF p
  <2>4. NoWhere4 = <<Write("0006", p), Apply(Series), Copy("0006")>>
    BY <2>3, Around1
  <2> QED BY <2>1, <2>2, <2>4, PlanEdit
<1>3. CASE ~(Has(out, {"0006"}) /\ Lines("usbeth", {"mram"}))
  <2>1. NoWhere4 \in {<<Exit("no file")>>, <<Exit("pattern missing")>>}
    BY <1>3, Zenon DEF NoWhere4, HeaderFix
  <2> QED BY <1>1, <2>1, PlanExit
<1> QED BY <1>2, <1>3

LEMMA EnvSize3Plan ==
  ASSUME IInv
  PROVE  CheckedPlan(EnvSize3)
<1> DEFINE z == CASE out["0006"].header = "spl" -> "leading"
                  [] out["0006"].header = "unchanged" -> out["0006"].size
                  [] OTHER -> "gone"
           p == [out["0006"] EXCEPT !.size = z]
<1>1. "no file" \in Messages
  BY DEF Messages
<1>2. CASE Has(out, {"0006"})
  <2>1. out["0006"] \in P6Type /\ (WholeOut => Whole6(out["0006"]))
    BY <1>2, Out6
  <2>2. z \in {"inner", "leading", "gone"}
    BY <2>1 DEF P6Type
  <2>3. EnvSize3 = <<Write("0006", p)>> \o <<Apply(Series), AssertSize>> \o <<Copy("0006")>>
    BY <1>2, Zenon DEF EnvSize3, HeaderFix
  <2> HIDE DEF z
  <2>4. p \in P6Type /\ p.header = out["0006"].header
    BY <2>1, <2>2, Edits6
  <2>5. WholeOut => Whole6(p)
    BY <2>1, <2>4 DEF Whole6
  <2> HIDE DEF p
  <2>6. EnvSize3 = <<Write("0006", p), Apply(Series), AssertSize, Copy("0006")>>
    BY <2>3, Around2
  <2> QED BY <2>4, <2>5, <2>6, PlanSize
<1>3. CASE ~Has(out, {"0006"})
  <2>1. EnvSize3 = <<Exit("no file")>>
    BY <1>3, Zenon DEF EnvSize3, HeaderFix
  <2> QED BY <1>1, <2>1, PlanExit
<1> QED BY <1>2, <1>3

(* A hunk appended to 0006 leaves the working copy whole.                  *)
LEMMA Appended ==
  ASSUME IInv, Has(out, {"0006"}), NEW t \in Seq(Hunks),
         OneOf(t, WhitelistHunks), OneOf(t, {"nvedit"})
  PROVE  LET p == [out["0006"] EXCEPT !.tail = t]
         IN  p \in P6Type /\ (WholeOut => Whole6(p))
<1> DEFINE p == [out["0006"] EXCEPT !.tail = t]
<1>1. out["0006"] \in P6Type /\ (WholeOut => Whole6(out["0006"]))
  BY Out6
<1>2. p \in P6Type /\ p.header = out["0006"].header
  BY <1>1, Edits6
<1> HIDE DEF p
<1>3. WholeOut => Whole6(p)
  BY <1>1, <1>2 DEF Whole6
<1> QED BY <1>2, <1>3 DEF p

LEMMA Tail6 ==
  ASSUME IInv, Has(out, {"0006"})
  PROVE  /\ out["0006"].tail \in Seq(Hunks)
         /\ OneOf(out["0006"].tail, WhitelistHunks)
         /\ OneOf(out["0006"].tail, {"nvedit"})
BY Out6 DEF P6Type

LEMMA WhitelistPlan ==
  ASSUME IInv
  PROVE  CheckedPlan(Whitelist)
<1> DEFINE tail == out["0006"].tail
           p == [out["0006"] EXCEPT !.tail = Append(tail, "whitelist")]
<1>1. "no file" \in Messages
  BY DEF Messages
<1>2. CASE ~Has(out, {"0006"})
  BY <1>1, <1>2, PlanExit DEF Whitelist
<1>3. CASE Has(out, {"0006"}) /\ HasHunk(out["0006"], WhitelistHunks)
  BY <1>3, PlanEmpty DEF Whitelist
<1>4. CASE Has(out, {"0006"}) /\ ~HasHunk(out["0006"], WhitelistHunks)
  <2>1. Whitelist = <<Apply({}), Apply({"0006"}), Write("0006", p),
                      Apply(Series), Copy("0006"), Copy("0007")>>
    BY <1>4, Zenon DEF Whitelist
  <2>2. \A i \in DOMAIN tail : tail[i] \notin WhitelistHunks
    BY <1>4 DEF HasHunk
  <2>3. "whitelist" \in Hunks /\ "whitelist" \notin {"nvedit"}
    BY DEF Hunks
  <2>4. /\ Append(tail, "whitelist") \in Seq(Hunks)
        /\ OneOf(Append(tail, "whitelist"), WhitelistHunks)
        /\ OneOf(Append(tail, "whitelist"), {"nvedit"})
    BY <1>4, <2>2, <2>3, Tail6, AppendOne
  <2>5. p \in P6Type /\ (WholeOut => Whole6(p))
    BY <1>4, <2>4, Appended
  <2> HIDE DEF p
  <2> QED BY <2>1, <2>5, PlanWhitelist
<1> QED BY <1>2, <1>3, <1>4

LEMMA WhitelistSortedPlan ==
  ASSUME IInv
  PROVE  CheckedPlan(WhitelistSorted)
<1> DEFINE kept == BeforeWhitelist(out["0006"].tail)
           added == Append(kept, "whitelist_sorted")
           p == [out["0006"] EXCEPT !.tail = kept]
           q == [out["0006"] EXCEPT !.tail = added]
<1>1. "no file" \in Messages
  BY DEF Messages
<1>2. CASE ~Has(out, {"0006"})
  BY <1>1, <1>2, PlanExit DEF WhitelistSorted
<1>3. CASE Has(out, {"0006"})
  <2>1. WhitelistSorted = <<Write("0006", p), Apply({}), Apply({"0006"}),
                            Write("0006", q), Apply(Series), Copy("0006")>>
    BY <1>3, Zenon DEF WhitelistSorted
  <2>2. /\ kept \in Seq(Hunks)
        /\ \A i \in DOMAIN kept : kept[i] \notin WhitelistHunks
        /\ OneOf(kept, WhitelistHunks) /\ OneOf(kept, {"nvedit"})
    BY <1>3, Tail6, NoneBefore
  <2>3. "whitelist_sorted" \in Hunks /\ "whitelist_sorted" \notin {"nvedit"}
    BY DEF Hunks
  <2> HIDE DEF kept
  <2>4. /\ added \in Seq(Hunks)
        /\ OneOf(added, WhitelistHunks) /\ OneOf(added, {"nvedit"})
    BY <2>2, <2>3, AppendOne
  <2> HIDE DEF added
  <2>5. p \in P6Type /\ (WholeOut => Whole6(p))
    BY <1>3, <2>2, Appended
  <2>6. q \in P6Type /\ (WholeOut => Whole6(q))
    BY <1>3, <2>4, Appended
  <2> HIDE DEF p, q
  <2> QED BY <2>1, <2>5, <2>6, PlanSorted
<1> QED BY <1>2, <1>3

LEMMA AddNveditPlan ==
  ASSUME IInv
  PROVE  CheckedPlan(AddNvedit)
<1> DEFINE tail == out["0006"].tail
           p == [out["0006"] EXCEPT !.tail = Append(tail, "nvedit")]
<1>1. "no file" \in Messages
  BY DEF Messages
<1>2. CASE ~Has(out, {"0006"})
  BY <1>1, <1>2, PlanExit DEF AddNvedit
<1>3. CASE Has(out, {"0006"}) /\ HasHunk(out["0006"], {"nvedit"})
  BY <1>3, PlanEmpty DEF AddNvedit
<1>4. CASE Has(out, {"0006"}) /\ ~HasHunk(out["0006"], {"nvedit"})
  <2>1. AddNvedit = <<Apply({"0006"}), Write("0006", p), Apply(Series), Copy("0006")>>
    BY <1>4, Zenon DEF AddNvedit
  <2>2. \A i \in DOMAIN tail : tail[i] \notin {"nvedit"}
    BY <1>4 DEF HasHunk
  <2>3. "nvedit" \in Hunks /\ "nvedit" \notin WhitelistHunks
    BY DEF Hunks, WhitelistHunks
  <2>4. /\ Append(tail, "nvedit") \in Seq(Hunks)
        /\ OneOf(Append(tail, "nvedit"), WhitelistHunks)
        /\ OneOf(Append(tail, "nvedit"), {"nvedit"})
    BY <1>4, <2>2, <2>3, Tail6, AppendOne
  <2>5. p \in P6Type /\ (WholeOut => Whole6(p))
    BY <1>4, <2>4, Appended
  <2> HIDE DEF p
  <2> QED BY <2>1, <2>5, PlanAdd
<1> QED BY <1>2, <1>3, <1>4

LEMMA StartStepKeeps ==
  ASSUME IInv, Start
  PROVE  IInv'
<1>1. \A h, lines : "nowhere" \in lines \/ "ext4_write" \in lines => ~Lines(h, lines)
  BY NeverAdded
<1>2. CASE Run("gen_dual", GenDual)
  BY <1>2, GenDualPlan, StartKeeps DEF Unchecked
<1>3. CASE Run("gen_mram_fram", GenMramFram)
  BY <1>3, GenMramFramPlan, StartKeeps DEF Unchecked
<1>4. CASE Run("rewrite", Rewrite)
  BY <1>4, PlanRewrite, StartKeeps DEF CheckedPlan
<1>5. CASE Run("fix_patches", FixPatches)
  BY <1>5, FixPatchesPlan, StartKeeps DEF Unchecked
<1>6. CASE Run("nowhere", NoWhere)
  <2>1. NoWhere = HeaderFix(FALSE, RewriteP6, <<>>)
    BY <1>1 DEF NoWhere, HeaderFix
  <2> QED BY <1>6, <2>1, FixPlan, StartKeeps DEF CheckedPlan
<1>7. CASE Run("nowhere3", NoWhere3)
  <2>1. NoWhere3 = HeaderFix(FALSE, RewriteP6, <<Apply(Series)>>)
    BY <1>1 DEF NoWhere3, HeaderFix
  <2> QED BY <1>7, <2>1, FixPlan, StartKeeps DEF CheckedPlan
<1>8. CASE Run("nowhere4", NoWhere4)
  BY <1>8, NoWhere4Plan, StartKeeps DEF CheckedPlan
<1>9. CheckedPlan(EnvSizeSpl) /\ CheckedPlan(EnvSize2)
  <2> DEFINE p == [out["0006"] EXCEPT !.size = "leading"]
             steps == <<Apply(Series), AssertSize>>
  <2>1. EnvSizeSpl = HeaderFix(FALSE, p, steps) /\ EnvSize2 = HeaderFix(FALSE, p, steps)
    BY <1>1 DEF EnvSizeSpl, EnvSize2, HeaderFix
  <2> HIDE DEF p, steps
  <2> QED BY <2>1, FixPlan
<1>10. CASE Run("env_size_spl", EnvSizeSpl)
  BY <1>9, <1>10, StartKeeps DEF CheckedPlan
<1>11. CASE Run("show_and_fix_envsize", ShowAndFixEnvSize)
  BY <1>9, <1>11, StartKeeps DEF CheckedPlan, ShowAndFixEnvSize
<1>12. CASE Run("envsize2", EnvSize2)
  BY <1>9, <1>12, StartKeeps DEF CheckedPlan
<1>13. CASE Run("envsize3", EnvSize3)
  BY <1>13, EnvSize3Plan, StartKeeps DEF CheckedPlan
<1>14. CASE Run("whitelist", Whitelist)
  BY <1>14, WhitelistPlan, StartKeeps DEF CheckedPlan
<1>15. CASE Run("whitelist_sorted", WhitelistSorted)
  BY <1>15, WhitelistSortedPlan, StartKeeps DEF CheckedPlan
<1>16. CASE Run("add_nvedit", AddNvedit)
  BY <1>16, AddNveditPlan, StartKeeps DEF CheckedPlan
<1> QED BY <1>2, <1>3, <1>4, <1>5, <1>6, <1>7, <1>8, <1>10, <1>11, <1>12,
           <1>13, <1>14, <1>15, <1>16 DEF Start
-----------------------------------------------------------------------------
LEMMA InitIInv == Init => IInv
<1> SUFFICES ASSUME Init PROVE IInv
  OBVIOUS
<1>1. /\ script = "none" /\ plan = <<>> /\ ended = [by |-> "none", ok |-> TRUE]
      /\ ~trusted
  BY DEF Init
<1>2. "0006" \notin DOMAIN out /\ "0007" \notin DOMAIN out /\ mirror = out
  BY DEF Init
<1>3. plan \in Seq(Steps) /\ Len(plan) = 0
  BY <1>1, NothingLeft, Zenon
<1>4. Typed
  BY <1>2, <1>3 DEF Typed, DirType
<1>5. CopiesExist
  BY <1>3 DEF CopiesExist
<1>6. InOrder(plan)
  BY <1>3 DEF InOrder
<1>7. ~At(AssertSize) /\ ~At(Copy("0006")) /\ ~At(Copy("0007"))
  BY <1>1 DEF At
<1>8. ChecksFirst
  BY <1>6, <1>7 DEF ChecksFirst, TrialCounts
<1>9. TrustKept /\ RewriteProgress
  BY <1>1 DEF TrustKept, RewriteProgress
<1>10. RewriteRepairs
  BY <1>1 DEF RewriteRepairs
<1> QED BY <1>4, <1>5, <1>8, <1>9, <1>10 DEF IInv

LEMMA NextIInv == IInv /\ [Next]_vars => IInv'
<1> SUFFICES ASSUME IInv, [Next]_vars PROVE IInv'
  OBVIOUS
<1>1. CASE Start
  BY <1>1, StartStepKeeps
<1>2. CASE WriteStep
  BY <1>2, WriteStepKeeps
<1>3. CASE ApplyStep
  BY <1>3, ApplyStepKeeps
<1>4. CASE AssertStep
  BY <1>4, AssertStepKeeps
<1>5. CASE CopyStep
  BY <1>5, CopyStepKeeps
<1>6. CASE ExitStep
  BY <1>6, FailStep DEF ExitStep, Next0
<1>7. CASE Finish
  BY <1>7, FinishKeeps
<1>8. CASE Kill
  BY <1>8, FailStep DEF Kill
<1>9. CASE Rebuild
  BY <1>9, UnchangedKeeps DEF Rebuild
<1>10. CASE UNCHANGED vars
  BY <1>10, UnchangedKeeps DEF vars
<1> QED BY <1>1, <1>2, <1>3, <1>4, <1>5, <1>6, <1>7, <1>8, <1>9, <1>10 DEF Next

(* The invariant holds of every sequence of scripts.                       *)
THEOREM SpecInvariant == Spec => []IInv
BY InitIInv, NextIInv, PTL DEF Spec

(* After a rewrite that succeeded, the editing scripts, whether they fail, *)
(* are killed or run again, leave the mirror with a 0006 that patch(1)     *)
(* takes and every edit the board needs.                                   *)
THEOREM TrustedMirrors == Spec => []TrustedMirrorWhole
<1>1. IInv => TrustedMirrorWhole
  BY DEF IInv, TrustKept, WholeMirror, TrustedMirrorWhole, Series, Whole6, Whole7
<1> QED BY <1>1, SpecInvariant, PTL

(* A rewrite that exits with status 0 has put its own two patches in the   *)
(* working copy and, when there is one, in the mirror.                     *)
THEOREM RewritesRepair == Spec => []RewriteRepairs
<1>1. IInv => RewriteRepairs
  BY DEF IInv
<1> QED BY <1>1, SpecInvariant, PTL

LEMMA AtMostOne ==
  ASSUME NEW S, \A i, j \in S : i = j
  PROVE  Cardinality(S) <= 1
<1>1. CASE S = {}
  BY <1>1, FS_EmptySet
<1>2. CASE S # {}
  <2>1. PICK x \in S : TRUE
    BY <1>2
  <2>2. S = {x}
    BY <2>1
  <2> QED BY <2>2, FS_Singleton
<1> QED BY <1>1, <1>2

(* No sequence of the scripts leaves two hunks for one file at the end of  *)
(* a 0006, in the working copy or in the mirror.                           *)
THEOREM HunksOnce == Spec => []NoDoubleHunk
<1>1. ASSUME IInv PROVE NoDoubleHunk
  <2> SUFFICES ASSUME NEW dir \in {out, mirror}, "0006" \in DOMAIN dir,
                      NEW kinds \in {WhitelistHunks, {"nvedit"}}
               PROVE  Cardinality({i \in DOMAIN dir["0006"].tail :
                                     dir["0006"].tail[i] \in kinds}) <= 1
    BY DEF NoDoubleHunk
  <2>1. dir["0006"] \in P6Type
    BY <1>1 DEF IInv, Typed, DirType
  <2>2. OneOf(dir["0006"].tail, kinds)
    BY <2>1 DEF P6Type
  <2> QED BY <2>2, AtMostOne DEF OneOf
<1> QED BY <1>1, SpecInvariant, PTL

(* A script that tries the series brings to the mirror only a 0006 that    *)
(* was in a series that applied: nothing is written after the trial.       *)
THEOREM CopiesChecked == Spec => CheckedCopies
<1> DEFINE Checked == mirror' # mirror /\ script \notin Unchecked
                        => WellFormed(mirror'["0006"])
<1>1. ASSUME IInv, [Next]_vars PROVE [Checked]_vars
  <2> SUFFICES ASSUME mirror' # mirror, script \notin Unchecked
               PROVE  WellFormed(mirror'["0006"])
    OBVIOUS
  <2>1. CopyStep
    BY <1>1 DEF Next, vars, Start, Run, WriteStep, ApplyStep, AssertStep, ExitStep,
                Finish, Kill, Rebuild
  <2>2. /\ wsl' /\ wsl /\ Applies(out, Series)
        /\ Head(plan) \in {Copy("0006"), Copy("0007")}
        /\ Head(plan) = Copy("0007") => MirrorsOut6
        /\ mirror' = Put(mirror, Head(plan).file, out[Head(plan).file])
    BY <1>1, <2>1, CopyBrings
  <2>3. WellFormed(out["0006"])
    BY <2>2 DEF Applies, Series
  <2>4. CASE Head(plan) = Copy("0006")
    <3>1. Head(plan).file = "0006"
      BY <2>4, StepOps
    <3>2. mirror'["0006"] = out["0006"]
      BY <2>2, <3>1 DEF Put
    <3> QED BY <2>3, <3>2
  <2>5. CASE Head(plan) = Copy("0007")
    <3>1. Head(plan).file = "0007"
      BY <2>5, StepOps
    <3>2. mirror'["0006"] = mirror["0006"]
      BY <2>2, <2>5, <3>1 DEF MirrorsOut6, Put
    <3> QED BY <2>2, <2>3, <2>5, <3>2 DEF MirrorsOut6
  <2> QED BY <2>2, <2>4, <2>5
<1>2. IInv /\ [Next]_vars => [Checked]_vars
  BY <1>1
<1>3. Spec => [][Checked]_vars
  BY <1>2, SpecInvariant, PTL DEF Spec
<1> QED BY <1>3 DEF CheckedCopies
=============================================================================
