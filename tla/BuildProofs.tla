---------------------------- MODULE BuildProofs ----------------------------
(***************************************************************************)
(* The build tool, for every set of modules, every graph without a cycle   *)
(* of what they depend on, every list of files and every order in which    *)
(* the compilers end: what each compiler is told, what the linker gets and *)
(* that each process is waited for once.                                   *)
(*                                                                         *)
(* The walks of the tool are recursive, and the provers have no induction  *)
(* that takes a formula: where one is needed, the least number for which a *)
(* fact fails is taken, and shown not to be the least.                     *)
(***************************************************************************)
EXTENDS Build, SequenceTheorems, FiniteSetTheorems, WellFoundedInduction, TLAPS

\* A ranking of the modules under which dependencies fall.
Falls(r) == \A m \in Module : \A d \in ToSet(Dependencies[m]) : r[d] < r[m]
Depth == Cardinality(Module)
Rank == CHOOSE r \in [Module -> 1 .. Depth] : Falls(r)

\* A call of the tool: which procedure, for which module, and its next step.
Frame == [proc : {"init", "compile", "wait", "collect"}, module : Module, next : Nat \ {0}]

\* What the variables hold.
TypeOK ==
  /\ main \in {"declare", "wait", "ended", "aborted"}
  /\ is_link_option \in BOOLEAN
  /\ stack \in Seq(Frame)
  /\ dependencies \in [Module -> Seq(Module)]
  /\ is_compiled \in [Module -> {-1, 0, 1}]
  /\ compiling_pid \in [SourceFile -> {-1, 0, 1}]
  /\ includes \in [SourceFile -> SUBSET Module]
  /\ process \in [SourceFile -> {"none", "running", "succeeded", "failed"}]

\* Which modules calls are under way for, and for which one call waits.
Called(m) == \E i \in 1 .. Len(stack) : stack[i].module = m
Calls(i, m) == i < Len(stack) /\ stack[i + 1].module = m

\* Which calls are under way together: no module is in two of them.
CallsNest ==
  /\ \A i, j \in 1 .. Len(stack) : i < j => Rank[stack[j].module] < Rank[stack[i].module]
  /\ \A i \in 1 .. Len(stack) :
       /\ stack[i].proc \in (IF main = "declare" THEN {"init", "compile"} ELSE {"wait", "collect"})
       /\ i < Len(stack) => stack[i].proc \in {"init", "wait"}
  /\ main = "ended" => stack = <<>>

\* A module under way or over has declared what it was asked to, and a module that is
\* compiled was preceded by all it declared.
DeclaredModule(m) ==
  /\ ToSet(dependencies[m]) \subseteq ToSet(Dependencies[m])
  /\ is_compiled[m] = 0 /\ ~Called(m) => dependencies[m] = <<>>
  /\ is_compiled[m] # 0 =>
       /\ ToSet(dependencies[m]) = ToSet(Dependencies[m])
       /\ \A d \in ToSet(Dependencies[m]) : is_compiled[d] # 0

DeclaredCall(i) ==
  LET m == stack[i].module
  IN IF stack[i].proc = "init"
     THEN /\ is_compiled[m] = 0
          /\ \A j \in 1 .. Len(Dependencies[m]) :
               j < stack[i].next => Dependencies[m][j] \in ToSet(dependencies[m])
          /\ \A d \in ToSet(dependencies[m]) : is_compiled[d] # 0 \/ Calls(i, d)
     ELSE is_compiled[m] # 0

DeclaredFirst ==
  /\ \A m \in Module : DeclaredModule(m)
  /\ IF main = "declare" THEN is_compiled[Root] # 0 \/ Called(Root) ELSE is_compiled[Root] # 0
  /\ \A i \in 1 .. Len(stack) : DeclaredCall(i)

\* How far the compiler processes of a module are.
Pid(m, i) ==
  IF stack # <<>> /\ Top.module = m /\ Top.proc = "compile" THEN IF i < Top.next THEN 1 ELSE 0
  ELSE IF stack # <<>> /\ Top.module = m /\ Top.proc = "collect" THEN IF i < Top.next THEN -1 ELSE 1
  ELSE 0 - is_compiled[m]

ProcessesKnown ==
  /\ \A m \in Module : \A i \in DOMAIN FilesOf(m) : compiling_pid[FilesOf(m)[i]] = Pid(m, i)
  /\ \A f \in SourceFile :
       /\ process[f] = "none" <=> compiling_pid[f] = 0
       /\ compiling_pid[f] = -1 => process[f] \in {"succeeded", "failed"}

\* A module is waited for after all it declared.
WaitedCall(i) ==
  LET m == stack[i].module
  IN /\ stack[i].proc \in {"compile", "collect"} => is_compiled[m] = -1
     /\ stack[i].proc = "wait" =>
          /\ stack[i].next > 1 => is_compiled[m] = -1
          /\ \A j \in 1 .. Len(dependencies[m]) :
               j < stack[i].next => is_compiled[dependencies[m][j]] = 1 \/ Calls(i, dependencies[m][j])
     /\ stack[i].proc = "collect" =>
          \A d \in ToSet(dependencies[m]) : is_compiled[d] = 1

WaitedFor ==
  /\ \A m \in Module : is_compiled[m] = 1 => \A d \in ToSet(dependencies[m]) : is_compiled[d] = 1
  /\ main = "wait" => is_compiled[Root] = 1 \/ Called(Root)
  /\ main = "ended" => is_compiled[Root] = 1
  /\ \A i \in 1 .. Len(stack) : WaitedCall(i)

BuildInv ==
  TypeOK /\ CallsNest /\ DeclaredFirst /\ ProcessesKnown /\ WaitedFor
  /\ EveryFileIsAwaitedOnce /\ IncludesAreTransitive /\ LinkIsComplete
-----------------------------------------------------------------------------
\* There is such a ranking: the graph has no cycle and the modules are finitely many.
LEMMA RankFalls ==
  /\ Depth \in Nat
  /\ Rank \in [Module -> 1 .. Depth] /\ Rank \in [Module -> Nat]
  /\ Falls(Rank)
  <1>1. \E r \in [Module -> 1 .. Depth] : Falls(r)
    BY BuildAssumption DEF Falls, Depth
  <1>2. Depth \in Nat
    BY BuildAssumption, FS_CardinalityType DEF Depth
  <1>3. Rank \in [Module -> 1 .. Depth] /\ Falls(Rank)
    BY <1>1 DEF Rank
  <1>4. \A m \in Module : Rank[m] \in Nat
    BY <1>2, <1>3
  <1>. QED BY <1>2, <1>3, <1>4

\* The elements of a sequence are at its indices.
LEMMA Elements ==
  ASSUME NEW S, NEW s \in Seq(S)
  PROVE  /\ \A x : x \in ToSet(s) <=> \E i \in 1 .. Len(s) : x = s[i]
         /\ ToSet(s) \subseteq S
         /\ DOMAIN s = 1 .. Len(s)
         /\ Len(s) \in Nat
  BY DEF ToSet

\* What a sequence holds after one more was appended.
LEMMA AppendAdds ==
  ASSUME NEW S, NEW s \in Seq(S), NEW x \in S
  PROVE  /\ Append(s, x) \in Seq(S)
         /\ ToSet(Append(s, x)) = ToSet(s) \cup {x}
         /\ Len(Append(s, x)) = Len(s) + 1
         /\ \A i \in 1 .. Len(s) : Append(s, x)[i] = s[i]
         /\ Append(s, x)[Len(s) + 1] = x
  <1> DEFINE t == Append(s, x)
  <1>1. /\ t \in Seq(S)
        /\ Len(t) = Len(s) + 1
        /\ \A i \in 1 .. Len(s) : t[i] = s[i]
        /\ t[Len(s) + 1] = x
    OBVIOUS
  <1>. HIDE DEF t
  <1>2. ASSUME NEW y \in ToSet(t) PROVE y \in ToSet(s) \cup {x}
    <2>1. PICK i \in 1 .. Len(t) : y = t[i]
      BY <1>1, <1>2, Elements
    <2>2. CASE i = Len(s) + 1
      BY <2>1, <2>2, <1>1
    <2>3. CASE i # Len(s) + 1
      <3>1. i \in 1 .. Len(s)
        BY <2>1, <2>3, <1>1
      <3>. QED BY <2>1, <3>1, <1>1, Elements
    <2>. QED BY <2>2, <2>3
  <1>3. ASSUME NEW y \in ToSet(s) PROVE y \in ToSet(t)
    <2>1. PICK i \in 1 .. Len(s) : y = s[i]
      BY <1>3, Elements
    <2>2. i \in 1 .. Len(t) /\ y = t[i]
      BY <2>1, <1>1
    <2>. QED BY <2>2, <1>1, Elements
  <1>4. x \in ToSet(t)
    <2>1. Len(s) + 1 \in 1 .. Len(t)
      BY <1>1
    <2>. QED BY <2>1, <1>1, Elements
  <1>. QED BY <1>1, <1>2, <1>3, <1>4 DEF t

\* A list without repetitions stays one when what it lacks is appended.
LEMMA InjectiveAppend ==
  ASSUME NEW S, NEW s \in Seq(S), NEW x \in S, IsInjective(s), x \notin ToSet(s)
  PROVE  IsInjective(Append(s, x))
  <1> DEFINE t == Append(s, x)
  <1>1. /\ DOMAIN t = 1 .. Len(s) + 1
        /\ \A i \in 1 .. Len(s) : t[i] = s[i]
        /\ t[Len(s) + 1] = x
        /\ Len(s) \in Nat
    OBVIOUS
  <1>. HIDE DEF t
  <1>2. \A i \in 1 .. Len(s) : t[i] # x
    BY <1>1, Elements
  <1>3. \A i, j \in 1 .. Len(s) : s[i] = s[j] => i = j
    BY Elements DEF IsInjective
  <1>4. ASSUME NEW i \in 1 .. Len(s) + 1, NEW j \in 1 .. Len(s) + 1, t[i] = t[j] PROVE i = j
    <2>1. CASE i = Len(s) + 1
      BY <2>1, <1>1, <1>2, <1>4
    <2>2. CASE j = Len(s) + 1
      BY <2>2, <1>1, <1>2, <1>4
    <2>3. CASE i # Len(s) + 1 /\ j # Len(s) + 1
      BY <2>3, <1>1, <1>3, <1>4
    <2>. QED BY <2>1, <2>2, <2>3
  <1>. QED BY <1>1, <1>4 DEF IsInjective, t

\* All files are known, the driver's too.
LEMMA SourcesKnown ==
  /\ DriverFile \in SourceFile
  /\ \A m \in Module : ToSet(Files[m]) \subseteq SourceFile
  BY DEF SourceFile

\* A module's files are source files, each once.
LEMMA FilesType ==
  ASSUME is_link_option \in BOOLEAN, NEW m \in Module
  PROVE  /\ FilesOf(m) \in Seq(SourceFile)
         /\ IsInjective(FilesOf(m))
         /\ ToSet(FilesOf(m)) = ToSet(Files[m]) \cup (IF m = Root /\ is_link_option THEN {DriverFile} ELSE {})
  <1>1. Files[m] \in Seq(SourceFile) /\ IsInjective(Files[m]) /\ DriverFile \notin ToSet(Files[m])
    BY BuildAssumption
  <1>2. CASE m = Root /\ is_link_option
    <2>1. FilesOf(m) = Append(Files[m], DriverFile)
      BY <1>2 DEF FilesOf
    <2>. QED BY <1>1, <1>2, <2>1, SourcesKnown, AppendAdds, InjectiveAppend
  <1>3. CASE ~(m = Root /\ is_link_option)
    BY <1>1, <1>3 DEF FilesOf
  <1>. QED BY <1>2, <1>3

\* No file is of two modules.
LEMMA FilesDisjoint ==
  ASSUME is_link_option \in BOOLEAN, NEW m \in Module, NEW n \in Module, m # n
  PROVE  ToSet(FilesOf(m)) \cap ToSet(FilesOf(n)) = {}
  <1>1. /\ ToSet(Files[m]) \cap ToSet(Files[n]) = {}
        /\ DriverFile \notin ToSet(Files[m]) /\ DriverFile \notin ToSet(Files[n])
    BY BuildAssumption
  <1>. QED BY <1>1, FilesType

\* So a file tells its module and its place in the list.
LEMMA FilesApart ==
  ASSUME is_link_option \in BOOLEAN, NEW m \in Module, NEW n \in Module,
         NEW i \in DOMAIN FilesOf(m), NEW j \in DOMAIN FilesOf(n),
         FilesOf(m)[i] = FilesOf(n)[j]
  PROVE  m = n /\ i = j
  <1>1. FilesOf(m)[i] \in ToSet(FilesOf(m)) /\ FilesOf(n)[j] \in ToSet(FilesOf(n))
    BY DEF ToSet
  <1>2. m = n
    BY <1>1, FilesDisjoint
  <1>3. IsInjective(FilesOf(m))
    BY FilesType
  <1>. QED BY <1>2, <1>3 DEF IsInjective

-----------------------------------------------------------------------------
\* What each change of the stack leaves of it: the calls below are untouched.
LEMMA ReturnStack ==
  ASSUME stack \in Seq(Frame), stack # <<>>, Return
  PROVE  /\ stack' \in Seq(Frame)
         /\ Len(stack) \in Nat \ {0}
         /\ Len(stack') = Len(stack) - 1
         /\ \A i \in 1 .. Len(stack) - 1 : stack'[i] = stack[i]
  <1>1. Len(stack) \in Nat \ {0}
    OBVIOUS
  <1>2. stack' = SubSeq(stack, 1, Len(stack) - 1)
    BY DEF Return, Front
  <1> DEFINE n == Len(stack) - 1
  <1>3. n \in Nat /\ n \in Int /\ 1 \in Int /\ \A i \in 1 .. n : stack[i] \in Frame
    BY <1>1
  <1>4. Len(stack) - 1 = n
    OBVIOUS
  <1>. HIDE DEF n
  <1>5. /\ SubSeq(stack, 1, n) \in Seq(Frame)
        /\ Len(SubSeq(stack, 1, n)) = IF 1 <= n THEN n - 1 + 1 ELSE 0
        /\ \A i \in 1 .. n - 1 + 1 : SubSeq(stack, 1, n)[i] = stack[1 + i - 1]
    BY <1>3, SubSeqProperties
  <1>6. /\ SubSeq(stack, 1, n) \in Seq(Frame)
        /\ Len(SubSeq(stack, 1, n)) = n
        /\ \A i \in 1 .. n : SubSeq(stack, 1, n)[i] = stack[i]
    BY <1>3, <1>5
  <1>. QED BY <1>1, <1>2, <1>4, <1>6

\* The innermost call goes on to its next step.
LEMMA ContinueStack ==
  ASSUME stack \in Seq(Frame), stack # <<>>, Continue
  PROVE  /\ stack' \in Seq(Frame)
         /\ Len(stack) \in Nat \ {0}
         /\ Len(stack') = Len(stack)
         /\ \A i \in 1 .. Len(stack) : i < Len(stack) => stack'[i] = stack[i]
         /\ stack'[Len(stack)] =
               [proc |-> Top.proc, module |-> Top.module, next |-> Top.next + 1]
  <1>1. Len(stack) \in Nat \ {0} /\ Top \in Frame /\ Top = stack[Len(stack)]
    BY DEF Last, Top
  <1>2. Top.next + 1 \in Nat \ {0}
    BY <1>1 DEF Frame
  <1>3. stack' = [stack EXCEPT ![Len(stack)] = [proc |-> Top.proc, module |-> Top.module, next |-> Top.next + 1]]
    <2>1. [stack[Len(stack)] EXCEPT !.next = stack[Len(stack)].next + 1]
            = [proc |-> Top.proc, module |-> Top.module, next |-> Top.next + 1]
      BY <1>1 DEF Frame
    <2>. QED BY <2>1 DEF Continue
  <1> DEFINE new == [proc |-> Top.proc, module |-> Top.module, next |-> Top.next + 1]
  <1>4. new \in Frame
    BY <1>1, <1>2 DEF Frame
  <1>. HIDE DEF new
  <1>5. stack' = [stack EXCEPT ![Len(stack)] = new]
    BY <1>3 DEF new
  <1>6. /\ stack' \in Seq(Frame) /\ Len(stack') = Len(stack)
        /\ \A i \in 1 .. Len(stack) : i < Len(stack) => stack'[i] = stack[i]
        /\ stack'[Len(stack)] = new
    BY <1>1, <1>4, <1>5
  <1>. QED BY <1>1, <1>6 DEF new

\* The innermost call becomes another of the same module.
LEMMA BecomeStack ==
  ASSUME stack \in Seq(Frame), stack # <<>>,
         NEW proc \in {"init", "compile", "wait", "collect"}, Become(proc)
  PROVE  /\ stack' \in Seq(Frame)
         /\ Len(stack) \in Nat \ {0}
         /\ Len(stack') = Len(stack)
         /\ \A i \in 1 .. Len(stack) : i < Len(stack) => stack'[i] = stack[i]
         /\ stack'[Len(stack)] = [proc |-> proc, module |-> Top.module, next |-> 1]
  <1> DEFINE new == [proc |-> proc, module |-> Top.module, next |-> 1]
  <1>1. Len(stack) \in Nat \ {0} /\ Top \in Frame /\ Top = stack[Len(stack)]
    BY DEF Last, Top
  <1>3. new \in Frame
    BY <1>1 DEF Frame
  <1>4. stack' = [stack EXCEPT ![Len(stack)] = new]
    BY DEF Become
  <1>. HIDE DEF new
  <1>5. /\ stack' \in Seq(Frame) /\ Len(stack') = Len(stack)
        /\ \A i \in 1 .. Len(stack) : i < Len(stack) => stack'[i] = stack[i]
        /\ stack'[Len(stack)] = new
    BY <1>1, <1>3, <1>4
  <1>. QED BY <1>1, <1>5 DEF new

\* The innermost call goes on once a new one returns.
LEMMA ContinueAfterStack ==
  ASSUME stack \in Seq(Frame), stack # <<>>, NEW m \in Module,
         NEW proc \in {"init", "compile", "wait", "collect"}, ContinueAfter(proc, m)
  PROVE  /\ stack' \in Seq(Frame)
         /\ Len(stack) \in Nat \ {0}
         /\ Len(stack') = Len(stack) + 1
         /\ \A i \in 1 .. Len(stack) : i < Len(stack) => stack'[i] = stack[i]
         /\ stack'[Len(stack)] =
               [proc |-> Top.proc, module |-> Top.module, next |-> Top.next + 1]
         /\ stack'[Len(stack) + 1] = [proc |-> proc, module |-> m, next |-> 1]
  <1> DEFINE new == [proc |-> Top.proc, module |-> Top.module, next |-> Top.next + 1]
             call == [proc |-> proc, module |-> m, next |-> 1]
  <1>1. Len(stack) \in Nat \ {0} /\ Top \in Frame /\ Top = stack[Len(stack)]
    BY DEF Last, Top
  <1>2. Top.next + 1 \in Nat \ {0}
    BY <1>1 DEF Frame
  <1>3. [stack[Len(stack)] EXCEPT !.next = stack[Len(stack)].next + 1] = new
    BY <1>1 DEF Frame
  <1>4. new \in Frame
    BY <1>1, <1>2 DEF Frame
  <1>5. call \in Frame
    BY DEF Frame
  <1>6. stack' = Append([stack EXCEPT ![Len(stack)] = new], call)
    BY <1>3 DEF ContinueAfter
  <1>. HIDE DEF new, call
  <1>7. [stack EXCEPT ![Len(stack)] = new] \in Seq(Frame)
    BY <1>1, <1>4
  <1>8. /\ stack' \in Seq(Frame) /\ Len(stack') = Len(stack) + 1
        /\ \A i \in 1 .. Len(stack) : i < Len(stack) => stack'[i] = stack[i]
        /\ stack'[Len(stack)] = new
        /\ stack'[Len(stack) + 1] = call
    BY <1>1, <1>5, <1>6, <1>7
  <1>. QED BY <1>1, <1>8 DEF new, call

-----------------------------------------------------------------------------
\* The order of the natural numbers.
Less == {ss \in Nat \X Nat : ss[1] < ss[2]}

\* It is well-founded.
LEMMA LessIsWellFounded == IsWellFoundedOn(Less, Nat)
  BY NatLessThanWellFounded DEF OpToRel, Less

\* A set of natural numbers that is not empty has a least one: induction without an
\* operator for the formula.
LEMMA LeastExists ==
  ASSUME NEW T, T \subseteq Nat, T # {}
  PROVE  \E x \in T : \A y \in T : x <= y
  <1>1. PICK x \in T : \A y \in T : ~(<<y, x>> \in Less)
    BY LessIsWellFounded, WFMin, Zenon
  <1>2. ASSUME NEW y \in T PROVE x <= y
    <2>1. ~(<<y, x>> \in Less)
      BY <1>1
    <2>2. <<y, x>> \in Nat \X Nat
      OBVIOUS
    <2>3. y \in Nat /\ x \in Nat
      OBVIOUS
    <2>4. ~(y < x)
      BY <2>1, <2>2 DEF Less
    <2>5. QED BY <2>3, <2>4
  <1>3. QED BY <1>2

-----------------------------------------------------------------------------
\* f runs the first n calls of a loop, the first of them with s.
IsRun(calls, s, n, f) == f = [i \in 0 .. n |-> IF i = 0 THEN s ELSE calls[i][f[i - 1]]]

\* A loop that feeds each call what the one before returned can be run.
LEMMA RunExists ==
  ASSUME NEW S, NEW calls \in Seq([S -> S]), NEW s \in S
  PROVE  \E f \in [0 .. Len(calls) -> S] : IsRun(calls, s, Len(calls), f)
  <1> DEFINE Bad == {n \in 0 .. Len(calls) : ~ \E f \in [0 .. n -> S] : IsRun(calls, s, n, f)}
  <1>1. SUFFICES ASSUME Bad # {} PROVE FALSE
    <2>1. Len(calls) \in 0 .. Len(calls)
      OBVIOUS
    <2>. QED BY <2>1
  <1>2. PICK n \in Bad : \A k \in Bad : n <= k
    <2>1. Bad \subseteq Nat
      OBVIOUS
    <2>. QED BY <1>1, <2>1, LeastExists, Zenon
  <1>3. n \in 0 .. Len(calls) /\ ~ \E f \in [0 .. n -> S] : IsRun(calls, s, n, f)
    OBVIOUS
  <1>4. CASE n = 0
    <2> DEFINE f == [i \in 0 .. 0 |-> s]
    <2>1. f \in [0 .. n -> S]
      BY <1>4
    <2>2. f = [i \in 0 .. n |-> IF i = 0 THEN s ELSE calls[i][f[i - 1]]]
      BY <1>4
    <2>. QED BY <1>3, <2>1, <2>2 DEF IsRun
  <1>5. CASE n # 0
    <2>1. n \in Nat /\ n - 1 \in 0 .. Len(calls) /\ n - 1 \notin Bad /\ n \in 1 .. Len(calls)
      <3>1. n \in Nat /\ n - 1 \in 0 .. Len(calls) /\ ~(n <= n - 1)
        BY <1>3, <1>5
      <3>. QED BY <3>1, <1>2, <1>3, <1>5
    <2>2. PICK f \in [0 .. n - 1 -> S] : IsRun(calls, s, n - 1, f)
      BY <2>1
    <2> DEFINE g == [i \in 0 .. n |-> IF i = n THEN calls[n][f[n - 1]] ELSE f[i]]
    <2>3. calls[n] \in [S -> S]
      BY <2>1
    <2>4. f[n - 1] \in S
      BY <2>1
    <2>5. g \in [0 .. n -> S]
      BY <2>1, <2>3, <2>4
    <2>6. ASSUME NEW i \in 0 .. n
          PROVE  g[i] = IF i = 0 THEN s ELSE calls[i][g[i - 1]]
      <3>1. CASE i = n
        BY <2>1, <3>1
      <3>2. CASE i # n
        <4>1. i \in 0 .. n - 1 /\ g[i] = f[i]
          BY <2>1, <3>2
        <4>2. f[i] = IF i = 0 THEN s ELSE calls[i][f[i - 1]]
          BY <2>2, <4>1 DEF IsRun
        <4>3. i # 0 => i - 1 \in 0 .. n /\ i - 1 # n
          BY <2>1, <4>1
        <4>. QED BY <4>1, <4>2, <4>3
      <3>. QED BY <3>1, <3>2
    <2>7. g = [i \in 0 .. n |-> IF i = 0 THEN s ELSE calls[i][g[i - 1]]]
      BY <2>6
    <2>. QED BY <1>3, <2>5, <2>7 DEF IsRun
  <1>. QED BY <1>4, <1>5

\* And in one way only.
LEMMA RunUnique ==
  ASSUME NEW calls, NEW s, NEW n \in Nat, NEW f, NEW g,
         IsRun(calls, s, n, f), IsRun(calls, s, n, g)
  PROVE  f = g
  <1> DEFINE Bad == {i \in 0 .. n : f[i] # g[i]}
  <1>1. \A i \in 0 .. n : /\ f[i] = IF i = 0 THEN s ELSE calls[i][f[i - 1]]
                          /\ g[i] = IF i = 0 THEN s ELSE calls[i][g[i - 1]]
    BY DEF IsRun
  <1>2. ASSUME Bad # {} PROVE FALSE
    <2>1. PICK i \in Bad : \A k \in Bad : i <= k
      <3>1. Bad \subseteq Nat
        OBVIOUS
      <3>. QED BY <1>2, <3>1, LeastExists, Zenon
    <2>2. i \in 0 .. n /\ f[i] # g[i]
      OBVIOUS
    <2>3. i # 0
      BY <1>1, <2>2
    <2>4. i - 1 \in 0 .. n /\ ~(i <= i - 1)
      BY <2>2, <2>3
    <2>5. f[i - 1] = g[i - 1]
      BY <2>1, <2>4
    <2>. QED BY <1>1, <2>2, <2>3, <2>5
  <1>3. \A i \in 0 .. n : f[i] = g[i]
    BY <1>2
  <1>4. f = [i \in 0 .. n |-> f[i]] /\ g = [i \in 0 .. n |-> g[i]]
    BY DEF IsRun
  <1>. QED BY <1>3, <1>4

\* f runs the whole loop.
Runs(calls, s, f) ==
  /\ f[0] = s
  /\ \A i \in 1 .. Len(calls) : f[i] = calls[i][f[i - 1]]
  /\ Through(calls, s) = f[Len(calls)]

\* So the loop of a walk returns what the last of its calls does.
LEMMA ThroughRuns ==
  ASSUME NEW S, NEW calls \in Seq([S -> S]), NEW s \in S
  PROVE  \E f \in [0 .. Len(calls) -> S] : Runs(calls, s, f)
  <1>1. PICK f \in [0 .. Len(calls) -> S] : IsRun(calls, s, Len(calls), f)
    BY RunExists
  <1> DEFINE h == CHOOSE g : g = [i \in 0 .. Len(calls) |-> IF i = 0 THEN s ELSE calls[i][g[i - 1]]]
  <1>2. h = [i \in 0 .. Len(calls) |-> IF i = 0 THEN s ELSE calls[i][h[i - 1]]]
    BY <1>1 DEF IsRun
  <1>3. Through(calls, s) = h[Len(calls)]
    BY DEF Through
  <1>. HIDE DEF h
  <1>4. h = f
    <2>1. Len(calls) \in Nat
      OBVIOUS
    <2>2. IsRun(calls, s, Len(calls), h)
      BY <1>2 DEF IsRun
    <2>. QED BY <1>1, <2>1, <2>2, RunUnique, Zenon
  <1>5. \A i \in 0 .. Len(calls) : f[i] = IF i = 0 THEN s ELSE calls[i][f[i - 1]]
    BY <1>1 DEF IsRun
  <1>6. f[0] = s /\ \A i \in 1 .. Len(calls) : f[i] = calls[i][f[i - 1]]
    <2>1. Len(calls) \in Nat
      OBVIOUS
    <2>. QED BY <1>5, <2>1
  <1>. QED BY <1>3, <1>4, <1>6 DEF Runs

-----------------------------------------------------------------------------
\* No module has declared what its init does not.
Declared ==
  /\ dependencies \in [Module -> Seq(Module)]
  /\ \A m \in Module : ToSet(dependencies[m]) \subseteq ToSet(Dependencies[m])

\* One unfolding of the recursive walk, from a guess g of the walks it makes.
Walks == [Module -> [Seq(Module) -> Seq(Module)]]
CallsOf(g, m) == [i \in DOMAIN dependencies[m] |-> g[dependencies[m][i]]]
Body(g, m) ==
  [seen \in Seq(Module) |->
     IF m \in ToSet(seen) THEN seen ELSE Append(Through(CallsOf(g, m), seen), m)]

\* What is declared so far has a lower rank too.
LEMMA DeclaredFalls ==
  ASSUME Declared, NEW m \in Module, NEW i \in DOMAIN dependencies[m]
  PROVE  /\ dependencies[m][i] \in Module
         /\ dependencies[m][i] \in ToSet(dependencies[m])
         /\ dependencies[m][i] \in ToSet(Dependencies[m])
         /\ Rank[dependencies[m][i]] < Rank[m]
  <1>1. dependencies[m] \in Seq(Module)
    BY DEF Declared
  <1>2. dependencies[m][i] \in Module
    BY <1>1
  <1>3. dependencies[m][i] \in ToSet(dependencies[m])
    BY DEF ToSet
  <1>4. dependencies[m][i] \in ToSet(Dependencies[m])
    BY <1>3 DEF Declared
  <1>. QED BY <1>2, <1>3, <1>4, RankFalls DEF Falls

\* One unfolding of the walk takes lists of modules to lists of modules.
LEMMA BodyType ==
  ASSUME Declared, NEW g \in Walks, NEW m \in Module
  PROVE  /\ CallsOf(g, m) \in Seq([Seq(Module) -> Seq(Module)])
         /\ Len(CallsOf(g, m)) = Len(dependencies[m])
         /\ \A i \in 1 .. Len(dependencies[m]) : CallsOf(g, m)[i] = g[dependencies[m][i]]
         /\ Body(g, m) \in [Seq(Module) -> Seq(Module)]
  <1> DEFINE S == Seq(Module)
             F == [S -> S]
             calls == CallsOf(g, m)
  <1>1. dependencies[m] \in Seq(Module) /\ DOMAIN dependencies[m] = 1 .. Len(dependencies[m])
        /\ Len(dependencies[m]) \in Nat
    BY DEF Declared
  <1>2. \A i \in 1 .. Len(dependencies[m]) : g[dependencies[m][i]] \in F
    BY <1>1 DEF Walks
  <1>3. calls = [i \in 1 .. Len(dependencies[m]) |-> g[dependencies[m][i]]]
    BY <1>1 DEF CallsOf
  <1>. HIDE DEF calls, F, S
  <1>4. /\ calls \in Seq(F)
        /\ Len(calls) = Len(dependencies[m])
        /\ \A i \in 1 .. Len(dependencies[m]) : calls[i] = g[dependencies[m][i]]
    BY <1>1, <1>2, <1>3
  <1>5. ASSUME NEW seen \in S PROVE Append(Through(calls, seen), m) \in S
    <2>1. Through(calls, seen) \in S
      <3>1. calls \in Seq([S -> S])
        BY <1>4 DEF F
      <3>2. PICK f \in [0 .. Len(calls) -> S] : Through(calls, seen) = f[Len(calls)]
        BY <3>1, ThroughRuns DEF Runs
      <3>3. Len(calls) \in 0 .. Len(calls)
        BY <1>1, <1>4
      <3>. QED BY <3>2, <3>3
    <2>. QED BY <2>1 DEF S
  <1>6. Body(g, m) = [seen \in S |-> IF m \in ToSet(seen) THEN seen ELSE Append(Through(calls, seen), m)]
    BY DEF Body, S, calls
  <1>7. Body(g, m) \in [S -> S]
    BY <1>5, <1>6
  <1>. QED BY <1>4, <1>7 DEF S, F, calls

\* It looks at the walks of what the module declared only.
LEMMA BodyLocal ==
  ASSUME NEW g, NEW h, NEW m,
         \A i \in DOMAIN dependencies[m] : g[dependencies[m][i]] = h[dependencies[m][i]]
  PROVE  Body(g, m) = Body(h, m)
  <1>1. CallsOf(g, m) = CallsOf(h, m)
    BY DEF CallsOf
  <1>. QED BY <1>1 DEF Body

\* So the recursion has a solution: by ranks, from the lowest.
LEMMA WalkExists ==
  ASSUME Declared
  PROVE  \E g \in Walks : g = [m \in Module |-> Body(g, m)]
  <1> DEFINE UpTo(k) == \E g \in Walks : \A m \in Module : Rank[m] <= k => g[m] = Body(g, m)
             Bad == {k \in 0 .. Depth : ~UpTo(k)}
  <1>1. ASSUME Bad # {} PROVE FALSE
    <2>1. PICK k \in Bad : \A j \in Bad : k <= j
      <3>1. Bad \subseteq Nat
        BY RankFalls
      <3>. QED BY <1>1, <3>1, LeastExists, Zenon
    <2>2. k \in 0 .. Depth /\ ~UpTo(k)
      OBVIOUS
    <2>3. CASE k = 0
      <3> DEFINE g == [m \in Module |-> [seen \in Seq(Module) |-> seen]]
      <3>1. g \in Walks
        BY DEF Walks
      <3>2. \A m \in Module : ~(Rank[m] <= k)
        BY <2>3, RankFalls
      <3>. QED BY <2>2, <3>1, <3>2
    <2>4. CASE k # 0
      <3>1. k - 1 \in 0 .. Depth /\ ~(k <= k - 1)
        BY <2>2, <2>4, RankFalls
      <3>2. UpTo(k - 1)
        BY <2>1, <3>1
      <3>3. PICK g \in Walks : \A m \in Module : Rank[m] <= k - 1 => g[m] = Body(g, m)
        BY <3>2
      <3> DEFINE h == [m \in Module |-> IF Rank[m] = k THEN Body(g, m) ELSE g[m]]
      <3>4. h \in Walks
        <4>1. \A m \in Module : g[m] \in [Seq(Module) -> Seq(Module)]
          BY DEF Walks
        <4>. QED BY <4>1, BodyType DEF Walks
      <3>5. ASSUME NEW m \in Module, Rank[m] <= k PROVE h[m] = Body(h, m)
        <4>1. \A i \in DOMAIN dependencies[m] : h[dependencies[m][i]] = g[dependencies[m][i]]
          <5>1. TAKE i \in DOMAIN dependencies[m]
          <5>2. dependencies[m][i] \in Module /\ Rank[dependencies[m][i]] < Rank[m]
            BY DeclaredFalls
          <5>3. Rank[dependencies[m][i]] # k
            BY <2>2, <3>5, <5>2, RankFalls
          <5>. QED BY <5>2, <5>3
        <4>2. Body(h, m) = Body(g, m)
          BY <4>1, BodyLocal
        <4>3. Rank[m] # k => g[m] = Body(g, m)
          BY <2>2, <3>3, <3>5, RankFalls
        <4>. QED BY <4>2, <4>3
      <3>. HIDE DEF h
      <3>. QED BY <2>2, <3>4, <3>5
    <2>. QED BY <2>3, <2>4
  <1>2. UpTo(Depth)
    <2>1. Depth \in 0 .. Depth
      BY RankFalls
    <2>2. Depth \notin Bad
      BY <1>1
    <2>. QED BY <2>1, <2>2
  <1>3. PICK g \in Walks : \A m \in Module : Rank[m] <= Depth => g[m] = Body(g, m)
    BY <1>2
  <1>4. \A m \in Module : g[m] = Body(g, m)
    BY <1>3, RankFalls
  <1>5. g = [m \in Module |-> Body(g, m)]
    BY <1>4 DEF Walks
  <1>. QED BY <1>5

\* And one only: two would differ at a module of least rank.
LEMMA WalkUnique ==
  ASSUME Declared, NEW g, NEW h,
         g = [m \in Module |-> Body(g, m)], h = [m \in Module |-> Body(h, m)]
  PROVE  g = h
  <1> DEFINE Bad == {k \in Nat : \E m \in Module : Rank[m] = k /\ g[m] # h[m]}
  <1>1. ASSUME Bad # {} PROVE FALSE
    <2>1. PICK k \in Bad : \A j \in Bad : k <= j
      <3>1. Bad \subseteq Nat
        OBVIOUS
      <3>. QED BY <1>1, <3>1, LeastExists, Zenon
    <2>2. PICK m \in Module : Rank[m] = k /\ g[m] # h[m]
      OBVIOUS
    <2>3. \A i \in DOMAIN dependencies[m] : g[dependencies[m][i]] = h[dependencies[m][i]]
      <3>1. TAKE i \in DOMAIN dependencies[m]
      <3>2. dependencies[m][i] \in Module /\ Rank[dependencies[m][i]] < Rank[m]
        BY DeclaredFalls
      <3>3. Rank[dependencies[m][i]] \in Nat /\ Rank[m] \in Nat /\ ~(k <= Rank[dependencies[m][i]])
        BY <2>2, <3>2, RankFalls
      <3>. QED BY <2>1, <3>2, <3>3
    <2>4. g[m] = Body(g, m) /\ h[m] = Body(h, m)
      OBVIOUS
    <2>. QED BY <2>2, <2>3, <2>4, BodyLocal
  <1>2. \A m \in Module : g[m] = h[m]
    <2>1. \A m \in Module : Rank[m] \in Nat
      BY RankFalls
    <2>. QED BY <1>1, <2>1
  <1>3. g = [m \in Module |-> g[m]] /\ h = [m \in Module |-> h[m]]
    OBVIOUS
  <1>. QED BY <1>2, <1>3

\* The walk of the model is that solution.
LEMMA VisitedUnfolds ==
  ASSUME Declared
  PROVE  Visited \in Walks /\ \A m \in Module : Visited[m] = Body(Visited, m)
  <1>1. PICK h \in Walks : h = [m \in Module |-> Body(h, m)]
    BY WalkExists
  <1> DEFINE v == CHOOSE g : g = [m \in Module |-> Body(g, m)]
  <1>2. v = [m \in Module |-> Body(v, m)]
    BY <1>1
  <1>3. Visited = v
    BY DEF Visited, Body, CallsOf
  <1>. HIDE DEF v
  <1>4. v = h
    BY <1>1, <1>2, WalkUnique
  <1>. QED BY <1>1, <1>3, <1>4

-----------------------------------------------------------------------------
\* What a module's init declares are modules.
LEMMA AskedType ==
  ASSUME NEW m \in Module
  PROVE  Dependencies[m] \in Seq(Module) /\ ToSet(Dependencies[m]) \subseteq Module
  <1>1. Dependencies[m] \in Seq(Module)
    BY BuildAssumption
  <1>. QED BY <1>1, Elements

\* What is below a module is closed under dependencies.
LEMMA BelowCloses ==
  ASSUME NEW m \in Module
  PROVE  /\ Below(m) \subseteq Module
         /\ ToSet(Dependencies[m]) \subseteq Below(m)
         /\ \A d \in Below(m) : ToSet(Dependencies[d]) \subseteq Below(m)
         /\ \A d \in Below(m) : Rank[d] < Rank[m]
  <1>1. Below(m) \subseteq Module
    BY DEF Below
  <1>2. ToSet(Dependencies[m]) \subseteq Below(m)
    BY AskedType DEF Below
  <1>3. ASSUME NEW d \in Below(m), NEW e \in ToSet(Dependencies[d]) PROVE e \in Below(m)
    <2>1. d \in Module /\ e \in Module
      BY <1>1, <1>3, AskedType
    <2>2. ASSUME NEW M \in SUBSET Module, ToSet(Dependencies[m]) \subseteq M,
                 \A n \in M : ToSet(Dependencies[n]) \subseteq M
          PROVE  e \in M
      <3>1. d \in M
        BY <2>2, <1>3 DEF Below
      <3>. QED BY <3>1, <2>2, <1>3
    <2>. QED BY <2>1, <2>2 DEF Below
  <1>4. \A d \in Below(m) : Rank[d] < Rank[m]
    <2> DEFINE M == {d \in Module : Rank[d] < Rank[m]}
    <2>1. ToSet(Dependencies[m]) \subseteq M
      BY AskedType, RankFalls DEF Falls
    <2>2. ASSUME NEW n \in M, NEW d \in ToSet(Dependencies[n]) PROVE d \in M
      <3>1. n \in Module /\ Rank[n] < Rank[m]
        OBVIOUS
      <3>2. d \in Module /\ Rank[d] < Rank[n]
        BY <3>1, <2>2, AskedType, RankFalls DEF Falls
      <3>3. Rank[d] \in Nat /\ Rank[n] \in Nat /\ Rank[m] \in Nat
        BY <3>1, <3>2, RankFalls
      <3>. QED BY <3>1, <3>2, <3>3
    <2>3. M \in SUBSET Module
      OBVIOUS
    <2>. HIDE DEF M
    <2>4. Below(m) \subseteq M
      BY <2>1, <2>2, <2>3 DEF Below
    <2>. QED BY <2>4 DEF M
  <1>. QED BY <1>1, <1>2, <1>3, <1>4

\* It is in every closed set that has the module's own.
LEMMA BelowIsLeast ==
  ASSUME NEW m \in Module, NEW M \in SUBSET Module, ToSet(Dependencies[m]) \subseteq M,
         \A n \in M : ToSet(Dependencies[n]) \subseteq M
  PROVE  Below(m) \subseteq M
  BY DEF Below

\* What is below a dependency is below the module.
LEMMA BelowNests ==
  ASSUME NEW m \in Module, NEW d \in ToSet(Dependencies[m])
  PROVE  d \in Module /\ {d} \cup Below(d) \subseteq Below(m)
  <1>1. d \in Module /\ d \in Below(m)
    BY AskedType, BelowCloses
  <1>2. Below(m) \in SUBSET Module /\ \A n \in Below(m) : ToSet(Dependencies[n]) \subseteq Below(m)
    BY BelowCloses
  <1>. QED BY <1>1, <1>2, BelowIsLeast

\* A list of modules as a walk leaves it: each once, with all that was declared for it.
IsWalk(s) ==
  /\ s \in Seq(Module)
  /\ IsInjective(s)
  /\ \A x \in ToSet(s) : ToSet(dependencies[x]) \subseteq ToSet(s)

\* A walk begins with nothing seen.
LEMMA EmptyWalk == IsWalk(<<>>) /\ ToSet(<<>>) = {}
  <1>1. <<>> \in Seq(Module) /\ DOMAIN <<>> = {}
    OBVIOUS
  <1>2. ToSet(<<>>) = {}
    BY <1>1 DEF ToSet
  <1>. QED BY <1>1, <1>2 DEF IsWalk, IsInjective

\* r is what a walk of m leaves of the list s.
Walked(m, s, r) ==
  /\ IsWalk(r)
  /\ ToSet(s) \subseteq ToSet(r)
  /\ m \in ToSet(r)
  /\ ToSet(r) \subseteq ToSet(s) \cup {m} \cup Below(m)

\* The loop over a module's dependencies visits each of them, if each call visits its own.
LEMMA LoopVisits ==
  ASSUME Declared, NEW m \in Module, NEW s, IsWalk(s),
         \A d \in ToSet(dependencies[m]) : \A t : IsWalk(t) => Walked(d, t, Visited[d][t])
  PROVE  LET r == Through(CallsOf(Visited, m), s)
         IN  /\ IsWalk(r)
             /\ ToSet(s) \subseteq ToSet(r)
             /\ ToSet(dependencies[m]) \subseteq ToSet(r)
             /\ ToSet(r) \subseteq ToSet(s) \cup Below(m)
  <1> DEFINE ds == dependencies[m]
             n == Len(ds)
             calls == CallsOf(Visited, m)
  <1>1. ds \in Seq(Module) /\ n \in Nat /\ DOMAIN ds = 1 .. n
    BY DEF Declared
  <1>2. /\ calls \in Seq([Seq(Module) -> Seq(Module)]) /\ Len(calls) = n
        /\ \A i \in 1 .. n : calls[i] = Visited[ds[i]]
    BY VisitedUnfolds, BodyType
  <1>3. s \in Seq(Module)
    BY DEF IsWalk
  <1>. HIDE DEF calls
  <1> DEFINE S == Seq(Module)
  <1>a. calls \in Seq([S -> S]) /\ s \in S
    BY <1>2, <1>3
  <1>. HIDE DEF S
  <1>4. PICK f \in [0 .. Len(calls) -> S] : Runs(calls, s, f)
    BY <1>a, ThroughRuns
  <1>5. f[0] = s /\ Through(calls, s) = f[n] /\ \A i \in 1 .. n : f[i] = Visited[ds[i]][f[i - 1]]
    BY <1>2, <1>4 DEF Runs
  <1>6. \A i \in 1 .. n : ds[i] \in ToSet(ds) /\ ds[i] \in ToSet(Dependencies[m])
    BY <1>1, DeclaredFalls
  <1>. HIDE DEF n, ds
  <1> DEFINE Upto(k) == /\ IsWalk(f[k])
                        /\ ToSet(s) \subseteq ToSet(f[k])
                        /\ \A i \in 1 .. k : ds[i] \in ToSet(f[k])
                        /\ ToSet(f[k]) \subseteq ToSet(s) \cup Below(m)
             Bad == {k \in 0 .. n : ~Upto(k)}
  <1>7. ASSUME Bad # {} PROVE FALSE
    <2>1. PICK k \in Bad : \A j \in Bad : k <= j
      <3>1. Bad \subseteq Nat
        BY <1>1
      <3>. QED BY <1>7, <3>1, LeastExists, Zenon
    <2>2. k \in 0 .. n /\ ~Upto(k)
      OBVIOUS
    <2>3. CASE k = 0
      <3>1. IsWalk(f[k]) /\ ToSet(f[k]) = ToSet(s)
        BY <2>3, <1>5
      <3>2. \A i \in 1 .. k : FALSE
        BY <2>3
      <3>. QED BY <2>2, <3>1, <3>2
    <2>4. CASE k # 0
      <3>1. k - 1 \in 0 .. n /\ ~(k <= k - 1) /\ k \in 1 .. n
        BY <1>1, <2>2, <2>4
      <3>2. Upto(k - 1)
        BY <2>1, <3>1
      <3>3. Walked(ds[k], f[k - 1], f[k])
        <4>1. ds[k] \in ToSet(dependencies[m]) /\ f[k] = Visited[ds[k]][f[k - 1]]
          BY <1>5, <1>6, <3>1 DEF ds
        <4>. QED BY <3>2, <4>1
      <3>4. {ds[k]} \cup Below(ds[k]) \subseteq Below(m)
        BY <1>6, <3>1, BelowNests
      <3>5. \A i \in 1 .. k : i = k \/ i \in 1 .. k - 1
        BY <3>1
      <3>6. IsWalk(f[k]) /\ ToSet(f[k - 1]) \subseteq ToSet(f[k]) /\ ds[k] \in ToSet(f[k])
            /\ ToSet(f[k]) \subseteq ToSet(f[k - 1]) \cup {ds[k]} \cup Below(ds[k])
        BY <3>3 DEF Walked
      <3>7. \A i \in 1 .. k : ds[i] \in ToSet(f[k])
        BY <3>2, <3>5, <3>6
      <3>8. ToSet(s) \subseteq ToSet(f[k]) /\ ToSet(f[k]) \subseteq ToSet(s) \cup Below(m)
        BY <3>2, <3>4, <3>6
      <3>. QED BY <2>2, <3>6, <3>7, <3>8
    <2>. QED BY <2>3, <2>4
  <1>8. Upto(n)
    <2>1. n \in 0 .. n
      BY <1>1
    <2>. QED BY <1>7, <2>1
  <1>9. ToSet(ds) \subseteq ToSet(f[n])
    <2>1. \A x \in ToSet(ds) : \E i \in 1 .. n : x = ds[i]
      BY <1>1, Elements DEF n
    <2>. QED BY <1>8, <2>1
  <1>. QED BY <1>5, <1>8, <1>9 DEF calls, ds

\* A walk adds the module and what is below it, nothing else, and nothing twice.
LEMMA WalkVisits ==
  ASSUME Declared, NEW m \in Module, NEW s, IsWalk(s)
  PROVE  Walked(m, s, Visited[m][s])
  <1> DEFINE Bad == {k \in Nat : \E x \in Module : Rank[x] = k /\ \E t : IsWalk(t) /\ ~Walked(x, t, Visited[x][t])}
  <1>1. ASSUME Bad # {} PROVE FALSE
    <2>1. PICK k \in Bad : \A j \in Bad : k <= j
      <3>1. Bad \subseteq Nat
        OBVIOUS
      <3>. QED BY <1>1, <3>1, LeastExists, Zenon
    <2>2. PICK x \in Module : Rank[x] = k /\ \E t : IsWalk(t) /\ ~Walked(x, t, Visited[x][t])
      OBVIOUS
    <2>3. PICK t : IsWalk(t) /\ ~Walked(x, t, Visited[x][t])
      BY <2>2
    <2>4. ASSUME NEW d \in ToSet(dependencies[x]), NEW u, IsWalk(u)
          PROVE  Walked(d, u, Visited[d][u])
      <3>1. d \in Module /\ Rank[d] < Rank[x]
        <4>1. d \in ToSet(Dependencies[x])
          BY <2>4 DEF Declared
        <4>. QED BY <4>1, AskedType, RankFalls DEF Falls
      <3>2. Rank[d] \in Nat /\ ~(k <= Rank[d])
        BY <2>2, <3>1, RankFalls
      <3>3. Rank[d] \notin Bad
        BY <2>1, <3>2
      <3>. QED BY <2>4, <3>1, <3>2, <3>3
    <2>. HIDE DEF Bad
    <2>5. t \in Seq(Module)
      BY <2>3 DEF IsWalk
    <2> DEFINE r == Through(CallsOf(Visited, x), t)
    <2>6. /\ IsWalk(r)
          /\ ToSet(t) \subseteq ToSet(r)
          /\ ToSet(dependencies[x]) \subseteq ToSet(r)
          /\ ToSet(r) \subseteq ToSet(t) \cup Below(x)
      BY <2>3, <2>4, LoopVisits
    <2>7. Visited[x][t] = IF x \in ToSet(t) THEN t ELSE Append(r, x)
      BY <2>5, VisitedUnfolds DEF Body
    <2>. HIDE DEF r
    <2>8. CASE x \in ToSet(t)
      BY <2>3, <2>7, <2>8 DEF Walked
    <2>9. CASE x \notin ToSet(t)
      <3> DEFINE a == Append(r, x)
      <3>1. r \in Seq(Module)
        BY <2>6 DEF IsWalk
      <3>2. x \notin ToSet(r)
        <4>1. Rank[x] \in Nat
          BY RankFalls
        <4>2. x \notin Below(x)
          BY <4>1, BelowCloses
        <4>. QED BY <2>6, <2>9, <4>2
      <3>3. a \in Seq(Module) /\ ToSet(a) = ToSet(r) \cup {x}
        BY <3>1, AppendAdds
      <3>4. IsInjective(a)
        BY <2>6, <3>1, <3>2, InjectiveAppend DEF IsWalk
      <3>. HIDE DEF a
      <3>5. IsWalk(a)
        BY <2>6, <3>3, <3>4 DEF IsWalk
      <3>6. Visited[x][t] = a
        BY <2>7, <2>9 DEF a
      <3>7. Walked(x, t, a)
        BY <2>6, <3>3, <3>5 DEF Walked
      <3>. QED BY <2>3, <3>6, <3>7
    <2>. QED BY <2>8, <2>9
  <1>2. Rank[m] \in Nat /\ Rank[m] \notin Bad
    BY <1>1, RankFalls
  <1>. QED BY <1>2

-----------------------------------------------------------------------------
\* All that is below a module was declared, and for the module itself.
WhollyDeclared(m) ==
  \A x \in {m} \cup Below(m) : ToSet(dependencies[x]) = ToSet(Dependencies[x])

\* The directories a compiler is given are those of the modules below.
LEMMA IncludesAreBelow ==
  ASSUME Declared, NEW m \in Module
  PROVE  /\ append_dependency_includes(m) \in SUBSET Module
         /\ WhollyDeclared(m) => append_dependency_includes(m) = Below(m)
  <1> DEFINE r == Through(CallsOf(Visited, m), <<>>)
  <1>1. \A d \in ToSet(dependencies[m]) : d \in Module
    BY AskedType DEF Declared
  <1>2. \A d \in ToSet(dependencies[m]) : \A t : IsWalk(t) => Walked(d, t, Visited[d][t])
    BY <1>1, WalkVisits
  <1>3. /\ IsWalk(r)
        /\ ToSet(dependencies[m]) \subseteq ToSet(r)
        /\ ToSet(r) \subseteq Below(m)
    BY <1>2, EmptyWalk, LoopVisits
  <1>4. append_dependency_includes(m) = ToSet(r)
    BY DEF append_dependency_includes, CallsOf
  <1>. HIDE DEF r
  <1>5. ASSUME WhollyDeclared(m) PROVE Below(m) \subseteq ToSet(r)
    <2> DEFINE M == ToSet(r)
    <2>1. M \subseteq Below(m) /\ M \in SUBSET Module
      BY <1>3, BelowCloses
    <2>2. \A x \in M : ToSet(Dependencies[x]) \subseteq M
      BY <1>3, <1>5, <2>1 DEF IsWalk, WhollyDeclared
    <2>3. ToSet(Dependencies[m]) \subseteq M
      BY <1>3, <1>5 DEF WhollyDeclared
    <2>. HIDE DEF M
    <2>. QED BY <2>1, <2>2, <2>3, BelowIsLeast DEF M
  <1>6. Below(m) \subseteq Module
    BY BelowCloses
  <1>. QED BY <1>3, <1>4, <1>5, <1>6

\* A walk from nothing visits the module and all below it.
LEMMA VisitedIsBelow ==
  ASSUME Declared, NEW m \in Module, WhollyDeclared(m)
  PROVE  IsWalk(Visited[m][<<>>]) /\ ToSet(Visited[m][<<>>]) = {m} \cup Below(m)
  <1> DEFINE r == Visited[m][<<>>]
             M == ToSet(r)
  <1>1. /\ IsWalk(r) /\ m \in M /\ M \subseteq {m} \cup Below(m)
    BY EmptyWalk, WalkVisits DEF Walked
  <1>. HIDE DEF r
  <1>2. \A x \in M : ToSet(Dependencies[x]) \subseteq M
    BY <1>1 DEF IsWalk, WhollyDeclared
  <1>3. M \in SUBSET Module
    BY <1>1, BelowCloses
  <1>. HIDE DEF M
  <1>4. Below(m) \subseteq M
    BY <1>1, <1>2, <1>3, BelowIsLeast
  <1>. QED BY <1>1, <1>4 DEF M, r

-----------------------------------------------------------------------------
\* Lists without repetitions and a common element make one without.
LEMMA Concatenates ==
  ASSUME NEW S, NEW s \in Seq(S), NEW t \in Seq(S)
  PROVE  /\ s \o t \in Seq(S)
         /\ ToSet(s \o t) = ToSet(s) \cup ToSet(t)
         /\ IsInjective(s) /\ IsInjective(t) /\ ToSet(s) \cap ToSet(t) = {} => IsInjective(s \o t)
  <1> DEFINE c == s \o t
             n == Len(s)
             k == Len(t)
  <1>1. /\ c \in Seq(S) /\ n \in Nat /\ k \in Nat /\ Len(c) = n + k
        /\ DOMAIN c = 1 .. n + k
        /\ \A i \in 1 .. n : c[i] = s[i]
        /\ \A i \in n + 1 .. n + k : c[i] = t[i - n]
        /\ DOMAIN s = 1 .. n /\ DOMAIN t = 1 .. k
    OBVIOUS
  <1>. HIDE DEF c, n, k
  <1>2. \A i \in 1 .. n + k : i \in 1 .. n \/ (i \in n + 1 .. n + k /\ i - n \in 1 .. k)
    BY <1>1
  <1>3. \A i \in 1 .. n : c[i] \in ToSet(s)
    BY <1>1 DEF ToSet
  <1>4. \A i \in n + 1 .. n + k : i - n \in 1 .. k /\ c[i] \in ToSet(t)
    <2>1. \A i \in n + 1 .. n + k : i - n \in 1 .. k
      BY <1>1
    <2>. QED BY <1>1, <2>1 DEF ToSet
  <1>5. ASSUME NEW x \in ToSet(c) PROVE x \in ToSet(s) \cup ToSet(t)
    <2>1. PICK i \in 1 .. n + k : x = c[i]
      BY <1>1, <1>5 DEF ToSet
    <2>. QED BY <1>2, <1>3, <1>4, <2>1
  <1>6. ASSUME NEW x \in ToSet(s) PROVE x \in ToSet(c)
    <2>1. PICK i \in 1 .. n : x = s[i]
      BY <1>1, <1>6 DEF ToSet
    <2>2. i \in 1 .. n + k /\ x = c[i]
      BY <1>1, <2>1
    <2>. QED BY <1>1, <2>2 DEF ToSet
  <1>7. ASSUME NEW x \in ToSet(t) PROVE x \in ToSet(c)
    <2>1. PICK i \in 1 .. k : x = t[i]
      BY <1>1, <1>7 DEF ToSet
    <2>2. n + i \in n + 1 .. n + k /\ n + i \in 1 .. n + k /\ (n + i) - n = i
      BY <1>1
    <2>3. x = c[n + i]
      BY <1>1, <2>1, <2>2
    <2>. QED BY <1>1, <2>2, <2>3 DEF ToSet
  <1>8. ASSUME IsInjective(s), IsInjective(t), ToSet(s) \cap ToSet(t) = {},
               NEW i \in 1 .. n + k, NEW j \in 1 .. n + k, c[i] = c[j]
        PROVE  i = j
    <2>1. CASE i \in 1 .. n /\ j \in 1 .. n
      BY <1>1, <1>8, <2>1 DEF IsInjective
    <2>2. CASE i \in n + 1 .. n + k /\ j \in n + 1 .. n + k
      <3>1. t[i - n] = t[j - n] /\ i - n \in 1 .. k /\ j - n \in 1 .. k
        BY <1>1, <1>4, <1>8, <2>2
      <3>2. i - n = j - n
        BY <1>1, <1>8, <3>1 DEF IsInjective
      <3>. QED BY <1>1, <3>2
    <2>3. CASE (i \in 1 .. n /\ j \in n + 1 .. n + k) \/ (j \in 1 .. n /\ i \in n + 1 .. n + k)
      BY <1>3, <1>4, <1>8, <2>3
    <2>. QED BY <1>2, <2>1, <2>2, <2>3
  <1>9. ToSet(c) = ToSet(s) \cup ToSet(t)
    BY <1>5, <1>6, <1>7
  <1>10. IsInjective(s) /\ IsInjective(t) /\ ToSet(s) \cap ToSet(t) = {} => IsInjective(c)
    BY <1>1, <1>8 DEF IsInjective
  <1>. QED BY <1>1, <1>9, <1>10 DEF c

\* f joins the first n of the lists.
IsFlatten(seqs, n, f) == f = [i \in 1 .. n |-> IF i = 1 THEN seqs[i] ELSE f[i - 1] \o seqs[i]]

\* The recursion of FlattenSeq has a solution.
LEMMA FlattenRuns ==
  ASSUME NEW S, NEW seqs \in Seq(Seq(S)), Len(seqs) # 0
  PROVE  \E f \in [1 .. Len(seqs) -> Seq(S)] :
           IsFlatten(seqs, Len(seqs), f) /\ FlattenSeq(seqs) = f[Len(seqs)]
  <1> DEFINE T == Seq(S)
             n == Len(seqs)
             calls == [i \in 1 .. n |-> [s \in T |-> s \o seqs[i]]]
  <1>1. n \in Nat /\ n >= 1 /\ \A i \in 1 .. n : seqs[i] \in T
    OBVIOUS
  <1>2. \A s, t \in T : s \o t \in T
    OBVIOUS
  <1>3. <<>> \in T /\ \A t \in T : <<>> \o t = t
    OBVIOUS
  <1>. HIDE DEF T
  <1>4. \A i \in 1 .. n : [s \in T |-> s \o seqs[i]] \in [T -> T]
    BY <1>1, <1>2
  <1>5. calls \in Seq([T -> T]) /\ Len(calls) = n
    <2> DEFINE F == [T -> T]
    <2>1. \A i \in 1 .. n : calls[i] \in F
      BY <1>4
    <2>. HIDE DEF F
    <2>2. calls = [i \in 1 .. n |-> calls[i]]
      OBVIOUS
    <2>. HIDE DEF calls
    <2>3. calls \in Seq(F) /\ Len(calls) = n
      BY <1>1, <2>1, <2>2
    <2>. QED BY <2>3 DEF F
  <1>6. PICK g \in [0 .. n -> T] : Runs(calls, <<>>, g)
    <2>. HIDE DEF calls
    <2>1. PICK g \in [0 .. Len(calls) -> T] : Runs(calls, <<>>, g)
      BY <1>3, <1>5, ThroughRuns
    <2>. QED BY <1>5, <2>1
  <1>7. g[0] = <<>> /\ \A i \in 1 .. n : g[i] = g[i - 1] \o seqs[i]
    <2>1. \A i \in 1 .. n : i - 1 \in 0 .. n
      BY <1>1
    <2>2. \A i \in 1 .. n : g[i] = calls[i][g[i - 1]]
      BY <1>5, <1>6 DEF Runs
    <2>3. g[0] = <<>>
      BY <1>6 DEF Runs
    <2>4. \A i \in 1 .. n : g[i - 1] \in T
      BY <2>1
    <2>. QED BY <2>2, <2>3, <2>4
  <1>. HIDE DEF calls, n
  <1> DEFINE f == [i \in 1 .. n |-> g[i]]
  <1>8. f \in [1 .. n -> T]
    BY <1>1
  <1>9. IsFlatten(seqs, n, f)
    <2>1. ASSUME NEW i \in 1 .. n PROVE f[i] = IF i = 1 THEN seqs[i] ELSE f[i - 1] \o seqs[i]
      <3>1. CASE i = 1
        <4>1. g[i] = g[0] \o seqs[i] /\ seqs[i] \in T
          BY <1>1, <1>7, <3>1
        <4>. QED BY <1>3, <1>7, <3>1, <4>1
      <3>2. CASE i # 1
        <4>1. i - 1 \in 1 .. n
          BY <1>1, <3>2
        <4>. QED BY <1>7, <3>2, <4>1
      <3>. QED BY <3>1, <3>2
    <2>2. f = [i \in 1 .. n |-> IF i = 1 THEN seqs[i] ELSE f[i - 1] \o seqs[i]]
      BY <2>1
    <2>. QED BY <2>2 DEF IsFlatten
  <1>. HIDE DEF f
  <1> DEFINE h == CHOOSE e : e = [i \in 1 .. n |-> IF i = 1 THEN seqs[i] ELSE e[i - 1] \o seqs[i]]
  <1>10. h = [i \in 1 .. n |-> IF i = 1 THEN seqs[i] ELSE h[i - 1] \o seqs[i]]
    BY <1>9 DEF IsFlatten
  <1>11. FlattenSeq(seqs) = h[n]
    BY DEF FlattenSeq, n
  <1>. HIDE DEF h
  <1>12. \A i \in 1 .. n : h[i] = IF i = 1 THEN seqs[i] ELSE h[i - 1] \o seqs[i]
    BY <1>10
  <1>13. \A i \in 1 .. n : f[i] = IF i = 1 THEN seqs[i] ELSE f[i - 1] \o seqs[i]
    BY <1>9 DEF IsFlatten
  <1>14. h[n] = f[n]
    <2> DEFINE Bad == {i \in 1 .. n : h[i] # f[i]}
    <2>1. ASSUME Bad # {} PROVE FALSE
      <3>1. PICK i \in Bad : \A j \in Bad : i <= j
        <4>1. Bad \subseteq Nat
          BY <1>1
        <4>. QED BY <2>1, <4>1, LeastExists, Zenon
      <3>2. i \in 1 .. n /\ h[i] # f[i]
        OBVIOUS
      <3>3. i # 1
        BY <1>12, <1>13, <3>2
      <3>4. i - 1 \in 1 .. n /\ ~(i <= i - 1)
        BY <1>1, <3>2, <3>3
      <3>5. h[i - 1] = f[i - 1]
        BY <3>1, <3>4
      <3>. QED BY <1>12, <1>13, <3>2, <3>3, <3>5
    <2>2. n \in 1 .. n
      BY <1>1
    <2>. QED BY <2>1, <2>2
  <1>. QED BY <1>8, <1>9, <1>11, <1>14 DEF T, n

\* So many such lists make one.
LEMMA FlattenJoins ==
  ASSUME NEW S, NEW seqs \in Seq(Seq(S)), Len(seqs) # 0,
         \A i \in 1 .. Len(seqs) : IsInjective(seqs[i]),
         \A i, j \in 1 .. Len(seqs) : i # j => ToSet(seqs[i]) \cap ToSet(seqs[j]) = {}
  PROVE  /\ IsInjective(FlattenSeq(seqs))
         /\ ToSet(FlattenSeq(seqs)) = UNION {ToSet(seqs[i]) : i \in 1 .. Len(seqs)}
  <1> DEFINE T == Seq(S)
             n == Len(seqs)
  <1>1. PICK f \in [1 .. n -> T] : IsFlatten(seqs, n, f) /\ FlattenSeq(seqs) = f[n]
    BY FlattenRuns
  <1>2. n \in Nat /\ n >= 1 /\ \A i \in 1 .. n : seqs[i] \in Seq(S)
    OBVIOUS
  <1>3. \A i \in 1 .. n : f[i] = IF i = 1 THEN seqs[i] ELSE f[i - 1] \o seqs[i]
    BY <1>1 DEF IsFlatten
  <1>4. \A i \in 1 .. n : f[i] \in Seq(S)
    BY <1>1
  <1>. HIDE DEF n
  <1> DEFINE Upto(k) == /\ IsInjective(f[k])
                        /\ ToSet(f[k]) = UNION {ToSet(seqs[i]) : i \in 1 .. k}
             Bad == {k \in 1 .. n : ~Upto(k)}
  <1>5. ASSUME Bad # {} PROVE FALSE
    <2>1. PICK k \in Bad : \A j \in Bad : k <= j
      <3>1. Bad \subseteq Nat
        BY <1>2
      <3>. QED BY <1>5, <3>1, LeastExists, Zenon
    <2>2. k \in 1 .. n /\ ~Upto(k)
      OBVIOUS
    <2>3. CASE k = 1
      <3>1. 1 .. k = {1}
        BY <2>3
      <3>2. f[k] = seqs[1] /\ IsInjective(seqs[1])
        BY <1>2, <1>3, <2>3 DEF n
      <3>. QED BY <2>2, <3>1, <3>2
    <2>4. CASE k # 1
      <3>1. k - 1 \in 1 .. n /\ ~(k <= k - 1)
        BY <1>2, <2>2, <2>4
      <3>2. Upto(k - 1)
        BY <2>1, <3>1
      <3>3. f[k] = f[k - 1] \o seqs[k] /\ f[k - 1] \in Seq(S) /\ seqs[k] \in Seq(S)
        BY <1>2, <1>3, <1>4, <2>2, <2>4, <3>1
      <3>4. 1 .. k = (1 .. k - 1) \cup {k}
        BY <1>2, <2>2, <2>4
      <3>5. \A i \in 1 .. k - 1 : ToSet(seqs[i]) \cap ToSet(seqs[k]) = {}
        <4>1. \A i \in 1 .. k - 1 : i \in 1 .. n /\ i # k
          BY <1>2, <2>2
        <4>. QED BY <2>2, <4>1 DEF n
      <3>. HIDE DEF T
      <3>6. ToSet(f[k - 1]) \cap ToSet(seqs[k]) = {}
        BY <3>2, <3>5
      <3>7. IsInjective(seqs[k])
        BY <2>2 DEF n
      <3>8. IsInjective(f[k]) /\ ToSet(f[k]) = ToSet(f[k - 1]) \cup ToSet(seqs[k])
        <4> DEFINE a == f[k - 1]
                   b == seqs[k]
        <4>1. a \in Seq(S) /\ b \in Seq(S) /\ IsInjective(a) /\ IsInjective(b)
              /\ ToSet(a) \cap ToSet(b) = {} /\ f[k] = a \o b
          BY <3>2, <3>3, <3>6, <3>7
        <4>. HIDE DEF a, b
        <4>2. IsInjective(f[k]) /\ ToSet(f[k]) = ToSet(a) \cup ToSet(b)
          BY <4>1, Concatenates
        <4>. QED BY <4>2 DEF a, b
      <3>9. ToSet(f[k]) = UNION {ToSet(seqs[i]) : i \in 1 .. k}
        <4>1. UNION {ToSet(seqs[i]) : i \in 1 .. k}
                = (UNION {ToSet(seqs[i]) : i \in 1 .. k - 1}) \cup ToSet(seqs[k])
          BY <3>4, Zenon
        <4>2. ToSet(f[k - 1]) = UNION {ToSet(seqs[i]) : i \in 1 .. k - 1}
          BY <3>2
        <4>. QED BY <3>8, <4>1, <4>2, Zenon
      <3>. QED BY <2>2, <3>8, <3>9
    <2>. QED BY <2>3, <2>4
  <1>6. Upto(n)
    <2>1. n \in 1 .. n
      BY <1>2
    <2>. QED BY <1>5, <2>1
  <1>. QED BY <1>1, <1>6 DEF n

\* The files of the root and of all that is below it.
Parts == UNION {ToSet(FilesOf(m)) : m \in {Root} \cup Below(Root)}

\* The linker's list holds the files of the root and of all below it, each once.
LEMMA LinkListsParts ==
  ASSUME Declared, WhollyDeclared(Root), is_link_option \in BOOLEAN
  PROVE  /\ IsInjective(collect_file_lflags(Root))
         /\ ToSet(collect_file_lflags(Root)) = Parts
  <1> DEFINE v == Visited[Root][<<>>]
             seqs == [i \in DOMAIN v |-> FilesOf(v[i])]
  <1>0. Root \in Module
    BY BuildAssumption
  <1>1. IsWalk(v) /\ ToSet(v) = {Root} \cup Below(Root)
    BY <1>0, VisitedIsBelow
  <1>2. collect_file_lflags(Root) = FlattenSeq(seqs)
    BY DEF collect_file_lflags
  <1>. HIDE DEF v
  <1>3. /\ v \in Seq(Module) /\ IsInjective(v) /\ Len(v) \in Nat
        /\ DOMAIN v = 1 .. Len(v) /\ \A i \in 1 .. Len(v) : v[i] \in Module
    BY <1>1 DEF IsWalk
  <1>4. Len(v) # 0
    <2>1. \E i \in 1 .. Len(v) : Root = v[i]
      BY <1>1, <1>3, Elements
    <2>. QED BY <1>3, <2>1
  <1> DEFINE T == Seq(SourceFile)
  <1>5. \A i \in 1 .. Len(v) : FilesOf(v[i]) \in T /\ IsInjective(FilesOf(v[i]))
    BY <1>3, FilesType
  <1>6. seqs = [i \in 1 .. Len(v) |-> FilesOf(v[i])]
    BY <1>3
  <1>. HIDE DEF seqs, T
  <1>7. seqs \in Seq(T) /\ Len(seqs) = Len(v)
    BY <1>3, <1>5, <1>6
  <1>8. \A i \in 1 .. Len(seqs) : seqs[i] = FilesOf(v[i]) /\ IsInjective(seqs[i])
    BY <1>5, <1>6, <1>7
  <1>9. \A i, j \in 1 .. Len(seqs) : i # j => ToSet(seqs[i]) \cap ToSet(seqs[j]) = {}
    <2>1. \A i, j \in 1 .. Len(seqs) : i # j => v[i] # v[j]
      BY <1>3, <1>7 DEF IsInjective
    <2>. QED BY <1>3, <1>7, <1>8, <2>1, FilesDisjoint
  <1>10. /\ IsInjective(FlattenSeq(seqs))
         /\ ToSet(FlattenSeq(seqs)) = UNION {ToSet(seqs[i]) : i \in 1 .. Len(seqs)}
    <2>1. seqs \in Seq(Seq(SourceFile)) /\ Len(seqs) # 0
      BY <1>4, <1>7 DEF T
    <2>. QED BY <1>8, <1>9, <2>1, FlattenJoins
  <1>11. UNION {ToSet(seqs[i]) : i \in 1 .. Len(seqs)} = Parts
    <2>1. \A i \in 1 .. Len(seqs) : v[i] \in ToSet(v)
      BY <1>3, <1>7, Elements
    <2>2. \A m \in ToSet(v) : \E i \in 1 .. Len(seqs) : m = v[i]
      BY <1>3, <1>7, Elements
    <2>. QED BY <1>1, <1>8, <2>1, <2>2 DEF Parts
  <1>. QED BY <1>2, <1>10, <1>11

-----------------------------------------------------------------------------
\* The invariant has what the lemmas about the walks assume.
LEMMA TypeDeclared == ASSUME TypeOK, DeclaredFirst PROVE Declared
  BY DEF TypeOK, DeclaredFirst, DeclaredModule, Declared

\* The innermost call is a call.
LEMMA TopFacts ==
  ASSUME TypeOK, stack # <<>>
  PROVE  /\ Len(stack) \in Nat \ {0} /\ Len(stack) \in 1 .. Len(stack)
         /\ Top = stack[Len(stack)]
         /\ Top \in Frame /\ Top.module \in Module /\ Top.next \in Nat \ {0}
  <1>1. stack \in Seq(Frame)
    BY DEF TypeOK
  <1>2. Len(stack) \in Nat \ {0} /\ Len(stack) \in 1 .. Len(stack)
    BY <1>1
  <1>3. Top = stack[Len(stack)]
    BY DEF Top, Last
  <1>4. Top \in Frame
    BY <1>1, <1>2, <1>3
  <1>. QED BY <1>2, <1>3, <1>4 DEF Frame

\* So is every other.
LEMMA FrameFacts ==
  ASSUME TypeOK, NEW i \in 1 .. Len(stack)
  PROVE  stack[i] \in Frame /\ stack[i].module \in Module /\ stack[i].next \in Nat \ {0}
  <1>1. stack[i] \in Frame
    BY DEF TypeOK
  <1>. QED BY <1>1 DEF Frame

\* The innermost module is of least rank, so it is in no other call.
LEMMA TopIsLeast ==
  ASSUME TypeOK, CallsNest, stack # <<>>, NEW i \in 1 .. Len(stack), i < Len(stack)
  PROVE  Rank[Top.module] < Rank[stack[i].module] /\ stack[i].module # Top.module
  <1>1. Len(stack) \in 1 .. Len(stack) /\ Top = stack[Len(stack)] /\ Top.module \in Module
    BY TopFacts
  <1>2. Rank[Top.module] < Rank[stack[i].module]
    BY <1>1 DEF CallsNest
  <1>3. Rank[Top.module] \in Nat
    BY <1>1, RankFalls
  <1>. QED BY <1>2, <1>3

\* A module that is compiled has declared all, and so has everything below it.
LEMMA CompiledIsDeclared ==
  ASSUME TypeOK, DeclaredFirst, NEW m \in Module, is_compiled[m] # 0
  PROVE  WhollyDeclared(m) /\ \A x \in Below(m) : is_compiled[x] # 0
  <1> DEFINE M == {x \in Module : is_compiled[x] # 0}
  <1>1. \A x \in Module : is_compiled[x] # 0 =>
          ToSet(dependencies[x]) = ToSet(Dependencies[x]) /\ ToSet(Dependencies[x]) \subseteq M
    BY AskedType DEF DeclaredFirst, DeclaredModule
  <1>2. ToSet(Dependencies[m]) \subseteq M /\ \A x \in M : ToSet(Dependencies[x]) \subseteq M
    BY <1>1
  <1>3. M \in SUBSET Module /\ m \in M
    OBVIOUS
  <1>. HIDE DEF M
  <1>4. Below(m) \subseteq M
    BY <1>2, <1>3, BelowIsLeast
  <1>5. \A x \in M : x \in Module /\ is_compiled[x] # 0
    BY DEF M
  <1>. QED BY <1>1, <1>3, <1>4, <1>5 DEF WhollyDeclared

\* Everything below a module that was waited for was waited for.
LEMMA CollectedBelow ==
  ASSUME TypeOK, DeclaredFirst, WaitedFor, NEW m \in Module, is_compiled[m] = 1
  PROVE  \A x \in Below(m) : is_compiled[x] = 1
  <1> DEFINE M == {x \in Module : is_compiled[x] = 1}
  <1>1. \A x \in M : ToSet(Dependencies[x]) \subseteq M
    <2>1. TAKE x \in M
    <2>2. ToSet(dependencies[x]) = ToSet(Dependencies[x])
      BY DEF DeclaredFirst, DeclaredModule
    <2>3. \A d \in ToSet(dependencies[x]) : is_compiled[d] = 1
      BY DEF WaitedFor
    <2>. QED BY <2>2, <2>3, AskedType
  <1>2. M \in SUBSET Module /\ m \in M
    OBVIOUS
  <1>. HIDE DEF M
  <1>3. Below(m) \subseteq M
    BY <1>1, <1>2, BelowIsLeast
  <1>. QED BY <1>3 DEF M

\* What a module's files are when no call is about to start or collect them.
LEMMA PidAtRest ==
  ASSUME NEW m, NEW i, stack = <<>> \/ Top.proc \in {"init", "wait"} \/ Top.module # m
  PROVE  Pid(m, i) = 0 - is_compiled[m]
  BY DEF Pid

-----------------------------------------------------------------------------
\* The root's init is the only call, and nothing is declared.
LEMMA InitHolds == ASSUME Init PROVE BuildInv
  <1> DEFINE call == [proc |-> "init", module |-> Root, next |-> 1]
  <1>0. Root \in Module
    BY BuildAssumption
  <1>1. call \in Frame
    BY <1>0 DEF Frame
  <1>2. stack = <<call>>
    BY DEF Init
  <1>. HIDE DEF call
  <1>3. stack \in Seq(Frame) /\ Len(stack) = 1 /\ stack[1] = call /\ stack # <<>>
    BY <1>1, <1>2
  <1>4. call.proc = "init" /\ call.module = Root /\ call.next = 1
    BY DEF call
  <1>5. <<>> \in Seq(Module) /\ ToSet(<<>>) = {}
    BY EmptyWalk
  <1>6. TypeOK
    BY <1>3, <1>5 DEF Init, TypeOK
  <1>7. \A i \in 1 .. Len(stack) : i = 1 /\ stack[i] = call
    BY <1>3
  <1>8. CallsNest
    BY <1>3, <1>4, <1>7 DEF CallsNest, Init
  <1>9. Top = call
    BY <1>3 DEF Top, Last
  <1>10. DeclaredFirst
    <2>1. \A m \in Module : dependencies[m] = <<>> /\ is_compiled[m] = 0
      BY DEF Init
    <2>2. \A m \in Module : DeclaredModule(m)
      BY <1>5, <2>1 DEF DeclaredModule
    <2>3. Called(Root)
      BY <1>3, <1>4 DEF Called
    <2>4. ASSUME NEW i \in 1 .. Len(stack) PROVE DeclaredCall(i)
      <3>1. stack[i].proc = "init" /\ stack[i].module = Root /\ stack[i].next = 1
        BY <1>4, <1>7
      <3>. QED BY <1>0, <1>5, <2>1, <3>1 DEF DeclaredCall
    <2>. QED BY <2>2, <2>3, <2>4 DEF DeclaredFirst, Init
  <1>11. ProcessesKnown
    <2>1. ASSUME NEW m \in Module, NEW i \in DOMAIN FilesOf(m)
          PROVE  compiling_pid[FilesOf(m)[i]] = Pid(m, i)
      <3>1. FilesOf(m)[i] \in SourceFile
        BY <1>6, FilesType, Elements DEF TypeOK
      <3>2. Pid(m, i) = 0 - is_compiled[m]
        BY <1>4, <1>9, PidAtRest
      <3>3. is_compiled[m] = 0
        BY DEF Init
      <3>4. compiling_pid[FilesOf(m)[i]] = 0
        BY <3>1 DEF Init
      <3>. QED BY <3>2, <3>3, <3>4
    <2>. QED BY <2>1 DEF ProcessesKnown, Init
  <1>12. WaitedFor
    BY <1>4, <1>7 DEF WaitedFor, WaitedCall, Init
  <1>13. IncludesAreTransitive
    <2>1. ASSUME NEW m \in Module, NEW f \in ToSet(FilesOf(m)) PROVE process[f] = "none"
      <3>1. f \in SourceFile
        BY <1>6, FilesType, Elements DEF TypeOK
      <3>. QED BY <3>1 DEF Init
    <2>. QED BY <2>1 DEF IncludesAreTransitive
  <1>. QED BY <1>6, <1>8, <1>10, <1>11, <1>12, <1>13
       DEF BuildInv, EveryFileIsAwaitedOnce, LinkIsComplete, Init

-----------------------------------------------------------------------------
\* Whether the program is linked is decided once.
LEMMA FilesStay == ASSUME is_link_option' = is_link_option PROVE \A m : FilesOf(m)' = FilesOf(m)
  BY DEF FilesOf

\* Compilers and command lines stay known where nothing they are about changes.
LEMMA RestStays ==
  ASSUME BuildInv, UNCHANGED <<is_link_option, includes, process>>
  PROVE  IncludesAreTransitive'
  <1>1. \A m : FilesOf(m)' = FilesOf(m)
    BY FilesStay
  <1>. QED BY <1>1 DEF BuildInv, IncludesAreTransitive

\* A step that starts and collects no compiler leaves each module as far as it was.
LEMMA PidsStay ==
  ASSUME BuildInv, UNCHANGED <<is_link_option, compiling_pid, process>>,
         \A m \in Module : \A i \in DOMAIN FilesOf(m) : Pid(m, i)' = Pid(m, i)
  PROVE  ProcessesKnown'
  <1>1. \A m : FilesOf(m)' = FilesOf(m)
    BY FilesStay
  <1>2. \A m \in Module : \A i \in DOMAIN FilesOf(m) : compiling_pid'[FilesOf(m)[i]] = Pid(m, i)'
    BY DEF BuildInv, ProcessesKnown
  <1>3. \A m \in Module : \A i \in DOMAIN FilesOf(m)' : compiling_pid'[FilesOf(m)'[i]] = Pid(m, i)'
    BY <1>1, <1>2
  <1>4. \A f \in SourceFile :
          /\ process'[f] = "none" <=> compiling_pid'[f] = 0
          /\ compiling_pid'[f] = -1 => process'[f] \in {"succeeded", "failed"}
    BY DEF BuildInv, ProcessesKnown
  <1>. QED BY <1>3, <1>4 DEF ProcessesKnown

\* While a module declares: all it has declared before is compiled.
LEMMA DeclaringGoesOn ==
  ASSUME BuildInv, In("init")
  PROVE  /\ main = "declare" /\ stack # <<>> /\ Top.proc = "init"
         /\ is_compiled[Top.module] = 0
         /\ \A d \in ToSet(dependencies[Top.module]) : is_compiled[d] # 0
         /\ \A j \in 1 .. Len(Dependencies[Top.module]) :
              j < Top.next => Dependencies[Top.module][j] \in ToSet(dependencies[Top.module])
         /\ \A i \in 1 .. Len(stack) : stack[i].proc = "init"
  <1>1. stack # <<>> /\ Top.proc = "init"
    BY DEF In
  <1>2. /\ Len(stack) \in Nat \ {0} /\ Len(stack) \in 1 .. Len(stack) /\ Top = stack[Len(stack)]
    BY <1>1, TopFacts DEF BuildInv
  <1>3. main = "declare"
    BY <1>1, <1>2 DEF BuildInv, CallsNest
  <1>4. DeclaredCall(Len(stack))
    BY <1>2 DEF BuildInv, DeclaredFirst
  <1>5. \A d : ~Calls(Len(stack), d)
    BY <1>2 DEF Calls
  <1>6. \A i \in 1 .. Len(stack) : stack[i].proc = "init"
    <2>1. \A i \in 1 .. Len(stack) : i = Len(stack) \/ i < Len(stack)
      BY <1>2
    <2>. QED BY <1>1, <1>2, <1>3, <2>1 DEF BuildInv, CallsNest
  <1>. QED BY <1>1, <1>2, <1>3, <1>4, <1>5, <1>6 DEF DeclaredCall

\* A module whose init declares the next dependency.
LEMMA AddDependencyHolds == ASSUME BuildInv, AddDependency PROVE BuildInv'
  <1> DEFINE m == Top.module
             n == Len(stack)
             d == Dependencies[m][Top.next]
  <1>1. /\ main = "declare" /\ stack # <<>> /\ Top.proc = "init" /\ is_compiled[m] = 0
        /\ \A e \in ToSet(dependencies[m]) : is_compiled[e] # 0
        /\ \A j \in 1 .. Len(Dependencies[m]) : j < Top.next => Dependencies[m][j] \in ToSet(dependencies[m])
        /\ \A i \in 1 .. n : stack[i].proc = "init"
    BY DeclaringGoesOn DEF AddDependency
  <1>2. /\ n \in Nat \ {0} /\ n \in 1 .. n /\ Top = stack[n]
        /\ Top \in Frame /\ m \in Module /\ Top.next \in Nat \ {0}
    BY <1>1, TopFacts DEF BuildInv
  <1>3. d \in Module /\ d \in ToSet(Dependencies[m]) /\ Rank[d] < Rank[m] /\ d # m
        /\ Top.next \in 1 .. Len(Dependencies[m])
    <2>1. Dependencies[m] \in Seq(Module) /\ Top.next <= Len(Dependencies[m])
      BY <1>2, AskedType DEF AddDependency
    <2>2. Top.next \in 1 .. Len(Dependencies[m])
      BY <1>2, <2>1
    <2>3. d \in Module /\ d \in ToSet(Dependencies[m])
      BY <2>1, <2>2, Elements
    <2>. QED BY <1>2, <2>2, <2>3, RankFalls DEF Falls
  <1>4. UNCHANGED <<main, is_link_option, is_compiled, compiling_pid, includes, process, command>>
    BY DEF AddDependency
  <1>5. stack \in Seq(Frame) /\ dependencies \in [Module -> Seq(Module)]
    BY DEF BuildInv, TypeOK
  <1>6. \/ d \in ToSet(dependencies[m]) /\ Continue /\ UNCHANGED dependencies
        \/ /\ dependencies' = [dependencies EXCEPT ![m] = Append(@, d)]
           /\ \/ is_compiled[d] # 0 /\ Continue
              \/ is_compiled[d] = 0 /\ ContinueAfter("init", d)
    BY DEF AddDependency
  <1>. HIDE DEF m, n, d
  \* What the two kinds of step have in common.
  <1>7. /\ dependencies' \in [Module -> Seq(Module)]
        /\ \A x \in Module : x # m => dependencies'[x] = dependencies[x]
        /\ ToSet(dependencies'[m]) = ToSet(dependencies[m]) \cup {d}
    <2>1. CASE d \in ToSet(dependencies[m]) /\ UNCHANGED dependencies
      BY <1>5, <2>1
    <2>2. CASE dependencies' = [dependencies EXCEPT ![m] = Append(@, d)]
      <3>1. dependencies[m] \in Seq(Module)
        BY <1>2, <1>5
      <3>2. Append(dependencies[m], d) \in Seq(Module)
            /\ ToSet(Append(dependencies[m], d)) = ToSet(dependencies[m]) \cup {d}
        BY <1>3, <3>1, AppendAdds
      <3>. QED BY <1>2, <1>5, <2>2, <3>2
    <2>. QED BY <1>6, <2>1, <2>2
  <1>8. /\ stack' \in Seq(Frame)
        /\ \A i \in 1 .. n : i < n => stack'[i] = stack[i]
        /\ stack'[n] = [proc |-> "init", module |-> m, next |-> Top.next + 1]
        /\ \/ Len(stack') = n /\ is_compiled[d] # 0
           \/ /\ Len(stack') = n + 1 /\ is_compiled[d] = 0
              /\ stack'[n + 1] = [proc |-> "init", module |-> d, next |-> 1]
    <2>1. CASE Continue /\ is_compiled[d] # 0
      BY <1>1, <1>5, <2>1, ContinueStack DEF n, m
    <2>2. CASE ContinueAfter("init", d) /\ is_compiled[d] = 0
      BY <1>1, <1>3, <1>5, <2>2, ContinueAfterStack DEF n, m
    <2>. QED BY <1>1, <1>6, <2>1, <2>2
  <1>9. /\ Len(stack') \in Nat \ {0} /\ n <= Len(stack')
        /\ \A i \in 1 .. Len(stack') : i \in 1 .. n \/ (i = n + 1 /\ Len(stack') = n + 1)
        /\ \A i \in 1 .. n : i \in 1 .. Len(stack')
    BY <1>2, <1>8
  <1>10. \A i \in 1 .. n : stack'[i].proc = "init" /\ stack'[i].module = stack[i].module
    BY <1>1, <1>2, <1>8 DEF m
  <1>11. \A i \in 1 .. Len(stack') : stack'[i].proc = "init"
    BY <1>8, <1>9, <1>10
  <1>12. TypeOK'
    BY <1>4, <1>7, <1>8 DEF BuildInv, TypeOK
  <1>12a. \A i \in 1 .. n : stack[i].module \in Module
    BY FrameFacts DEF BuildInv, n
  <1>13. \A i \in 1 .. n : i < n => Rank[m] < Rank[stack[i].module] /\ stack[i].module # m
    BY <1>1, TopIsLeast DEF BuildInv, n, m
  <1>14. CallsNest'
    <2>1. ASSUME NEW i \in 1 .. Len(stack'), NEW j \in 1 .. Len(stack'), i < j
          PROVE  Rank[stack'[j].module] < Rank[stack'[i].module]
      <3>1. i \in 1 .. n
        BY <1>2, <1>9, <2>1
      <3>2. CASE j \in 1 .. n
        BY <1>10, <2>1, <3>1, <3>2 DEF BuildInv, CallsNest, n
      <3>3. CASE j = n + 1 /\ Len(stack') = n + 1
        <4>1. stack'[j].module = d
          BY <1>2, <1>8, <3>3
        <4>2. Rank[d] \in Nat /\ Rank[m] \in Nat /\ Rank[stack[i].module] \in Nat
          BY <1>2, <1>3, <1>12a, <3>1, RankFalls
        <4>3. Rank[m] <= Rank[stack[i].module]
          <5>1. i = n \/ i < n
            BY <1>2, <3>1
          <5>. QED BY <1>2, <1>13, <3>1, <4>2, <5>1 DEF m
        <4>. QED BY <1>3, <1>10, <3>1, <4>1, <4>2, <4>3
      <3>. QED BY <1>9, <3>2, <3>3
    <2>. QED BY <1>1, <1>4, <1>11, <2>1 DEF CallsNest
  <1>15. ~Called(d)
    <2>1. \A i \in 1 .. n : stack[i].module # d
      <3>1. TAKE i \in 1 .. n
      <3>2. CASE i = n
        BY <1>2, <1>3, <3>2 DEF m
      <3>3. CASE i < n
        <4>1. Rank[m] < Rank[stack[i].module] /\ Rank[d] < Rank[m]
          BY <1>3, <1>13, <3>3
        <4>2. Rank[d] \in Nat /\ Rank[m] \in Nat
          BY <1>2, <1>3, RankFalls
        <4>. QED BY <4>1, <4>2
      <3>. QED BY <1>2, <3>2, <3>3
    <2>. QED BY <2>1 DEF Called, n
  <1>16. \A x : Called(x) => Called(x)'
    BY <1>9, <1>10 DEF Called, n
  <1>17. DeclaredFirst'
    <2>1. ASSUME NEW x \in Module PROVE DeclaredModule(x)'
      <3>1. DeclaredModule(x)
        BY DEF BuildInv, DeclaredFirst
      <3>2. CASE x = m
        <4>1. Called(m)
          BY <1>2 DEF Called, n, m
        <4>. QED BY <1>1, <1>3, <1>4, <1>7, <1>16, <3>1, <3>2, <4>1 DEF DeclaredModule
      <3>3. CASE x # m
        BY <1>4, <1>7, <1>16, <3>1, <3>3 DEF DeclaredModule
      <3>. QED BY <3>2, <3>3
    <2>2. IF main' = "declare" THEN is_compiled'[Root] # 0 \/ Called(Root)' ELSE is_compiled'[Root] # 0
      BY <1>4, <1>16 DEF BuildInv, DeclaredFirst
    <2>3. ASSUME NEW i \in 1 .. Len(stack') PROVE DeclaredCall(i)'
      <3>1. CASE i \in 1 .. n /\ i < n
        <4>1. DeclaredCall(i)
          BY <3>1 DEF BuildInv, DeclaredFirst, n
        <4>2. stack'[i] = stack[i] /\ stack[i].module # m /\ stack[i].module \in Module /\ stack[i].proc = "init"
          BY <1>1, <1>8, <1>13, <3>1, FrameFacts DEF BuildInv, n
        <4>3. dependencies'[stack[i].module] = dependencies[stack[i].module]
          BY <1>7, <4>2
        <4>4. \A e : Calls(i, e) => Calls(i, e)'
          <5>1. i + 1 \in 1 .. n /\ i < Len(stack')
            BY <1>2, <1>9, <3>1
          <5>. QED BY <1>10, <5>1 DEF Calls
        <4>. QED BY <1>4, <4>1, <4>2, <4>3, <4>4 DEF DeclaredCall
      <3>2. CASE i = n
        <4>1. stack'[i].proc = "init" /\ stack'[i].module = m /\ stack'[i].next = Top.next + 1
          BY <1>8, <3>2
        <4>2. \A j \in 1 .. Len(Dependencies[m]) :
                j < Top.next + 1 => Dependencies[m][j] \in ToSet(dependencies'[m])
          <5>1. TAKE j \in 1 .. Len(Dependencies[m])
          <5>2. j < Top.next + 1 => j < Top.next \/ j = Top.next
            BY <1>2, <1>3
          <5>. QED BY <1>1, <1>7, <5>2 DEF d
        <4>3. is_compiled[d] # 0 \/ (i < Len(stack') /\ stack'[i + 1].module = d)
          BY <1>2, <1>8, <3>2
        <4>4. \A e \in ToSet(dependencies'[m]) :
                is_compiled'[e] # 0 \/ (i < Len(stack') /\ stack'[i + 1].module = e)
          BY <1>1, <1>4, <1>7, <4>3
        <4>. QED BY <1>1, <1>4, <4>1, <4>2, <4>4 DEF DeclaredCall, Calls
      <3>3. CASE i = n + 1 /\ Len(stack') = n + 1
        <4>1. /\ stack'[i].proc = "init" /\ stack'[i].module = d /\ stack'[i].next = 1
              /\ is_compiled[d] = 0
          BY <1>2, <1>8, <3>3
        <4>2. dependencies'[d] = <<>>
          BY <1>3, <1>7, <1>15, <4>1 DEF BuildInv, DeclaredFirst, DeclaredModule
        <4>3. ToSet(dependencies'[d]) = {}
          BY <4>2, EmptyWalk
        <4>4. \A j \in 1 .. Len(Dependencies[d]) : ~(j < 1)
          BY <1>3, AskedType
        <4>. QED BY <1>4, <4>1, <4>3, <4>4 DEF DeclaredCall
      <3>. QED BY <1>2, <1>9, <3>1, <3>2, <3>3
    <2>. QED BY <2>1, <2>2, <2>3 DEF DeclaredFirst
  <1>18. ProcessesKnown'
    <2>1. ASSUME NEW x \in Module, NEW i \in DOMAIN FilesOf(x) PROVE Pid(x, i)' = Pid(x, i)
      <3>1. Pid(x, i) = 0 - is_compiled[x]
        BY <1>1, PidAtRest
      <3>2. Top'.proc = "init"
        <4>1. Len(stack') \in 1 .. Len(stack')
          BY <1>9
        <4>. QED BY <1>11, <4>1 DEF Top, Last
      <3>3. Pid(x, i)' = 0 - is_compiled'[x]
        BY <3>2 DEF Pid
      <3>. QED BY <1>4, <3>1, <3>3
    <2>. QED BY <1>4, <2>1, PidsStay
  <1>19. WaitedFor'
    <2>1. \A i \in 1 .. Len(stack') : WaitedCall(i)'
      BY <1>11 DEF WaitedCall
    <2>2. \A x \in Module : is_compiled'[x] = 1 => \A e \in ToSet(dependencies'[x]) : is_compiled'[e] = 1
      BY <1>1, <1>4, <1>7 DEF BuildInv, WaitedFor
    <2>. QED BY <1>1, <1>4, <2>1, <2>2 DEF WaitedFor
  <1>20. IncludesAreTransitive'
    BY <1>4, RestStays
  <1>. QED BY <1>1, <1>4, <1>12, <1>14, <1>17, <1>18, <1>19, <1>20
       DEF BuildInv, EveryFileIsAwaitedOnce, LinkIsComplete

-----------------------------------------------------------------------------
\* What a call keeps of the calls around it when the innermost one becomes another.
LEMMA ReplacingNests ==
  ASSUME BuildInv, stack # <<>>, UNCHANGED main, main # "ended", Len(stack') = Len(stack),
         \A i \in 1 .. Len(stack) : i < Len(stack) => stack'[i] = stack[i],
         stack'[Len(stack)].module = Top.module,
         stack'[Len(stack)].proc \in (IF main = "declare" THEN {"init", "compile"} ELSE {"wait", "collect"})
  PROVE  /\ CallsNest'
         /\ \A x : Called(x)' <=> Called(x)
         /\ \A i, x : Calls(i, x) /\ i \in 1 .. Len(stack) => Calls(i, x)'
         /\ Top' = stack'[Len(stack)]
  <1> DEFINE n == Len(stack)
  <1>1. n \in Nat \ {0} /\ n \in 1 .. n /\ Top = stack[n]
    BY TopFacts DEF BuildInv
  <1>2. \A i \in 1 .. n : i = n \/ i < n
    BY <1>1
  <1>3. Len(stack') = n /\ Top' = stack'[n]
    BY DEF Top, Last
  <1>. HIDE DEF n
  <1>4. \A i \in 1 .. n : stack'[i].module = stack[i].module
    BY <1>1, <1>2 DEF n
  <1>5. \A i, j \in 1 .. n : i < j => Rank[stack'[j].module] < Rank[stack'[i].module]
    BY <1>4 DEF BuildInv, CallsNest, n
  <1>6. \A i \in 1 .. n :
          /\ stack'[i].proc \in (IF main = "declare" THEN {"init", "compile"} ELSE {"wait", "collect"})
          /\ i < n => stack'[i].proc \in {"init", "wait"}
    <2>1. TAKE i \in 1 .. n
    <2>2. CASE i = n
      BY <1>1, <2>2 DEF n
    <2>3. CASE i < n
      BY <2>3 DEF BuildInv, CallsNest, n
    <2>. QED BY <1>2, <2>2, <2>3
  <1>7. CallsNest'
    BY <1>3, <1>5, <1>6 DEF CallsNest
  <1>8. \A x : Called(x)' <=> Called(x)
    BY <1>3, <1>4 DEF Called, n
  <1>9. \A i, x : Calls(i, x) /\ i \in 1 .. n => Calls(i, x)'
    <2>1. \A i : i \in 1 .. n /\ i < n => i + 1 \in 1 .. n
      BY <1>1
    <2>. QED BY <1>3, <1>4, <2>1 DEF Calls, n
  <1>. QED BY <1>3, <1>7, <1>8, <1>9 DEF n

\* A call that is not the innermost one stays as declared as it was.
LEMMA DeclaredCallStays ==
  ASSUME BuildInv, NEW i \in 1 .. Len(stack), stack'[i] = stack[i], UNCHANGED dependencies,
         \A x \in Module : is_compiled[x] # 0 => is_compiled'[x] # 0,
         stack[i].proc = "init" => is_compiled'[stack[i].module] = is_compiled[stack[i].module],
         \A x \in Module : Calls(i, x) => Calls(i, x)' \/ is_compiled'[x] # 0
  PROVE  DeclaredCall(i)'
  <1>1. DeclaredCall(i)
    BY DEF BuildInv, DeclaredFirst
  <1>2. stack[i].module \in Module
    BY FrameFacts DEF BuildInv
  <1>3. ToSet(dependencies[stack[i].module]) \subseteq Module
    BY <1>2, Elements DEF BuildInv, TypeOK
  <1>. QED BY <1>1, <1>2, <1>3 DEF DeclaredCall

\* A module that has declared all and is compiled now.
LEMMA StartCompilationHolds == ASSUME BuildInv, StartCompilation PROVE BuildInv'
  <1> DEFINE m == Top.module
             n == Len(stack)
  <1>1. /\ main = "declare" /\ stack # <<>> /\ Top.proc = "init" /\ is_compiled[m] = 0
        /\ \A e \in ToSet(dependencies[m]) : is_compiled[e] # 0
        /\ \A j \in 1 .. Len(Dependencies[m]) : j < Top.next => Dependencies[m][j] \in ToSet(dependencies[m])
        /\ \A i \in 1 .. n : stack[i].proc = "init"
    BY DeclaringGoesOn DEF StartCompilation
  <1>2. /\ n \in Nat \ {0} /\ n \in 1 .. n /\ Top = stack[n]
        /\ Top \in Frame /\ m \in Module /\ Top.next \in Nat \ {0}
    BY <1>1, TopFacts DEF BuildInv
  <1>3. /\ UNCHANGED <<main, is_link_option, dependencies, compiling_pid, includes, process, command>>
        /\ Become("compile") /\ is_compiled' = [is_compiled EXCEPT ![m] = -1]
        /\ Top.next > Len(Dependencies[m])
    BY <1>1 DEF StartCompilation
  <1>4. stack \in Seq(Frame) /\ is_compiled \in [Module -> {-1, 0, 1}]
    BY DEF BuildInv, TypeOK
  <1>5. /\ stack' \in Seq(Frame) /\ Len(stack') = n
        /\ \A i \in 1 .. n : i < n => stack'[i] = stack[i]
        /\ stack'[n] = [proc |-> "compile", module |-> m, next |-> 1]
    BY <1>1, <1>3, <1>4, BecomeStack
  <1>6. \A i \in 1 .. n : i < n => stack[i].module # m
    BY <1>1, TopIsLeast DEF BuildInv
  <1>. HIDE DEF m, n
  <1>7. stack'[n].proc = "compile" /\ stack'[n].module = m /\ stack'[n].next = 1
    BY <1>5
  <1>8. /\ CallsNest'
        /\ \A x : Called(x)' <=> Called(x)
        /\ \A i, x : Calls(i, x) /\ i \in 1 .. n => Calls(i, x)'
        /\ Top' = stack'[n]
    BY <1>1, <1>3, <1>5, <1>7, ReplacingNests DEF n, m
  <1>9. is_compiled'[m] = -1 /\ \A x \in Module : x # m => is_compiled'[x] = is_compiled[x]
    BY <1>2, <1>3, <1>4
  <1>10. TypeOK'
    BY <1>3, <1>4, <1>5 DEF BuildInv, TypeOK
  <1>11. \A x \in Module : is_compiled[x] # 0 => is_compiled'[x] # 0
    BY <1>9
  <1>12. \A i \in 1 .. n : i = n \/ i < n
    BY <1>2
  <1>13. DeclaredFirst'
    <2>1. ASSUME NEW x \in Module PROVE DeclaredModule(x)'
      <3>1. DeclaredModule(x)
        BY DEF BuildInv, DeclaredFirst
      <3>2. \A d \in ToSet(Dependencies[x]) : d \in Module
        BY AskedType
      <3>3. CASE x = m
        <4>1. Called(m)
          BY <1>2 DEF Called, n, m
        <4>2. ToSet(Dependencies[m]) \subseteq ToSet(dependencies[m])
          <5>1. \A j \in 1 .. Len(Dependencies[m]) : j < Top.next
            BY <1>2, <1>3, AskedType
          <5>2. ASSUME NEW e \in ToSet(Dependencies[m]) PROVE e \in ToSet(dependencies[m])
            <6>1. Dependencies[m] \in Seq(Module)
              BY <1>2, AskedType
            <6>2. PICK j \in 1 .. Len(Dependencies[m]) : e = Dependencies[m][j]
              BY <5>2, <6>1, Elements
            <6>. QED BY <1>1, <5>1, <6>2 DEF m
          <5>. QED BY <5>2
        <4>3. \A e \in ToSet(Dependencies[m]) : is_compiled'[e] # 0
          BY <1>1, <1>11, <3>2, <3>3, <4>2
        <4>. QED BY <1>3, <1>8, <3>1, <3>3, <4>1, <4>2, <4>3 DEF DeclaredModule
      <3>4. CASE x # m
        BY <1>3, <1>8, <1>9, <1>11, <3>1, <3>2, <3>4 DEF DeclaredModule
      <3>. QED BY <3>3, <3>4
    <2>2. is_compiled'[Root] # 0 \/ Called(Root)'
      BY <1>1, <1>8, <1>11, BuildAssumption DEF BuildInv, DeclaredFirst
    <2>3. ASSUME NEW i \in 1 .. n PROVE DeclaredCall(i)'
      <3>1. CASE i < n
        <4>1. stack[i].module \in Module
          BY FrameFacts DEF BuildInv, n
        <4>2. is_compiled'[stack[i].module] = is_compiled[stack[i].module]
          BY <1>6, <1>9, <3>1, <4>1
        <4>. QED BY <1>3, <1>5, <1>8, <1>11, <3>1, <4>2, DeclaredCallStays DEF n
      <3>2. CASE i = n
        BY <1>7, <1>9, <3>2 DEF DeclaredCall
      <3>. QED BY <1>12, <3>1, <3>2
    <2>. QED BY <1>1, <1>3, <1>5, <2>1, <2>2, <2>3 DEF DeclaredFirst
  <1>14. ProcessesKnown'
    <2>1. ASSUME NEW x \in Module, NEW i \in DOMAIN FilesOf(x) PROVE Pid(x, i)' = Pid(x, i)
      <3>1. Pid(x, i) = 0 - is_compiled[x]
        BY <1>1, PidAtRest
      <3>2. CASE x # m
        <4>1. Pid(x, i)' = 0 - is_compiled'[x]
          BY <1>7, <1>8, <3>2 DEF Pid
        <4>. QED BY <1>9, <3>1, <3>2, <4>1
      <3>3. CASE x = m
        <4>1. i \in Nat \ {0}
          BY <1>10, FilesType, Elements DEF BuildInv, TypeOK
        <4>2. Len(stack') # 0
          BY <1>2, <1>5
        <4>3. stack' # <<>>
          BY <4>2
        <4>4. ~(i < 1)
          BY <4>1
        <4>5. Pid(x, i)' = 0
          BY <1>7, <1>8, <3>3, <4>3, <4>4 DEF Pid
        <4>. QED BY <1>1, <3>1, <3>3, <4>5
      <3>. QED BY <3>2, <3>3
    <2>. QED BY <1>3, <2>1, PidsStay
  <1>15. WaitedFor'
    <2>1. \A i \in 1 .. n : WaitedCall(i)'
      BY <1>1, <1>5, <1>7, <1>9, <1>12 DEF WaitedCall
    <2>2. \A x \in Module : is_compiled'[x] = 1 => \A e \in ToSet(dependencies'[x]) : is_compiled'[e] = 1
      <3>1. \A x \in Module : ToSet(dependencies[x]) \subseteq Module
        BY Elements DEF BuildInv, TypeOK
      <3>. QED BY <1>1, <1>3, <1>9, <3>1 DEF BuildInv, WaitedFor
    <2>. QED BY <1>1, <1>3, <1>5, <2>1, <2>2 DEF WaitedFor
  <1>16. IncludesAreTransitive'
    BY <1>3, RestStays
  <1>. QED BY <1>1, <1>3, <1>8, <1>10, <1>13, <1>14, <1>15, <1>16
       DEF BuildInv, EveryFileIsAwaitedOnce, LinkIsComplete

\* What a call leaves when it returns.
LEMMA ReturningNests ==
  ASSUME BuildInv, stack # <<>>, Return, UNCHANGED main
  PROVE  /\ stack' \in Seq(Frame) /\ Len(stack') = Len(stack) - 1
         /\ \A i \in 1 .. Len(stack') : i \in 1 .. Len(stack) /\ i < Len(stack) /\ stack'[i] = stack[i]
         /\ CallsNest'
         /\ \A x : Called(x)' => Called(x)
         /\ \A x : Called(x) => Called(x)' \/ x = Top.module
         /\ \A i, x : i \in 1 .. Len(stack') /\ Calls(i, x) => Calls(i, x)' \/ x = Top.module
         /\ stack' # <<>> => Top'.proc \in {"init", "wait"}
  <1> DEFINE n == Len(stack)
  <1>1. n \in Nat \ {0} /\ n \in 1 .. n /\ Top = stack[n] /\ stack \in Seq(Frame)
    BY TopFacts DEF BuildInv, TypeOK
  <1>2. stack' \in Seq(Frame) /\ Len(stack') = n - 1 /\ \A i \in 1 .. n - 1 : stack'[i] = stack[i]
    BY <1>1, ReturnStack
  <1>. HIDE DEF n
  <1>3. \A i \in 1 .. n - 1 : i \in 1 .. n /\ i < n /\ stack'[i] = stack[i]
    BY <1>1, <1>2
  <1>4. \A i \in 1 .. n : i = n \/ (i \in 1 .. n - 1 /\ i < n)
    BY <1>1
  <1>5. CallsNest'
    <2>1. main # "ended"
      BY DEF BuildInv, CallsNest
    <2>2. \A i, j \in 1 .. n - 1 : i < j => Rank[stack'[j].module] < Rank[stack'[i].module]
      BY <1>3 DEF BuildInv, CallsNest, n
    <2>3. \A i \in 1 .. n - 1 :
            /\ stack'[i].proc \in (IF main = "declare" THEN {"init", "compile"} ELSE {"wait", "collect"})
            /\ i < n - 1 => stack'[i].proc \in {"init", "wait"}
      BY <1>3 DEF BuildInv, CallsNest, n
    <2>. QED BY <1>2, <2>1, <2>2, <2>3 DEF CallsNest
  <1>6. \A x : Called(x)' => Called(x)
    BY <1>2, <1>3 DEF Called, n
  <1>7. \A x : Called(x) => Called(x)' \/ x = Top.module
    BY <1>1, <1>2, <1>3, <1>4 DEF Called, n
  <1>8. ASSUME NEW i \in 1 .. n - 1, NEW x, Calls(i, x) PROVE Calls(i, x)' \/ x = Top.module
    <2>1. i + 1 \in 1 .. n /\ stack[i + 1].module = x
      BY <1>1, <1>8 DEF Calls
    <2>2. CASE i + 1 = n
      BY <1>1, <2>1, <2>2
    <2>3. CASE i + 1 # n
      <3>1. i + 1 \in 1 .. n - 1 /\ i < n - 1
        BY <1>1, <2>1, <2>3
      <3>. QED BY <1>2, <1>3, <2>1, <3>1 DEF Calls
    <2>. QED BY <2>2, <2>3
  <1>9. stack' # <<>> => Top'.proc \in {"init", "wait"}
    <2>1. SUFFICES ASSUME stack' # <<>> PROVE Top'.proc \in {"init", "wait"}
      OBVIOUS
    <2>2. n - 1 \in 1 .. n - 1
      BY <1>1, <1>2, <2>1
    <2>3. Top' = stack[n - 1]
      BY <1>2, <1>3, <2>2 DEF Top, Last
    <2>. QED BY <1>3, <2>2, <2>3 DEF BuildInv, CallsNest, n
  <1>. QED BY <1>2, <1>3, <1>5, <1>6, <1>7, <1>8, <1>9 DEF n

\* While a module's compilers are started: the calls around it declare.
LEMMA CompilingGoesOn ==
  ASSUME BuildInv, In("compile")
  PROVE  /\ main = "declare" /\ stack # <<>> /\ Top.proc = "compile"
         /\ is_compiled[Top.module] = -1
         /\ \A i \in 1 .. Len(stack) : i < Len(stack) => stack[i].proc = "init"
         /\ \A i \in DOMAIN FilesOf(Top.module) : i \in Nat \ {0}
         /\ Top.module \in Module /\ Top.next \in Nat \ {0}
         /\ Len(stack) \in Nat \ {0} /\ Len(stack) \in 1 .. Len(stack) /\ Top = stack[Len(stack)]
  <1>1. stack # <<>> /\ Top.proc = "compile"
    BY DEF In
  <1>2. /\ Len(stack) \in Nat \ {0} /\ Len(stack) \in 1 .. Len(stack) /\ Top = stack[Len(stack)]
        /\ Top.module \in Module /\ Top.next \in Nat \ {0}
    BY <1>1, TopFacts DEF BuildInv
  <1>3. main = "declare"
    BY <1>1, <1>2 DEF BuildInv, CallsNest
  <1>4. is_compiled[Top.module] = -1
    BY <1>1, <1>2 DEF BuildInv, WaitedFor, WaitedCall
  <1>5. \A i \in 1 .. Len(stack) : i < Len(stack) => stack[i].proc = "init"
    BY <1>3 DEF BuildInv, CallsNest
  <1>6. FilesOf(Top.module) \in Seq(SourceFile)
    BY <1>2, FilesType DEF BuildInv, TypeOK
  <1>7. \A i \in DOMAIN FilesOf(Top.module) : i \in Nat \ {0}
    BY <1>6
  <1>. QED BY <1>1, <1>2, <1>3, <1>4, <1>5, <1>7

\* A module all of whose compilers run returns to the one that declared it.
LEMMA EndCompileHolds == ASSUME BuildInv, EndCompile PROVE BuildInv'
  <1> DEFINE m == Top.module
             n == Len(stack)
  <1>1. /\ main = "declare" /\ stack # <<>> /\ Top.proc = "compile" /\ is_compiled[m] = -1
        /\ \A i \in 1 .. n : i < n => stack[i].proc = "init"
        /\ m \in Module /\ Top.next \in Nat \ {0}
        /\ n \in Nat \ {0} /\ n \in 1 .. n /\ Top = stack[n]
    BY CompilingGoesOn DEF EndCompile
  <1>2. /\ UNCHANGED <<main, is_link_option, dependencies, is_compiled, compiling_pid, includes, process, command>>
        /\ Return /\ Top.next > Len(FilesOf(m))
    BY DEF EndCompile
  <1>3. /\ stack' \in Seq(Frame) /\ Len(stack') = n - 1
        /\ \A i \in 1 .. Len(stack') : i \in 1 .. n /\ i < n /\ stack'[i] = stack[i]
        /\ CallsNest'
        /\ \A x : Called(x)' => Called(x)
        /\ \A x : Called(x) => Called(x)' \/ x = m
        /\ \A i, x : i \in 1 .. Len(stack') /\ Calls(i, x) => Calls(i, x)' \/ x = m
        /\ stack' # <<>> => Top'.proc \in {"init", "wait"}
    BY <1>1, <1>2, ReturningNests
  <1>. HIDE DEF m, n
  <1>4. TypeOK'
    BY <1>2, <1>3 DEF BuildInv, TypeOK
  <1>5. DeclaredFirst'
    <2>1. ASSUME NEW x \in Module PROVE DeclaredModule(x)'
      BY <1>1, <1>2, <1>3 DEF BuildInv, DeclaredFirst, DeclaredModule
    <2>2. is_compiled'[Root] # 0 \/ Called(Root)'
      BY <1>1, <1>2, <1>3 DEF BuildInv, DeclaredFirst
    <2>3. ASSUME NEW i \in 1 .. Len(stack') PROVE DeclaredCall(i)'
      <3>1. i \in 1 .. Len(stack) /\ stack'[i] = stack[i]
        BY <1>3 DEF n
      <3>2. \A x : Calls(i, x) => Calls(i, x)' \/ is_compiled'[x] # 0
        BY <1>1, <1>2, <1>3
      <3>. QED BY <1>2, <3>1, <3>2, DeclaredCallStays
    <2>. QED BY <1>1, <1>2, <2>1, <2>2, <2>3 DEF DeclaredFirst
  <1>6. ProcessesKnown'
    <2>1. ASSUME NEW x \in Module, NEW i \in DOMAIN FilesOf(x) PROVE Pid(x, i)' = Pid(x, i)
      <3>1. Pid(x, i)' = 0 - is_compiled'[x]
        BY <1>3 DEF Pid
      <3>2. CASE x # m
        BY <1>2, <3>1, <3>2, PidAtRest DEF m
      <3>3. CASE x = m
        <4>1. FilesOf(m) \in Seq(SourceFile)
          BY <1>1, FilesType DEF BuildInv, TypeOK
        <4>2. i < Top.next
          BY <1>1, <1>2, <3>3, <4>1
        <4>3. Pid(x, i) = 1
          BY <1>1, <3>3, <4>2 DEF Pid, m
        <4>. QED BY <1>1, <1>2, <3>1, <3>3, <4>3
      <3>. QED BY <3>2, <3>3
    <2>. QED BY <1>2, <2>1, PidsStay
  <1>7. WaitedFor'
    <2>1. \A i \in 1 .. Len(stack') : WaitedCall(i)'
      BY <1>1, <1>3 DEF WaitedCall
    <2>. QED BY <1>1, <1>2, <2>1 DEF BuildInv, WaitedFor
  <1>8. IncludesAreTransitive'
    BY <1>2, RestStays
  <1>. QED BY <1>1, <1>2, <1>3, <1>4, <1>5, <1>6, <1>7, <1>8
       DEF BuildInv, EveryFileIsAwaitedOnce, LinkIsComplete

\* A compiler process that is started, with the directories of the modules below.
LEMMA ForkHolds == ASSUME BuildInv, Fork PROVE BuildInv'
  <1> DEFINE m == Top.module
             n == Len(stack)
             f == FilesOf(m)[Top.next]
             dirs == append_dependency_includes(m)
  <1>1. /\ main = "declare" /\ stack # <<>> /\ Top.proc = "compile" /\ is_compiled[m] = -1
        /\ \A i \in 1 .. n : i < n => stack[i].proc = "init"
        /\ m \in Module /\ Top.next \in Nat \ {0}
        /\ n \in Nat \ {0} /\ n \in 1 .. n /\ Top = stack[n]
    BY CompilingGoesOn DEF Fork
  <1>2. /\ UNCHANGED <<main, is_link_option, dependencies, is_compiled, command>>
        /\ Continue /\ Top.next <= Len(FilesOf(m))
        /\ \/ compiling_pid[f] # 0
           \/ /\ includes' = [includes EXCEPT ![f] = dirs]
              /\ compiling_pid' = [compiling_pid EXCEPT ![f] = 1]
              /\ process' = [process EXCEPT ![f] = "running"]
    BY DEF Fork
  <1>3. stack \in Seq(Frame) /\ is_link_option \in BOOLEAN
    BY DEF BuildInv, TypeOK
  <1>4. /\ stack' \in Seq(Frame) /\ Len(stack') = n
        /\ \A i \in 1 .. n : i < n => stack'[i] = stack[i]
        /\ stack'[n] = [proc |-> "compile", module |-> m, next |-> Top.next + 1]
    BY <1>1, <1>2, <1>3, ContinueStack
  <1>5. FilesOf(m) \in Seq(SourceFile)
    BY <1>1, <1>3, FilesType
  <1>6. Top.next \in DOMAIN FilesOf(m) /\ f \in SourceFile
    BY <1>1, <1>2, <1>5
  <1>7. dirs \in SUBSET Module /\ dirs = Below(m)
    <2>1. Declared
      BY TypeDeclared DEF BuildInv
    <2>2. WhollyDeclared(m)
      BY <1>1, CompiledIsDeclared DEF BuildInv
    <2>. QED BY <1>1, <2>1, <2>2, IncludesAreBelow
  <1>8. compiling_pid[f] = 0
    <2>1. Pid(m, Top.next) = 0
      BY <1>1 DEF Pid
    <2>. QED BY <1>1, <1>6, <2>1 DEF BuildInv, ProcessesKnown
  <1>9. /\ includes' = [includes EXCEPT ![f] = dirs]
        /\ compiling_pid' = [compiling_pid EXCEPT ![f] = 1]
        /\ process' = [process EXCEPT ![f] = "running"]
    BY <1>2, <1>8
  <1>. HIDE DEF dirs
  \* Another module's file, or another file of the module, is another file.
  <1>10. ASSUME NEW x \in Module, NEW i \in DOMAIN FilesOf(x), FilesOf(x)[i] = f
         PROVE  x = m /\ i = Top.next
    BY <1>1, <1>3, <1>6, <1>10, FilesApart
  <1>. HIDE DEF m, n, f
  <1>11. stack'[n].proc = "compile" /\ stack'[n].module = m /\ stack'[n].next = Top.next + 1
    BY <1>4
  <1>12. /\ CallsNest'
         /\ \A x : Called(x)' <=> Called(x)
         /\ \A i, x : Calls(i, x) /\ i \in 1 .. n => Calls(i, x)'
         /\ Top' = stack'[n]
    BY <1>1, <1>2, <1>4, <1>11, ReplacingNests DEF n, m
  <1>13. TypeOK'
    BY <1>2, <1>4, <1>6, <1>7, <1>9 DEF BuildInv, TypeOK
  <1>14. \A i \in 1 .. n : i = n \/ i < n
    BY <1>1
  <1>15. DeclaredFirst'
    <2>1. ASSUME NEW x \in Module PROVE DeclaredModule(x)'
      BY <1>2, <1>12 DEF BuildInv, DeclaredFirst, DeclaredModule
    <2>2. is_compiled'[Root] # 0 \/ Called(Root)'
      BY <1>1, <1>2, <1>12 DEF BuildInv, DeclaredFirst
    <2>3. ASSUME NEW i \in 1 .. n PROVE DeclaredCall(i)'
      <3>1. CASE i < n
        BY <1>2, <1>4, <1>12, <3>1, DeclaredCallStays DEF n
      <3>2. CASE i = n
        BY <1>1, <1>2, <1>11, <3>2 DEF DeclaredCall
      <3>. QED BY <1>14, <3>1, <3>2
    <2>. QED BY <1>1, <1>2, <1>4, <2>1, <2>2, <2>3 DEF DeclaredFirst
  <1>16. \A x : FilesOf(x)' = FilesOf(x)
    BY <1>2, FilesStay
  <1>17. ProcessesKnown'
    <2>1. ASSUME NEW x \in Module, NEW i \in DOMAIN FilesOf(x)
          PROVE  compiling_pid'[FilesOf(x)[i]] = Pid(x, i)'
      <3>1. FilesOf(x) \in Seq(SourceFile)
        BY <1>3, FilesType
      <3>2. FilesOf(x)[i] \in SourceFile /\ i \in Nat
        BY <3>1
      <3>3. stack' # <<>>
        <4>1. Len(stack') # 0
          BY <1>1, <1>4
        <4>. QED BY <4>1
      <3>4. compiling_pid[FilesOf(x)[i]] = Pid(x, i)
        BY DEF BuildInv, ProcessesKnown
      <3>5. CASE x # m
        <4>1. compiling_pid'[FilesOf(x)[i]] = compiling_pid[FilesOf(x)[i]]
          BY <1>9, <1>10, <3>2, <3>5 DEF BuildInv, TypeOK
        <4>2. Pid(x, i) = 0 - is_compiled[x]
          BY <3>5, PidAtRest DEF m
        <4>3. Pid(x, i)' = 0 - is_compiled'[x]
          BY <1>11, <1>12, <3>5 DEF Pid
        <4>. QED BY <1>2, <3>4, <4>1, <4>2, <4>3
      <3>6. CASE x = m
        <4>1. Pid(x, i) = IF i < Top.next THEN 1 ELSE 0
          BY <1>1, <3>6 DEF Pid, m
        <4>2. Pid(x, i)' = IF i < Top.next + 1 THEN 1 ELSE 0
          BY <1>11, <1>12, <3>3, <3>6 DEF Pid
        <4>3. CASE i = Top.next
          <5>1. FilesOf(x)[i] = f
            BY <3>6, <4>3 DEF f
          <5>2. compiling_pid'[f] = 1
            BY <1>6, <1>9 DEF BuildInv, TypeOK
          <5>. QED BY <3>2, <4>2, <4>3, <5>1, <5>2
        <4>4. CASE i # Top.next
          <5>1. compiling_pid'[FilesOf(x)[i]] = compiling_pid[FilesOf(x)[i]]
            BY <1>9, <1>10, <3>2, <4>4 DEF BuildInv, TypeOK
          <5>2. i < Top.next + 1 <=> i < Top.next
            BY <1>1, <3>2, <4>4
          <5>. QED BY <3>4, <4>1, <4>2, <5>1, <5>2
        <4>. QED BY <4>3, <4>4
      <3>. QED BY <3>5, <3>6
    <2>2. ASSUME NEW g \in SourceFile
          PROVE  /\ process'[g] = "none" <=> compiling_pid'[g] = 0
                 /\ compiling_pid'[g] = -1 => process'[g] \in {"succeeded", "failed"}
      <3>1. CASE g = f
        <4>1. process'[f] = "running" /\ compiling_pid'[f] = 1
          BY <1>6, <1>9 DEF BuildInv, TypeOK
        <4>. QED BY <3>1, <4>1
      <3>2. CASE g # f
        BY <1>9, <3>2 DEF BuildInv, TypeOK, ProcessesKnown
      <3>. QED BY <3>1, <3>2
    <2>. QED BY <1>16, <2>1, <2>2 DEF ProcessesKnown
  <1>18. WaitedFor'
    <2>1. \A i \in 1 .. n : WaitedCall(i)'
      BY <1>1, <1>2, <1>4, <1>11, <1>14 DEF WaitedCall
    <2>. QED BY <1>1, <1>2, <1>4, <2>1 DEF BuildInv, WaitedFor
  <1>19. IncludesAreTransitive'
    <2>1. ASSUME NEW x \in Module, NEW g \in ToSet(FilesOf(x)), process'[g] # "none"
          PROVE  includes'[g] = Below(x)
      <3>1. FilesOf(x) \in Seq(SourceFile)
        BY <1>3, FilesType
      <3>2. PICK i \in DOMAIN FilesOf(x) : g = FilesOf(x)[i]
        BY <3>1, Elements
      <3>3. g \in SourceFile
        BY <3>1, <3>2
      <3>4. CASE g = f
        BY <1>6, <1>7, <1>9, <1>10, <3>2, <3>4 DEF BuildInv, TypeOK
      <3>5. CASE g # f
        <4>1. process'[g] = process[g] /\ includes'[g] = includes[g]
          BY <1>9, <3>3, <3>5 DEF BuildInv, TypeOK
        <4>. QED BY <2>1, <4>1 DEF BuildInv, IncludesAreTransitive
      <3>. QED BY <3>4, <3>5
    <2>. QED BY <1>16, <2>1 DEF IncludesAreTransitive
  <1>. QED BY <1>1, <1>2, <1>12, <1>13, <1>15, <1>17, <1>18, <1>19
       DEF BuildInv, EveryFileIsAwaitedOnce, LinkIsComplete

\* A compiler process that ends on its own.
LEMMA ProcessEndsHolds ==
  ASSUME BuildInv, NEW f \in SourceFile, ProcessEnds(f) PROVE BuildInv'
  <1>1. PICK outcome \in {"succeeded", "failed"} : process' = [process EXCEPT ![f] = outcome]
    BY DEF ProcessEnds
  <1>2. /\ process[f] = "running"
        /\ UNCHANGED <<main, is_link_option, stack, dependencies, is_compiled, compiling_pid, includes, command>>
    BY DEF ProcessEnds
  <1>3. TypeOK'
    BY <1>1, <1>2 DEF BuildInv, TypeOK
  <1>4. \A g \in SourceFile :
          /\ process'[g] = "none" <=> process[g] = "none"
          /\ process[g] \in {"succeeded", "failed"} => process'[g] \in {"succeeded", "failed"}
    <2>1. TAKE g \in SourceFile
    <2>2. CASE g = f
      <3>1. process'[f] = outcome
        BY <1>1 DEF BuildInv, TypeOK
      <3>. QED BY <1>2, <2>2, <3>1
    <2>3. CASE g # f
      BY <1>1, <2>3 DEF BuildInv, TypeOK
    <2>. QED BY <2>2, <2>3
  <1>5. \A x : FilesOf(x)' = FilesOf(x)
    BY <1>2, FilesStay
  <1>6. CallsNest'
    BY <1>2 DEF BuildInv, CallsNest
  <1>7. DeclaredFirst'
    <2>1. \A x : Called(x)' <=> Called(x)
      BY <1>2 DEF Called
    <2>2. \A x \in Module : DeclaredModule(x)'
      BY <1>2, <2>1 DEF BuildInv, DeclaredFirst, DeclaredModule
    <2>3. \A i \in 1 .. Len(stack) : DeclaredCall(i)'
      BY <1>2 DEF BuildInv, DeclaredFirst, DeclaredCall, Calls
    <2>. QED BY <1>2, <2>1, <2>2, <2>3 DEF BuildInv, DeclaredFirst
  <1>8. ProcessesKnown'
    <2>1. \A x, i : Pid(x, i)' = Pid(x, i)
      BY <1>2 DEF Pid, Top
    <2>2. \A x \in Module : \A i \in DOMAIN FilesOf(x) : compiling_pid'[FilesOf(x)[i]] = Pid(x, i)'
      BY <1>2, <2>1 DEF BuildInv, ProcessesKnown
    <2>3. \A g \in SourceFile :
            /\ process'[g] = "none" <=> compiling_pid'[g] = 0
            /\ compiling_pid'[g] = -1 => process'[g] \in {"succeeded", "failed"}
      BY <1>2, <1>4 DEF BuildInv, ProcessesKnown
    <2>. QED BY <1>5, <2>2, <2>3 DEF ProcessesKnown
  <1>9. WaitedFor'
    <2>1. \A i \in 1 .. Len(stack) : WaitedCall(i)'
      BY <1>2 DEF BuildInv, WaitedFor, WaitedCall, Calls
    <2>2. \A x : Called(x)' <=> Called(x)
      BY <1>2 DEF Called
    <2>. QED BY <1>2, <2>1, <2>2 DEF BuildInv, WaitedFor
  <1>10. \A x \in Module : ToSet(FilesOf(x)) \subseteq SourceFile
    BY FilesType, Elements DEF BuildInv, TypeOK
  <1>11. IncludesAreTransitive'
    BY <1>2, <1>4, <1>5, <1>10 DEF BuildInv, IncludesAreTransitive
  <1>12. LinkIsComplete'
    <2>1. Parts' = Parts /\ Parts \subseteq SourceFile
      <3>1. \A x \in {Root} \cup Below(Root) : x \in Module
        BY BuildAssumption DEF Below
      <3>. QED BY <1>5, <1>10, <3>1 DEF Parts
    <2>. QED BY <1>2, <1>4, <2>1 DEF BuildInv, LinkIsComplete, Parts
  <1>. QED BY <1>2, <1>3, <1>6, <1>7, <1>8, <1>9, <1>11, <1>12
       DEF BuildInv, EveryFileIsAwaitedOnce

-----------------------------------------------------------------------------
\* While the driver waits: every module a call is about was compiled.
LEMMA WaitingGoesOn ==
  ASSUME BuildInv, stack # <<>>, Top.proc \in {"wait", "collect"}
  PROVE  /\ main = "wait"
         /\ \A i \in 1 .. Len(stack) :
              /\ stack[i].proc \in {"wait", "collect"}
              /\ i < Len(stack) => stack[i].proc = "wait"
              /\ stack[i].module \in Module /\ is_compiled[stack[i].module] # 0
         /\ Top.module \in Module /\ Top.next \in Nat \ {0} /\ is_compiled[Top.module] \in {-1, 1}
         /\ Len(stack) \in Nat \ {0} /\ Len(stack) \in 1 .. Len(stack) /\ Top = stack[Len(stack)]
         /\ \A x \in Module : ToSet(dependencies[x]) \subseteq Module
  <1>1. /\ Len(stack) \in Nat \ {0} /\ Len(stack) \in 1 .. Len(stack) /\ Top = stack[Len(stack)]
        /\ Top.module \in Module /\ Top.next \in Nat \ {0}
    BY TopFacts DEF BuildInv
  <1>2. main # "declare"
    BY <1>1 DEF BuildInv, CallsNest
  <1>3. main = "wait"
    BY <1>2 DEF BuildInv, CallsNest, EveryFileIsAwaitedOnce, TypeOK
  <1>4. ASSUME NEW i \in 1 .. Len(stack)
        PROVE  /\ stack[i].proc \in {"wait", "collect"}
               /\ i < Len(stack) => stack[i].proc = "wait"
               /\ stack[i].proc # "init"
               /\ stack[i].module \in Module /\ is_compiled[stack[i].module] # 0
    <2>1. stack[i].proc \in {"wait", "collect"} /\ (i < Len(stack) => stack[i].proc \in {"init", "wait"})
      BY <1>2 DEF BuildInv, CallsNest
    <2>2. DeclaredCall(i)
      BY DEF BuildInv, DeclaredFirst
    <2>3. stack[i].module \in Module
      BY FrameFacts DEF BuildInv
    <2>. QED BY <2>1, <2>2, <2>3 DEF DeclaredCall
  <1>5. is_compiled[Top.module] \in {-1, 1}
    BY <1>1, <1>4 DEF BuildInv, TypeOK
  <1>6. \A x \in Module : ToSet(dependencies[x]) \subseteq Module
    BY Elements DEF BuildInv, TypeOK
  <1>. QED BY <1>1, <1>3, <1>4, <1>5, <1>6

\* Then nothing more is declared, and calls come and go for compiled modules only.
LEMMA WaitingDeclared ==
  ASSUME BuildInv, main # "declare" \/ stack = <<>>, main' # "declare", UNCHANGED dependencies,
         \A x \in Module : is_compiled'[x] = 0 <=> is_compiled[x] = 0,
         \A i \in 1 .. Len(stack') :
           /\ stack'[i].proc \in {"wait", "collect"}
           /\ stack'[i].module \in Module /\ is_compiled[stack'[i].module] # 0
  PROVE  DeclaredFirst'
  <1>1. ASSUME NEW x \in Module, is_compiled[x] = 0 PROVE ~Called(x)
    <2>1. CASE stack = <<>>
      BY <2>1 DEF Called
    <2>2. CASE main # "declare"
      <3>1. ASSUME NEW i \in 1 .. Len(stack) PROVE stack[i].module # x
        <4>1. stack[i].proc # "init"
          BY <2>2 DEF BuildInv, CallsNest
        <4>2. is_compiled[stack[i].module] # 0
          BY <4>1 DEF BuildInv, DeclaredFirst, DeclaredCall
        <4>. QED BY <1>1, <4>2
      <3>. QED BY <3>1 DEF Called
    <2>. QED BY <2>1, <2>2
  <1>2. \A x \in Module : ToSet(Dependencies[x]) \subseteq Module
    BY AskedType
  <1>3. ASSUME NEW x \in Module PROVE DeclaredModule(x)'
    BY <1>1, <1>2 DEF BuildInv, DeclaredFirst, DeclaredModule
  <1>4. is_compiled[Root] # 0
    <2>1. Root \in Module
      BY BuildAssumption
    <2>2. is_compiled[Root] = 0 => ~Called(Root)
      BY <1>1, <2>1
    <2>. QED BY <2>2 DEF BuildInv, DeclaredFirst
  <1>5. is_compiled'[Root] # 0
    BY <1>4, BuildAssumption
  <1>6. \A i \in 1 .. Len(stack') : DeclaredCall(i)'
    BY DEF DeclaredCall
  <1>. QED BY <1>3, <1>5, <1>6 DEF DeclaredFirst

\* A call that is not the innermost one stays as far in its waiting as it was.
LEMMA WaitedCallStays ==
  ASSUME BuildInv, NEW i \in 1 .. Len(stack), stack'[i] = stack[i], UNCHANGED dependencies,
         stack[i].proc = "wait",
         is_compiled'[stack[i].module] = is_compiled[stack[i].module],
         \A x \in Module : is_compiled[x] = 1 => is_compiled'[x] = 1,
         \A x \in Module : Calls(i, x) => Calls(i, x)' \/ is_compiled'[x] = 1
  PROVE  WaitedCall(i)'
  <1>1. WaitedCall(i)
    BY DEF BuildInv, WaitedFor
  <1>2. stack[i].module \in Module
    BY FrameFacts DEF BuildInv
  <1>3. dependencies[stack[i].module] \in Seq(Module)
    BY <1>2 DEF BuildInv, TypeOK
  <1>4. \A j \in 1 .. Len(dependencies[stack[i].module]) : dependencies[stack[i].module][j] \in Module
    BY <1>3
  <1>. QED BY <1>1, <1>4 DEF WaitedCall

\* A wait for a module that was collected before returns at once.
LEMMA WaitReturns ==
  ASSUME BuildInv, Wait, Top.next = 1, is_compiled[Top.module] > 0 PROVE BuildInv'
  <1> DEFINE m == Top.module
             n == Len(stack)
  <1>1. stack # <<>> /\ Top.proc = "wait"
    BY DEF Wait, In
  <1>2. /\ main = "wait"
        /\ \A i \in 1 .. n :
             /\ stack[i].proc \in {"wait", "collect"}
             /\ i < n => stack[i].proc = "wait"
             /\ stack[i].module \in Module /\ is_compiled[stack[i].module] # 0
        /\ m \in Module /\ is_compiled[m] \in {-1, 1}
    BY <1>1, WaitingGoesOn
  <1>3. /\ UNCHANGED <<main, is_link_option, dependencies, is_compiled, compiling_pid, includes, process, command>>
        /\ Return
    BY DEF Wait
  <1>4. /\ stack' \in Seq(Frame)
        /\ \A i \in 1 .. Len(stack') : i \in 1 .. n /\ i < n /\ stack'[i] = stack[i]
        /\ CallsNest'
        /\ \A x : Called(x) => Called(x)' \/ x = m
        /\ \A i, x : i \in 1 .. Len(stack') /\ Calls(i, x) => Calls(i, x)' \/ x = m
        /\ stack' # <<>> => Top'.proc \in {"init", "wait"}
    BY <1>1, <1>3, ReturningNests
  <1>5. is_compiled[m] = 1
    BY <1>2
  <1>. HIDE DEF m, n
  <1>6. TypeOK'
    BY <1>3, <1>4 DEF BuildInv, TypeOK
  <1>7. DeclaredFirst'
    <2>1. \A i \in 1 .. Len(stack') :
            /\ stack'[i].proc \in {"wait", "collect"}
            /\ stack'[i].module \in Module /\ is_compiled[stack'[i].module] # 0
      BY <1>2, <1>4
    <2>. QED BY <1>2, <1>3, <2>1, WaitingDeclared
  <1>8. ProcessesKnown'
    <2>1. ASSUME NEW x \in Module, NEW i \in DOMAIN FilesOf(x) PROVE Pid(x, i)' = Pid(x, i)
      <3>1. Pid(x, i)' = 0 - is_compiled'[x]
        BY <1>4 DEF Pid
      <3>2. Pid(x, i) = 0 - is_compiled[x]
        BY <1>1, PidAtRest
      <3>. QED BY <1>3, <3>1, <3>2
    <2>. QED BY <1>3, <2>1, PidsStay
  <1>9. WaitedFor'
    <2>1. ASSUME NEW i \in 1 .. Len(stack') PROVE WaitedCall(i)'
      <3>1. i \in 1 .. Len(stack) /\ stack'[i] = stack[i] /\ stack[i].proc = "wait"
        BY <1>2, <1>4 DEF n
      <3>2. \A x : Calls(i, x) => Calls(i, x)' \/ is_compiled'[x] = 1
        BY <1>3, <1>4, <1>5
      <3>. QED BY <1>3, <3>1, <3>2, WaitedCallStays
    <2>2. is_compiled'[Root] = 1 \/ Called(Root)'
      BY <1>2, <1>3, <1>4, <1>5 DEF BuildInv, WaitedFor
    <2>. QED BY <1>2, <1>3, <2>1, <2>2 DEF BuildInv, WaitedFor
  <1>10. IncludesAreTransitive'
    BY <1>3, RestStays
  <1>. QED BY <1>2, <1>3, <1>4, <1>6, <1>7, <1>8, <1>9, <1>10
       DEF BuildInv, EveryFileIsAwaitedOnce, LinkIsComplete

\* A wait goes on only for a module that is not collected.
LEMMA WaitIsForUncollected ==
  ASSUME BuildInv, Wait, ~(Top.next = 1 /\ is_compiled[Top.module] > 0)
  PROVE  is_compiled[Top.module] = -1
  <1>1. stack # <<>> /\ Top.proc = "wait"
    BY DEF Wait, In
  <1>2. /\ Top.next \in Nat \ {0} /\ is_compiled[Top.module] \in {-1, 1}
        /\ Len(stack) \in 1 .. Len(stack) /\ Top = stack[Len(stack)]
    BY <1>1, WaitingGoesOn
  <1>3. Top.next > 1 => is_compiled[Top.module] = -1
    BY <1>1, <1>2 DEF BuildInv, WaitedFor, WaitedCall
  <1>. QED BY <1>2, <1>3

\* A wait for the next module that was declared.
LEMMA WaitCalls ==
  ASSUME BuildInv, Wait, ~(Top.next = 1 /\ is_compiled[Top.module] > 0),
         Top.next <= Len(dependencies[Top.module])
  PROVE  BuildInv'
  <1> DEFINE m == Top.module
             n == Len(stack)
             d == dependencies[m][Top.next]
  <1>1. stack # <<>> /\ Top.proc = "wait"
    BY DEF Wait, In
  <1>2. /\ main = "wait"
        /\ \A i \in 1 .. n :
             /\ stack[i].proc \in {"wait", "collect"}
             /\ i < n => stack[i].proc = "wait"
             /\ stack[i].module \in Module /\ is_compiled[stack[i].module] # 0
        /\ m \in Module /\ Top.next \in Nat \ {0}
        /\ n \in Nat \ {0} /\ n \in 1 .. n /\ Top = stack[n]
    BY <1>1, WaitingGoesOn
  <1>3. /\ UNCHANGED <<main, is_link_option, dependencies, is_compiled, compiling_pid, includes, process, command>>
        /\ ContinueAfter("wait", d)
    BY DEF Wait
  <1>4. is_compiled[m] = -1
    BY WaitIsForUncollected
  <1>5. dependencies[m] \in Seq(Module) /\ stack \in Seq(Frame)
    BY <1>2 DEF BuildInv, TypeOK
  <1>6. Top.next \in 1 .. Len(dependencies[m]) /\ d \in Module /\ d \in ToSet(dependencies[m])
    <2>1. Top.next \in 1 .. Len(dependencies[m])
      BY <1>2, <1>5
    <2>. QED BY <1>5, <2>1, Elements
  <1>7. Rank[d] < Rank[m] /\ is_compiled[d] # 0
    <2>1. d \in ToSet(Dependencies[m]) /\ is_compiled[d] # 0
      BY <1>2, <1>4, <1>6 DEF BuildInv, DeclaredFirst, DeclaredModule
    <2>. QED BY <1>2, <2>1, RankFalls DEF Falls
  <1>8. /\ stack' \in Seq(Frame) /\ Len(stack') = n + 1
        /\ \A i \in 1 .. n : i < n => stack'[i] = stack[i]
        /\ stack'[n] = [proc |-> "wait", module |-> m, next |-> Top.next + 1]
        /\ stack'[n + 1] = [proc |-> "wait", module |-> d, next |-> 1]
    BY <1>1, <1>3, <1>5, <1>6, ContinueAfterStack
  <1>9. \A i \in 1 .. n : i < n => Rank[m] < Rank[stack[i].module]
    BY <1>1, TopIsLeast DEF BuildInv
  <1>. HIDE DEF m, n, d
  <1>10. /\ stack'[n].proc = "wait" /\ stack'[n].module = m /\ stack'[n].next = Top.next + 1
         /\ stack'[n + 1].proc = "wait" /\ stack'[n + 1].module = d /\ stack'[n + 1].next = 1
    BY <1>8
  <1>11. \A i \in 1 .. n + 1 : i = n + 1 \/ (i \in 1 .. n /\ (i = n \/ i < n))
    BY <1>2
  <1>12. \A i \in 1 .. n : stack'[i].proc = "wait" /\ stack'[i].module = stack[i].module
    BY <1>2, <1>8, <1>10, <1>11 DEF m
  <1>13. TypeOK'
    BY <1>3, <1>8 DEF BuildInv, TypeOK
  <1>14. CallsNest'
    <2>1. ASSUME NEW i \in 1 .. n + 1, NEW j \in 1 .. n + 1, i < j
          PROVE  Rank[stack'[j].module] < Rank[stack'[i].module]
      <3>1. i \in 1 .. n
        BY <1>2, <2>1
      <3>2. CASE j \in 1 .. n
        BY <1>12, <2>1, <3>1, <3>2 DEF BuildInv, CallsNest, n
      <3>3. CASE j = n + 1
        <4>1. Rank[d] \in Nat /\ Rank[m] \in Nat /\ Rank[stack[i].module] \in Nat
          BY <1>2, <1>6, <3>1, RankFalls
        <4>2. Rank[m] <= Rank[stack[i].module]
          BY <1>2, <1>9, <1>11, <2>1, <3>1, <4>1 DEF m
        <4>. QED BY <1>7, <1>10, <1>12, <3>1, <3>3, <4>1, <4>2
      <3>. QED BY <1>11, <3>2, <3>3
    <2>2. \A i \in 1 .. n + 1 : stack'[i].proc = "wait"
      BY <1>10, <1>11, <1>12
    <2>. QED BY <1>2, <1>3, <1>8, <2>1, <2>2 DEF CallsNest
  <1>15. DeclaredFirst'
    <2>1. \A i \in 1 .. Len(stack') :
            /\ stack'[i].proc \in {"wait", "collect"}
            /\ stack'[i].module \in Module /\ is_compiled[stack'[i].module] # 0
      BY <1>2, <1>6, <1>7, <1>8, <1>10, <1>11, <1>12
    <2>. QED BY <1>2, <1>3, <2>1, WaitingDeclared
  <1>16. ProcessesKnown'
    <2>1. ASSUME NEW x \in Module, NEW i \in DOMAIN FilesOf(x) PROVE Pid(x, i)' = Pid(x, i)
      <3>1. Top'.proc = "wait"
        BY <1>8, <1>10 DEF Top, Last
      <3>2. Pid(x, i)' = 0 - is_compiled'[x]
        BY <3>1 DEF Pid
      <3>3. Pid(x, i) = 0 - is_compiled[x]
        BY <1>1, PidAtRest
      <3>. QED BY <1>3, <3>2, <3>3
    <2>. QED BY <1>3, <2>1, PidsStay
  <1>17. WaitedFor'
    <2>1. ASSUME NEW i \in 1 .. n + 1 PROVE WaitedCall(i)'
      <3>1. CASE i = n + 1
        <4>1. \A j \in 1 .. Len(dependencies'[d]) : ~(j < 1)
          OBVIOUS
        <4>. QED BY <1>10, <3>1, <4>1 DEF WaitedCall
      <3>2. CASE i \in 1 .. n /\ i < n
        <4>1. \A x : Calls(i, x) => Calls(i, x)'
          <5>1. i + 1 \in 1 .. n /\ i < n + 1
            BY <1>2, <3>2
          <5>. QED BY <1>8, <1>12, <5>1 DEF Calls
        <4>. QED BY <1>2, <1>3, <1>8, <3>2, <4>1, WaitedCallStays DEF n
      <3>3. CASE i = n
        <4>1. WaitedCall(n)
          BY <1>2 DEF BuildInv, WaitedFor, n
        <4>2. \A x : ~Calls(n, x)
          BY <1>2 DEF Calls, n
        <4>3. ASSUME NEW j \in 1 .. Len(dependencies[m]), j < Top.next + 1
              PROVE  is_compiled[dependencies[m][j]] = 1 \/ dependencies[m][j] = d
          <5>1. j < Top.next \/ j = Top.next
            BY <1>2, <4>3
          <5>. QED BY <1>1, <1>2, <4>1, <4>2, <5>1 DEF WaitedCall, d, m
        <4>4. i < Len(stack') /\ stack'[i + 1].module = d
          BY <1>2, <1>8, <1>10, <3>3
        <4>. QED BY <1>3, <1>4, <1>10, <3>3, <4>3, <4>4 DEF WaitedCall, Calls
      <3>. QED BY <1>11, <3>1, <3>2, <3>3
    <2>2. \A x : Called(x) => Called(x)'
      <3>1. \A i \in 1 .. n : i \in 1 .. n + 1
        BY <1>2
      <3>. QED BY <1>8, <1>12, <3>1 DEF Called, n
    <2>. QED BY <1>2, <1>3, <1>8, <2>1, <2>2 DEF BuildInv, WaitedFor
  <1>18. IncludesAreTransitive'
    BY <1>3, RestStays
  <1>. QED BY <1>2, <1>3, <1>13, <1>14, <1>15, <1>16, <1>17, <1>18
       DEF BuildInv, EveryFileIsAwaitedOnce, LinkIsComplete

\* A module all of whose declared ones are collected has its own files collected.
LEMMA WaitCollects ==
  ASSUME BuildInv, Wait, ~(Top.next = 1 /\ is_compiled[Top.module] > 0),
         ~(Top.next <= Len(dependencies[Top.module]))
  PROVE  BuildInv'
  <1> DEFINE m == Top.module
             n == Len(stack)
  <1>1. stack # <<>> /\ Top.proc = "wait"
    BY DEF Wait, In
  <1>2. /\ main = "wait"
        /\ \A i \in 1 .. n :
             /\ stack[i].proc \in {"wait", "collect"}
             /\ i < n => stack[i].proc = "wait"
             /\ stack[i].module \in Module /\ is_compiled[stack[i].module] # 0
        /\ m \in Module /\ Top.next \in Nat \ {0}
        /\ n \in Nat \ {0} /\ n \in 1 .. n /\ Top = stack[n]
    BY <1>1, WaitingGoesOn
  <1>3. /\ UNCHANGED <<main, is_link_option, dependencies, is_compiled, compiling_pid, includes, process, command>>
        /\ Become("collect")
    BY DEF Wait
  <1>4. is_compiled[m] = -1
    BY WaitIsForUncollected
  <1>5. dependencies[m] \in Seq(Module) /\ stack \in Seq(Frame)
    BY <1>2 DEF BuildInv, TypeOK
  <1>6. \A e \in ToSet(dependencies[m]) : is_compiled[e] = 1
    <2>1. WaitedCall(n)
      BY <1>2 DEF BuildInv, WaitedFor
    <2>2. \A x : ~Calls(n, x)
      BY <1>2 DEF Calls
    <2>3. \A j \in 1 .. Len(dependencies[m]) : j < Top.next
      BY <1>2, <1>5
    <2>4. \A j \in 1 .. Len(dependencies[m]) : is_compiled[dependencies[m][j]] = 1
      BY <1>1, <1>2, <2>1, <2>2, <2>3 DEF WaitedCall
    <2>. QED BY <1>5, <2>4, Elements
  <1>7. /\ stack' \in Seq(Frame) /\ Len(stack') = n
        /\ \A i \in 1 .. n : i < n => stack'[i] = stack[i]
        /\ stack'[n] = [proc |-> "collect", module |-> m, next |-> 1]
    BY <1>1, <1>3, <1>5, BecomeStack
  <1>. HIDE DEF m, n
  <1>8. stack'[n].proc = "collect" /\ stack'[n].module = m /\ stack'[n].next = 1
    BY <1>7
  <1>9. /\ CallsNest'
        /\ \A x : Called(x)' <=> Called(x)
        /\ \A i, x : Calls(i, x) /\ i \in 1 .. n => Calls(i, x)'
        /\ Top' = stack'[n]
    BY <1>1, <1>2, <1>3, <1>7, <1>8, ReplacingNests DEF n, m
  <1>10. \A i \in 1 .. n : i = n \/ i < n
    BY <1>2
  <1>11. TypeOK'
    BY <1>3, <1>7 DEF BuildInv, TypeOK
  <1>12. DeclaredFirst'
    <2>1. \A i \in 1 .. Len(stack') :
            /\ stack'[i].proc \in {"wait", "collect"}
            /\ stack'[i].module \in Module /\ is_compiled[stack'[i].module] # 0
      BY <1>2, <1>7, <1>8, <1>10 DEF m
    <2>. QED BY <1>2, <1>3, <2>1, WaitingDeclared
  <1>13. ProcessesKnown'
    <2>1. ASSUME NEW x \in Module, NEW i \in DOMAIN FilesOf(x) PROVE Pid(x, i)' = Pid(x, i)
      <3>1. Pid(x, i) = 0 - is_compiled[x]
        BY <1>1, PidAtRest
      <3>2. CASE x # m
        <4>1. Pid(x, i)' = 0 - is_compiled'[x]
          BY <1>8, <1>9, <3>2 DEF Pid
        <4>. QED BY <1>3, <3>1, <4>1
      <3>3. CASE x = m
        <4>1. i \in Nat \ {0}
          BY FilesType, Elements DEF BuildInv, TypeOK
        <4>2. Len(stack') # 0
          BY <1>2, <1>7
        <4>3. stack' # <<>> /\ ~(i < 1)
          BY <4>1, <4>2
        <4>4. Pid(x, i)' = 1
          BY <1>8, <1>9, <3>3, <4>3 DEF Pid
        <4>. QED BY <1>4, <3>1, <3>3, <4>4
      <3>. QED BY <3>2, <3>3
    <2>. QED BY <1>3, <2>1, PidsStay
  <1>14. WaitedFor'
    <2>1. ASSUME NEW i \in 1 .. n PROVE WaitedCall(i)'
      <3>1. CASE i = n
        BY <1>3, <1>4, <1>6, <1>8, <3>1 DEF WaitedCall
      <3>2. CASE i < n
        BY <1>2, <1>3, <1>7, <1>9, <3>2, WaitedCallStays DEF n
      <3>. QED BY <1>10, <3>1, <3>2
    <2>. QED BY <1>2, <1>3, <1>7, <1>9, <2>1 DEF BuildInv, WaitedFor
  <1>15. IncludesAreTransitive'
    BY <1>3, RestStays
  <1>. QED BY <1>2, <1>3, <1>9, <1>11, <1>12, <1>13, <1>14, <1>15
       DEF BuildInv, EveryFileIsAwaitedOnce, LinkIsComplete

\* In each of the three ways a wait goes on.
LEMMA WaitHolds == ASSUME BuildInv, Wait PROVE BuildInv'
  BY WaitReturns, WaitCalls, WaitCollects

\* A module's next compiler process is waited for once, and it ended by then.
LEMMA CollectHolds == ASSUME BuildInv, Collect PROVE BuildInv'
  <1> DEFINE m == Top.module
             n == Len(stack)
             f == FilesOf(m)[Top.next]
  <1>1. stack # <<>> /\ Top.proc = "collect"
    BY DEF Collect, In
  <1>2. /\ main = "wait"
        /\ \A i \in 1 .. n :
             /\ stack[i].proc \in {"wait", "collect"}
             /\ i < n => stack[i].proc = "wait"
             /\ stack[i].module \in Module /\ is_compiled[stack[i].module] # 0
        /\ m \in Module /\ Top.next \in Nat \ {0}
        /\ n \in Nat \ {0} /\ n \in 1 .. n /\ Top = stack[n]
    BY <1>1, WaitingGoesOn
  <1>3. WaitedCall(n)
    BY <1>2 DEF BuildInv, WaitedFor
  <1>4. is_compiled[m] = -1 /\ \A e \in ToSet(dependencies[m]) : is_compiled[e] = 1
    BY <1>1, <1>2, <1>3 DEF WaitedCall
  <1>5. stack \in Seq(Frame) /\ is_link_option \in BOOLEAN
    BY DEF BuildInv, TypeOK
  <1>6. FilesOf(m) \in Seq(SourceFile)
    BY <1>2, <1>5, FilesType
  <1>7. Top.next \in DOMAIN FilesOf(m) /\ f \in SourceFile
    <2>1. Top.next <= Len(FilesOf(m))
      BY DEF Collect
    <2>. QED BY <1>2, <1>6, <2>1
  <1>8. compiling_pid[f] = 1
    <2>1. Pid(m, Top.next) = 1
      BY <1>1, <1>2 DEF Pid
    <2>. QED BY <1>2, <1>7, <2>1 DEF BuildInv, ProcessesKnown
  <1>9. /\ UNCHANGED <<is_link_option, dependencies, is_compiled, includes, process, command>>
        /\ process[f] # "running" /\ Continue /\ UNCHANGED main
        /\ compiling_pid' = [compiling_pid EXCEPT ![f] = -1]
    <2>1. compiling_pid[f] > 0
      BY <1>8
    <2>. QED BY <2>1 DEF Collect
  <1>10. process[f] \in {"succeeded", "failed"}
    BY <1>7, <1>8, <1>9 DEF BuildInv, TypeOK, ProcessesKnown
  <1>11. /\ stack' \in Seq(Frame) /\ Len(stack') = n
         /\ \A i \in 1 .. n : i < n => stack'[i] = stack[i]
         /\ stack'[n] = [proc |-> "collect", module |-> m, next |-> Top.next + 1]
    BY <1>1, <1>5, <1>9, ContinueStack
  <1>12. ASSUME NEW x \in Module, NEW i \in DOMAIN FilesOf(x), FilesOf(x)[i] = f
         PROVE  x = m /\ i = Top.next
    BY <1>2, <1>5, <1>7, <1>12, FilesApart
  <1>. HIDE DEF m, n, f
  <1>13. stack'[n].proc = "collect" /\ stack'[n].module = m /\ stack'[n].next = Top.next + 1
    BY <1>11
  <1>14. /\ CallsNest'
         /\ \A x : Called(x)' <=> Called(x)
         /\ \A i, x : Calls(i, x) /\ i \in 1 .. n => Calls(i, x)'
         /\ Top' = stack'[n]
    BY <1>1, <1>2, <1>9, <1>11, <1>13, ReplacingNests DEF n, m
  <1>15. \A i \in 1 .. n : i = n \/ i < n
    BY <1>2
  <1>16. TypeOK'
    BY <1>7, <1>9, <1>11 DEF BuildInv, TypeOK
  <1>17. DeclaredFirst'
    <2>1. \A i \in 1 .. Len(stack') :
            /\ stack'[i].proc \in {"wait", "collect"}
            /\ stack'[i].module \in Module /\ is_compiled[stack'[i].module] # 0
      BY <1>2, <1>11, <1>13, <1>15 DEF m
    <2>. QED BY <1>2, <1>9, <2>1, WaitingDeclared
  <1>18. \A x : FilesOf(x)' = FilesOf(x)
    BY <1>9, FilesStay
  <1>19. ProcessesKnown'
    <2>1. ASSUME NEW x \in Module, NEW i \in DOMAIN FilesOf(x)
          PROVE  compiling_pid'[FilesOf(x)[i]] = Pid(x, i)'
      <3>1. FilesOf(x) \in Seq(SourceFile)
        BY <1>5, FilesType
      <3>2. FilesOf(x)[i] \in SourceFile /\ i \in Nat
        BY <3>1
      <3>3. stack' # <<>>
        <4>1. Len(stack') # 0
          BY <1>2, <1>11
        <4>. QED BY <4>1
      <3>4. compiling_pid[FilesOf(x)[i]] = Pid(x, i)
        BY DEF BuildInv, ProcessesKnown
      <3>5. CASE x # m
        <4>1. compiling_pid'[FilesOf(x)[i]] = compiling_pid[FilesOf(x)[i]]
          BY <1>9, <1>12, <3>2, <3>5 DEF BuildInv, TypeOK
        <4>2. Pid(x, i) = 0 - is_compiled[x]
          BY <3>5, PidAtRest DEF m
        <4>3. Pid(x, i)' = 0 - is_compiled'[x]
          BY <1>13, <1>14, <3>5 DEF Pid
        <4>. QED BY <1>9, <3>4, <4>1, <4>2, <4>3
      <3>6. CASE x = m
        <4>1. Pid(x, i) = IF i < Top.next THEN -1 ELSE 1
          BY <1>1, <3>6 DEF Pid, m
        <4>2. Pid(x, i)' = IF i < Top.next + 1 THEN -1 ELSE 1
          BY <1>13, <1>14, <3>3, <3>6 DEF Pid
        <4>3. CASE i = Top.next
          <5>1. FilesOf(x)[i] = f
            BY <3>6, <4>3 DEF f
          <5>2. compiling_pid'[f] = -1
            BY <1>7, <1>9 DEF BuildInv, TypeOK
          <5>. QED BY <3>2, <4>2, <4>3, <5>1, <5>2
        <4>4. CASE i # Top.next
          <5>1. compiling_pid'[FilesOf(x)[i]] = compiling_pid[FilesOf(x)[i]]
            BY <1>9, <1>12, <3>2, <4>4 DEF BuildInv, TypeOK
          <5>2. i < Top.next + 1 <=> i < Top.next
            BY <1>2, <3>2, <4>4
          <5>. QED BY <3>4, <4>1, <4>2, <5>1, <5>2
        <4>. QED BY <4>3, <4>4
      <3>. QED BY <3>5, <3>6
    <2>2. ASSUME NEW g \in SourceFile
          PROVE  /\ process'[g] = "none" <=> compiling_pid'[g] = 0
                 /\ compiling_pid'[g] = -1 => process'[g] \in {"succeeded", "failed"}
      <3>1. CASE g = f
        <4>1. compiling_pid'[f] = -1 /\ process'[f] = process[f]
          BY <1>7, <1>9 DEF BuildInv, TypeOK
        <4>. QED BY <1>10, <3>1, <4>1
      <3>2. CASE g # f
        BY <1>9, <3>2 DEF BuildInv, TypeOK, ProcessesKnown
      <3>. QED BY <3>1, <3>2
    <2>. QED BY <1>18, <2>1, <2>2 DEF ProcessesKnown
  <1>20. WaitedFor'
    <2>1. ASSUME NEW i \in 1 .. n PROVE WaitedCall(i)'
      <3>1. CASE i = n
        BY <1>4, <1>9, <1>13, <3>1 DEF WaitedCall
      <3>2. CASE i < n
        BY <1>2, <1>9, <1>11, <1>14, <3>2, WaitedCallStays DEF n
      <3>. QED BY <1>15, <3>1, <3>2
    <2>. QED BY <1>2, <1>9, <1>11, <1>14, <2>1 DEF BuildInv, WaitedFor
  <1>21. IncludesAreTransitive'
    BY <1>9, RestStays
  <1>. QED BY <1>2, <1>9, <1>14, <1>16, <1>17, <1>19, <1>20, <1>21
       DEF BuildInv, EveryFileIsAwaitedOnce, LinkIsComplete

\* A module whose compiler processes have all ended is compiled.
LEMMA EndWaitHolds == ASSUME BuildInv, EndWait PROVE BuildInv'
  <1> DEFINE m == Top.module
             n == Len(stack)
  <1>1. stack # <<>> /\ Top.proc = "collect"
    BY DEF EndWait, In
  <1>2. /\ main = "wait"
        /\ \A i \in 1 .. n :
             /\ stack[i].proc \in {"wait", "collect"}
             /\ i < n => stack[i].proc = "wait"
             /\ stack[i].module \in Module /\ is_compiled[stack[i].module] # 0
        /\ m \in Module /\ Top.next \in Nat \ {0}
        /\ n \in Nat \ {0} /\ n \in 1 .. n /\ Top = stack[n]
    BY <1>1, WaitingGoesOn
  <1>3. /\ UNCHANGED <<main, is_link_option, dependencies, compiling_pid, includes, process, command>>
        /\ Return /\ is_compiled' = [is_compiled EXCEPT ![m] = 1] /\ Top.next > Len(FilesOf(m))
    BY DEF EndWait
  <1>4. WaitedCall(n)
    BY <1>2 DEF BuildInv, WaitedFor
  <1>5. is_compiled[m] = -1 /\ \A e \in ToSet(dependencies[m]) : is_compiled[e] = 1
    BY <1>1, <1>2, <1>4 DEF WaitedCall
  <1>6. /\ stack' \in Seq(Frame)
        /\ \A i \in 1 .. Len(stack') : i \in 1 .. n /\ i < n /\ stack'[i] = stack[i]
        /\ CallsNest'
        /\ \A x : Called(x) => Called(x)' \/ x = m
        /\ \A i, x : i \in 1 .. Len(stack') /\ Calls(i, x) => Calls(i, x)' \/ x = m
        /\ stack' # <<>> => Top'.proc \in {"init", "wait"}
    BY <1>1, <1>3, ReturningNests
  <1>7. \A i \in 1 .. n : i < n => stack[i].module # m
    BY <1>1, TopIsLeast DEF BuildInv
  <1>8. is_compiled \in [Module -> {-1, 0, 1}] /\ is_link_option \in BOOLEAN
    BY DEF BuildInv, TypeOK
  <1>. HIDE DEF m, n
  <1>9. is_compiled'[m] = 1 /\ \A x \in Module : x # m => is_compiled'[x] = is_compiled[x]
    BY <1>2, <1>3, <1>8
  <1>10. TypeOK'
    BY <1>3, <1>6, <1>8 DEF BuildInv, TypeOK
  <1>11. DeclaredFirst'
    <2>1. \A i \in 1 .. Len(stack') :
            /\ stack'[i].proc \in {"wait", "collect"}
            /\ stack'[i].module \in Module /\ is_compiled[stack'[i].module] # 0
      BY <1>2, <1>6
    <2>2. \A x \in Module : is_compiled'[x] = 0 <=> is_compiled[x] = 0
      BY <1>5, <1>9
    <2>. QED BY <1>2, <1>3, <2>1, <2>2, WaitingDeclared
  <1>12. ProcessesKnown'
    <2>1. ASSUME NEW x \in Module, NEW i \in DOMAIN FilesOf(x) PROVE Pid(x, i)' = Pid(x, i)
      <3>1. Pid(x, i)' = 0 - is_compiled'[x]
        BY <1>6 DEF Pid
      <3>2. CASE x # m
        <4>1. Pid(x, i) = 0 - is_compiled[x]
          BY <3>2, PidAtRest DEF m
        <4>. QED BY <1>9, <3>1, <3>2, <4>1
      <3>3. CASE x = m
        <4>1. FilesOf(m) \in Seq(SourceFile)
          BY <1>2, <1>8, FilesType
        <4>2. i < Top.next
          BY <1>2, <1>3, <3>3, <4>1
        <4>3. Pid(x, i) = -1
          BY <1>1, <3>3, <4>2 DEF Pid, m
        <4>. QED BY <1>9, <3>1, <3>3, <4>3
      <3>. QED BY <3>2, <3>3
    <2>. QED BY <1>3, <2>1, PidsStay
  <1>13. \A x \in Module : is_compiled[x] = 1 => is_compiled'[x] = 1
    BY <1>9
  <1>14. WaitedFor'
    <2>1. ASSUME NEW i \in 1 .. Len(stack') PROVE WaitedCall(i)'
      <3>1. /\ i \in 1 .. Len(stack) /\ stack'[i] = stack[i] /\ stack[i].proc = "wait"
            /\ stack[i].module # m /\ stack[i].module \in Module
        BY <1>2, <1>6, <1>7 DEF n
      <3>2. is_compiled'[stack[i].module] = is_compiled[stack[i].module]
        BY <1>9, <3>1
      <3>3. \A x \in Module : Calls(i, x) => Calls(i, x)' \/ is_compiled'[x] = 1
        BY <1>6, <1>9
      <3>. QED BY <1>3, <1>13, <3>1, <3>2, <3>3, WaitedCallStays
    <2>2. is_compiled'[Root] = 1 \/ Called(Root)'
      BY <1>2, <1>6, <1>9, <1>13, BuildAssumption DEF BuildInv, WaitedFor
    <2>3. ASSUME NEW x \in Module, is_compiled'[x] = 1
          PROVE  \A e \in ToSet(dependencies'[x]) : is_compiled'[e] = 1
      <3>1. \A e \in ToSet(dependencies[x]) : e \in Module /\ is_compiled[e] = 1
        <4>1. ToSet(dependencies[x]) \subseteq Module
          BY Elements DEF BuildInv, TypeOK
        <4>2. CASE x = m
          BY <1>5, <4>1, <4>2
        <4>3. CASE x # m
          BY <1>9, <2>3, <4>1, <4>3 DEF BuildInv, WaitedFor
        <4>. QED BY <4>2, <4>3
      <3>. QED BY <1>3, <1>13, <3>1
    <2>. QED BY <1>2, <1>3, <2>1, <2>2, <2>3 DEF WaitedFor
  <1>15. IncludesAreTransitive'
    BY <1>3, RestStays
  <1>. QED BY <1>2, <1>3, <1>6, <1>10, <1>11, <1>12, <1>14, <1>15
       DEF BuildInv, EveryFileIsAwaitedOnce, LinkIsComplete

-----------------------------------------------------------------------------
\* The driver waits for the root once all are declared.
LEMMA MainWaitHolds == ASSUME BuildInv, MainWait PROVE BuildInv'
  <1> DEFINE call == [proc |-> "wait", module |-> Root, next |-> 1]
  <1>0. Root \in Module
    BY BuildAssumption
  <1>1. /\ main = "declare" /\ stack = <<>> /\ main' = "wait" /\ stack' = <<call>>
        /\ UNCHANGED <<is_link_option, dependencies, is_compiled, compiling_pid, includes, process, command>>
    BY DEF MainWait
  <1>2. call \in Frame
    BY <1>0 DEF Frame
  <1>3. call.proc = "wait" /\ call.module = Root /\ call.next = 1
    OBVIOUS
  <1>. HIDE DEF call
  <1>4. stack' \in Seq(Frame) /\ Len(stack') = 1 /\ stack'[1] = call
    BY <1>1, <1>2
  <1>5. \A i \in 1 .. Len(stack') : i = 1 /\ stack'[i] = call
    BY <1>4
  <1>6. is_compiled[Root] # 0
    <2>1. ~Called(Root)
      BY <1>1 DEF Called
    <2>. QED BY <1>1, <2>1 DEF BuildInv, DeclaredFirst
  <1>7. TypeOK'
    BY <1>1, <1>4 DEF BuildInv, TypeOK
  <1>8. CallsNest'
    BY <1>1, <1>3, <1>4, <1>5 DEF CallsNest
  <1>9. DeclaredFirst'
    BY <1>0, <1>1, <1>3, <1>5, <1>6, WaitingDeclared
  <1>10. ProcessesKnown'
    <2>1. ASSUME NEW x \in Module, NEW i \in DOMAIN FilesOf(x) PROVE Pid(x, i)' = Pid(x, i)
      <3>1. Top' = call
        BY <1>4 DEF Top, Last
      <3>2. Pid(x, i)' = 0 - is_compiled'[x]
        BY <1>3, <3>1 DEF Pid
      <3>3. Pid(x, i) = 0 - is_compiled[x]
        BY <1>1, PidAtRest
      <3>. QED BY <1>1, <3>2, <3>3
    <2>. QED BY <1>1, <2>1, PidsStay
  <1>11. WaitedFor'
    <2>1. \A j \in 1 .. Len(dependencies'[Root]) : ~(j < 1)
      OBVIOUS
    <2>2. \A i \in 1 .. Len(stack') : WaitedCall(i)'
      BY <1>3, <1>5, <2>1 DEF WaitedCall
    <2>3. Called(Root)'
      BY <1>3, <1>4 DEF Called
    <2>. QED BY <1>1, <2>2, <2>3 DEF BuildInv, WaitedFor
  <1>12. IncludesAreTransitive'
    BY <1>1, RestStays
  <1>. QED BY <1>1, <1>7, <1>8, <1>9, <1>10, <1>11, <1>12
       DEF BuildInv, EveryFileIsAwaitedOnce, LinkIsComplete

\* Every file below a collected root has been waited for.
LEMMA PartsAreCollected ==
  ASSUME BuildInv, stack = <<>>, is_compiled[Root] = 1
  PROVE  \A f \in Parts : process[f] \in {"succeeded", "failed"}
  <1>1. Root \in Module /\ \A x \in Below(Root) : x \in Module
    BY BuildAssumption DEF Below
  <1>2. \A x \in {Root} \cup Below(Root) : x \in Module /\ is_compiled[x] = 1
    BY <1>1, CollectedBelow DEF BuildInv
  <1>3. ASSUME NEW x \in {Root} \cup Below(Root), NEW f \in ToSet(FilesOf(x))
        PROVE  process[f] \in {"succeeded", "failed"}
    <2>1. FilesOf(x) \in Seq(SourceFile)
      BY <1>2, FilesType DEF BuildInv, TypeOK
    <2>2. PICK i \in DOMAIN FilesOf(x) : f = FilesOf(x)[i]
      BY <2>1, Elements
    <2>3. Pid(x, i) = 0 - is_compiled[x]
      BY PidAtRest
    <2>4. compiling_pid[f] = 0 - 1
      BY <1>2, <2>2, <2>3 DEF BuildInv, ProcessesKnown
    <2>5. compiling_pid[f] = -1 /\ f \in SourceFile
      BY <2>1, <2>2, <2>4
    <2>. QED BY <2>5 DEF BuildInv, ProcessesKnown
  <1>. QED BY <1>3 DEF Parts

\* The driver links a root that was waited for.
LEMMA MainLinkHolds == ASSUME BuildInv, MainLink PROVE BuildInv'
  <1>1. /\ main = "wait" /\ stack = <<>> /\ main' = "ended"
        /\ command' = IF is_link_option THEN collect_file_lflags(Root) ELSE <<>>
        /\ UNCHANGED <<is_link_option, stack, dependencies, is_compiled, compiling_pid, includes, process>>
    BY DEF MainLink
  <1>2. Root \in Module
    BY BuildAssumption
  <1>3. is_compiled[Root] = 1
    <2>1. ~Called(Root)
      BY <1>1 DEF Called
    <2>. QED BY <1>1, <2>1 DEF BuildInv, WaitedFor
  <1>4. \A i : ~(i \in 1 .. Len(stack))
    BY <1>1
  <1>5. TypeOK' /\ CallsNest'
    BY <1>1, <1>4 DEF BuildInv, TypeOK, CallsNest
  <1>6. DeclaredFirst'
    BY <1>1, <1>4, WaitingDeclared
  <1>7. ProcessesKnown'
    <2>1. \A x, i : Pid(x, i)' = Pid(x, i)
      BY <1>1 DEF Pid, Top
    <2>. QED BY <1>1, <2>1, PidsStay
  <1>8. WaitedFor'
    BY <1>1, <1>3, <1>4 DEF BuildInv, WaitedFor
  <1>9. IncludesAreTransitive'
    BY <1>1, RestStays
  <1>10. LinkIsComplete'
    <2>1. SUFFICES ASSUME is_link_option
          PROVE  /\ ToSet(command') = Parts
                 /\ IsInjective(command')
                 /\ \A f \in Parts : process'[f] \in {"succeeded", "failed"}
      <3>1. Parts' = Parts
        BY <1>1, FilesStay DEF Parts
      <3>. QED BY <1>1, <3>1 DEF LinkIsComplete, Parts
    <2>2. command' = collect_file_lflags(Root)
      BY <1>1, <2>1
    <2>3. Declared /\ WhollyDeclared(Root)
      BY <1>2, <1>3, TypeDeclared, CompiledIsDeclared DEF BuildInv
    <2>4. IsInjective(command') /\ ToSet(command') = Parts
      BY <2>2, <2>3, LinkListsParts DEF BuildInv, TypeOK
    <2>. QED BY <1>1, <1>3, <2>4, PartsAreCollected
  <1>. QED BY <1>1, <1>5, <1>6, <1>7, <1>8, <1>9, <1>10 DEF BuildInv, EveryFileIsAwaitedOnce

\* A step of nothing.
LEMMA StutterHolds == ASSUME BuildInv, UNCHANGED vars PROVE BuildInv'
  <1>1. UNCHANGED <<main, is_link_option, stack, dependencies, is_compiled, compiling_pid, includes, process, command>>
    BY DEF vars
  <1>2. \A x : FilesOf(x)' = FilesOf(x)
    BY <1>1, FilesStay
  <1>3. \A x, i : Pid(x, i)' = Pid(x, i)
    BY <1>1 DEF Pid, Top
  <1>4. TypeOK' /\ CallsNest'
    BY <1>1 DEF BuildInv, TypeOK, CallsNest
  <1>5. DeclaredFirst'
    BY <1>1 DEF BuildInv, DeclaredFirst, DeclaredModule, DeclaredCall, Called, Calls
  <1>6. ProcessesKnown'
    BY <1>1, <1>3, PidsStay
  <1>7. WaitedFor'
    BY <1>1 DEF BuildInv, WaitedFor, WaitedCall, Called, Calls
  <1>8. IncludesAreTransitive'
    BY <1>1, RestStays
  <1>9. LinkIsComplete'
    BY <1>1, <1>2 DEF BuildInv, LinkIsComplete
  <1>. QED BY <1>1, <1>4, <1>5, <1>6, <1>7, <1>8, <1>9 DEF BuildInv, EveryFileIsAwaitedOnce

-----------------------------------------------------------------------------
\* The invariant holds in every state of every run, whatever the modules, the graph of
\* their dependencies and their files, and in whatever order the compilers end.
THEOREM BuildIsInvariant == Spec => []BuildInv
  <1>1. Init => BuildInv
    BY InitHolds
  <1>2. BuildInv /\ [Next]_vars => BuildInv'
    BY AddDependencyHolds, StartCompilationHolds, ForkHolds, EndCompileHolds, ProcessEndsHolds,
       WaitHolds, CollectHolds, EndWaitHolds, MainWaitHolds, MainLinkHolds, StutterHolds
       DEF Next, Driver
  <1>. QED BY <1>1, <1>2, PTL DEF Spec

\* In particular every variable keeps its type: the calls are calls of known modules and
\* the marks of modules and files stay within the three the code tests for.
THEOREM BuildTypeCorrect == Spec => []TypeOK
  <1>1. BuildInv => TypeOK
    BY DEF BuildInv
  <1>. QED BY <1>1, BuildIsInvariant, PTL

\* No process is waited for twice or before it was started, so neither assertion of
\* module__wait_for_compilation fails, also for modules that many others declare.
THEOREM EachFileIsAwaitedOnce == Spec => []EveryFileIsAwaitedOnce
  <1>1. BuildInv => EveryFileIsAwaitedOnce
    BY DEF BuildInv
  <1>. QED BY <1>1, BuildIsInvariant, PTL

\* Every compiler process that was started has the directories of all modules below the
\* file's own, and of no other, on its command line.
THEOREM EachFileSeesAllBelow == Spec => []IncludesAreTransitive
  <1>1. BuildInv => IncludesAreTransitive
    BY DEF BuildInv
  <1>. QED BY <1>1, BuildIsInvariant, PTL

\* The linker gets every object of the root and of the modules below it, each once, and
\* by then every process that makes one has ended.
THEOREM LinkerGetsEachPart == Spec => []LinkIsComplete
  <1>1. BuildInv => LinkIsComplete
    BY DEF BuildInv
  <1>. QED BY <1>1, BuildIsInvariant, PTL
=============================================================================
