------------------------------- MODULE Build -------------------------------
(***************************************************************************)
(* The build tool, src/build.  One process declares a module and, first,   *)
(* the modules it depends on, starts a compiler process for every file,    *)
(* waits for all of them and links.  The compiler processes run and end in *)
(* any order.  The recursion of the tool is its stack of calls.            *)
(***************************************************************************)
EXTENDS Integers, FiniteSets, Sequences, SequencesExt

CONSTANTS Module,        \* supported_modules
          Root,          \* the module named on the command line
          Dependencies,  \* what each module's init declares, in order
          Files,         \* what each module's init adds, in order
          DriverFile     \* what the root adds too when it is to be linked

SourceFile == (UNION {ToSet(Files[m]) : m \in Module}) \cup {DriverFile}

\* All modules a module depends on, directly or not: the least set that has them.
Below(m) ==
  {d \in Module : \A M \in SUBSET Module :
     /\ ToSet(Dependencies[m]) \subseteq M
     /\ \A n \in M : ToSet(Dependencies[n]) \subseteq M
     => d \in M}

\* The walks of the tool come back only from a graph without a cycle.  Files are
\* told apart by their directory, and no init adds one twice.
ASSUME BuildAssumption ==
  /\ Root \in Module
  /\ Dependencies \in [Module -> Seq(Module)]
  /\ IsFiniteSet(Module)
  /\ \E rank \in [Module -> 1 .. Cardinality(Module)] :
       \A m \in Module : \A d \in ToSet(Dependencies[m]) : rank[d] < rank[m]
  /\ Files \in [Module -> Seq(SourceFile)]
  /\ \A m \in Module : IsInjective(Files[m]) /\ DriverFile \notin ToSet(Files[m])
  /\ \A m, n \in Module : m # n => ToSet(Files[m]) \cap ToSet(Files[n]) = {}

VARIABLES main,            \* where the driver's main stands
          is_link_option,
          stack,           \* the calls under way, the innermost one last
          dependencies,    \* of each module, as declared so far
          is_compiled,     \* 0 not yet, -1 compiling, 1 compiled
          compiling_pid,   \* of each file: 0 not yet, 1 compiling, -1 compiled
          includes,        \* the modules on each file's command line
          process,         \* the compiler processes
          command          \* the objects on the linker's command line

vars == <<main, is_link_option, stack, dependencies, is_compiled, compiling_pid,
          includes, process, command>>

Top == Last(stack)
Return == stack' = Front(stack)
Continue == stack' = [stack EXCEPT ![Len(stack)].next = @ + 1]
Become(proc) ==
  stack' = [stack EXCEPT ![Len(stack)] = [proc |-> proc, module |-> Top.module, next |-> 1]]
ContinueAfter(proc, m) ==
  stack' = Append([stack EXCEPT ![Len(stack)].next = @ + 1], [proc |-> proc, module |-> m, next |-> 1])
In(proc) == stack # <<>> /\ Top.proc = proc

FilesOf(m) == IF m = Root /\ is_link_option THEN Append(Files[m], DriverFile) ELSE Files[m]

Init ==
  /\ main = "declare"
  /\ is_link_option \in BOOLEAN
  /\ stack = <<[proc |-> "init", module |-> Root, next |-> 1]>>
  /\ dependencies = [m \in Module |-> <<>>]
  /\ is_compiled = [m \in Module |-> 0]
  /\ compiling_pid = [f \in SourceFile |-> 0]
  /\ includes = [f \in SourceFile |-> {}]
  /\ process = [f \in SourceFile |-> "none"]
  /\ command = <<>>

-----------------------------------------------------------------------------
\* What is seen once the loop over a module's dependencies has made its calls.
Through(calls, seen) ==
  LET after[i \in 0 .. Len(calls)] == IF i = 0 THEN seen ELSE calls[i][after[i - 1]]
  IN after[Len(calls)]

\* The depth-first walk over declared dependencies with its visited mark: each
\* module once, after those it depends on.
Visited[m \in Module] ==
  [seen \in Seq(Module) |->
     IF m \in ToSet(seen) THEN seen
     ELSE Append(Through([i \in DOMAIN dependencies[m] |-> Visited[dependencies[m][i]]], seen), m)]

append_dependency_includes(m) ==
  ToSet(Through([i \in DOMAIN dependencies[m] |-> Visited[dependencies[m][i]]], <<>>))

collect_file_lflags(m) == FlattenSeq([i \in DOMAIN Visited[m][<<>>] |-> FilesOf(Visited[m][<<>>][i])])

-----------------------------------------------------------------------------
\* A module's init declares its next dependency, which is initialised and
\* compiled at once unless that was done for another module.
AddDependency ==
  LET m == Top.module
      d == Dependencies[m][Top.next]
  IN /\ In("init") /\ Top.next <= Len(Dependencies[m])
     /\ IF d \in ToSet(dependencies[m])
        THEN Continue /\ UNCHANGED dependencies
        ELSE /\ dependencies' = [dependencies EXCEPT ![m] = Append(@, d)]
             /\ IF is_compiled[d] # 0 THEN Continue ELSE ContinueAfter("init", d)
     /\ UNCHANGED <<main, is_link_option, is_compiled, compiling_pid, includes, process, command>>

\* Forgets to declare dependencies before it compiles.
CompileBeforeDependencies ==
  LET m == Top.module
  IN /\ In("init")
     /\ Become("compile")
     /\ is_compiled' = [is_compiled EXCEPT ![m] = -1]
     /\ UNCHANGED <<main, is_link_option, dependencies, compiling_pid, includes, process, command>>

StartCompilation ==
  LET m == Top.module
  IN /\ In("init") /\ Top.next > Len(Dependencies[m])
     /\ IF is_compiled[m] # 0
        THEN Return /\ UNCHANGED is_compiled
        ELSE Become("compile") /\ is_compiled' = [is_compiled EXCEPT ![m] = -1]
     /\ UNCHANGED <<main, is_link_option, dependencies, compiling_pid, includes, process, command>>

Fork ==
  LET m == Top.module
      f == FilesOf(m)[Top.next]
  IN /\ In("compile") /\ Top.next <= Len(FilesOf(m))
     /\ Continue
     /\ IF compiling_pid[f] # 0
        THEN UNCHANGED <<compiling_pid, includes, process>>
        ELSE /\ includes' = [includes EXCEPT ![f] = append_dependency_includes(m)]
             /\ compiling_pid' = [compiling_pid EXCEPT ![f] = 1]
             /\ process' = [process EXCEPT ![f] = "running"]
     /\ UNCHANGED <<main, is_link_option, dependencies, is_compiled, command>>

EndCompile ==
  /\ In("compile") /\ Top.next > Len(FilesOf(Top.module))
  /\ Return
  /\ UNCHANGED <<main, is_link_option, dependencies, is_compiled, compiling_pid, includes, process, command>>

\* A compiler process ends, with an object file or without.
ProcessEnds(f) ==
  /\ process[f] = "running"
  /\ \E outcome \in {"succeeded", "failed"} : process' = [process EXCEPT ![f] = outcome]
  /\ UNCHANGED <<main, is_link_option, stack, dependencies, is_compiled, compiling_pid, includes, command>>

-----------------------------------------------------------------------------
\* The recursion of module__wait_for_compilation waits again for what it waited for.
WaitAgain ==
  LET m == Top.module
  IN /\ In("wait")
     /\ IF Top.next <= Len(dependencies[m])
        THEN ContinueAfter("wait", dependencies[m][Top.next])
        ELSE Become("collect")
     /\ UNCHANGED <<main, is_link_option, dependencies, is_compiled, compiling_pid, includes, process, command>>

Wait ==
  LET m == Top.module
  IN /\ In("wait")
     /\ IF Top.next = 1 /\ is_compiled[m] > 0 THEN Return
        ELSE IF Top.next <= Len(dependencies[m])
             THEN ContinueAfter("wait", dependencies[m][Top.next])
             ELSE Become("collect")
     /\ UNCHANGED <<main, is_link_option, dependencies, is_compiled, compiling_pid, includes, process, command>>

\* Waits for an object file, not for the end of the process.
CollectSuccessful ==
  LET m == Top.module
      f == FilesOf(m)[Top.next]
  IN /\ In("collect") /\ Top.next <= Len(FilesOf(m)) /\ process[f] = "succeeded"
     /\ compiling_pid' = [compiling_pid EXCEPT ![f] = -1]
     /\ Continue
     /\ UNCHANGED <<main, is_link_option, dependencies, is_compiled, includes, process, command>>

\* Waits for the next file's process; its exit status is looked at and dropped.
Collect ==
  LET m == Top.module
      f == FilesOf(m)[Top.next]
  IN /\ In("collect") /\ Top.next <= Len(FilesOf(m)) /\ main # "aborted"
     /\ IF compiling_pid[f] > 0
        THEN /\ process[f] # "running"
             /\ compiling_pid' = [compiling_pid EXCEPT ![f] = -1]
             /\ Continue
             /\ UNCHANGED main
        ELSE /\ main' = "aborted"
             /\ UNCHANGED <<stack, compiling_pid>>
     /\ UNCHANGED <<is_link_option, dependencies, is_compiled, includes, process, command>>

EndWait ==
  /\ In("collect") /\ Top.next > Len(FilesOf(Top.module))
  /\ is_compiled' = [is_compiled EXCEPT ![Top.module] = 1]
  /\ Return
  /\ UNCHANGED <<main, is_link_option, dependencies, compiling_pid, includes, process, command>>

-----------------------------------------------------------------------------
\* Waits for the root's own files only.
MainCollectRoot ==
  /\ main = "declare" /\ stack = <<>>
  /\ main' = "wait"
  /\ stack' = <<[proc |-> "collect", module |-> Root, next |-> 1]>>
  /\ UNCHANGED <<is_link_option, dependencies, is_compiled, compiling_pid, includes, process, command>>

MainWait ==
  /\ main = "declare" /\ stack = <<>>
  /\ main' = "wait"
  /\ stack' = <<[proc |-> "wait", module |-> Root, next |-> 1]>>
  /\ UNCHANGED <<is_link_option, dependencies, is_compiled, compiling_pid, includes, process, command>>

MainLink ==
  /\ main = "wait" /\ stack = <<>>
  /\ main' = "ended"
  /\ command' = IF is_link_option THEN collect_file_lflags(Root) ELSE <<>>
  /\ UNCHANGED <<is_link_option, stack, dependencies, is_compiled, compiling_pid, includes, process>>

Driver == AddDependency \/ StartCompilation \/ Fork \/ EndCompile \/ Wait \/ Collect \/ EndWait
          \/ MainWait \/ MainLink

Next == Driver \/ \E f \in SourceFile : ProcessEnds(f)

Spec == Init /\ [][Next]_vars /\ WF_vars(Driver) /\ \A f \in SourceFile : WF_vars(ProcessEnds(f))

-----------------------------------------------------------------------------
\* Every file is compiled with the directories of all the modules below its own,
\* also of those that were declared for another module before
\* (module_file__append_dependency_includes when module__compile is called).
IncludesAreTransitive ==
  \A m \in Module : \A f \in ToSet(FilesOf(m)) :
    process[f] # "none" => includes[f] = Below(m)

\* The linker gets the object of each file of the root and of the modules below
\* it, each once, and every compiler process has ended by then
\* (module__wait_for_compilation before module__link).
LinkIsComplete ==
  main = "ended" /\ is_link_option =>
    LET parts == UNION {ToSet(FilesOf(m)) : m \in {Root} \cup Below(Root)}
    IN /\ ToSet(command) = parts
       /\ IsInjective(command)
       /\ \A f \in parts : process[f] \in {"succeeded", "failed"}

\* No file is waited for twice or before its compiler was started: the assertions
\* of module__wait_for_compilation hold, also for modules many others depend on.
EveryFileIsAwaitedOnce == main # "aborted"

\* The tool comes to its end however long each compiler runs.
Finishes == <>(main = "ended")
=============================================================================
