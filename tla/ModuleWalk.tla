----------------------------- MODULE ModuleWalk -----------------------------
(***************************************************************************)
(* The walks of src/build over the modules a module depends on: a pass     *)
(* that marks the modules it meets and collects something of each, and a   *)
(* pass that clears the marks for the next walk.  Build has the result of  *)
(* a walk as the function Visited; here the tool makes its calls and sets  *)
(* its marks one by one, before the step of Build that uses the result.    *)
(***************************************************************************)
EXTENDS Build

VARIABLES transient_flag, transient_flag_is_used,
          walk,        \* what is collected, and whether in the marking pass
          calls,       \* of the walk under way; the lowest is of no module
          collected

marks == <<transient_flag, transient_flag_is_used>>
walkVars == <<marks, walk, calls, collected>>

NoWalk == [kind |-> "none", explore |-> FALSE]
Call(m, callees) == [module |-> m, callees |-> callees, next |-> 1]
Callee == Last(calls).callees[Last(calls).next]
Called == [calls EXCEPT ![Len(calls)].next = @ + 1]
Calling == calls # <<>> /\ Last(calls).next <= Len(Last(calls).callees)
CalledAll == calls # <<>> /\ Last(calls).next > Len(Last(calls).callees)

\* The includes of a file are those of its module's dependencies, the objects and
\* flags for the linker those of the root too.
Started(kind) ==
  IF kind = "includes" THEN <<Call(Top.module, dependencies[Top.module])>> ELSE <<Call(Root, <<Root>>)>>

\* The tool is about to start a compiler or the linker.
NeedsWalk ==
  \/ /\ In("compile") /\ Top.next <= Len(FilesOf(Top.module))
     /\ compiling_pid[FilesOf(Top.module)[Top.next]] = 0
  \/ main = "wait" /\ stack = <<>> /\ is_link_option

WalkInit ==
  /\ Init
  /\ transient_flag = [m \in Module |-> FALSE] /\ transient_flag_is_used = transient_flag
  /\ walk = NoWalk /\ calls = <<>> /\ collected = <<>>

StartWalk ==
  /\ walk = NoWalk /\ NeedsWalk
  /\ walk' = [kind |-> IF main = "declare" THEN "includes" ELSE "objects", explore |-> TRUE]
  /\ calls' = Started(walk'.kind) /\ collected' = <<>>
  /\ UNCHANGED <<vars, marks>>

\* A module met again returns at once, in either pass.
Skip ==
  /\ Calling /\ transient_flag[Callee] = walk.explore
  /\ calls' = Called
  /\ UNCHANGED <<vars, marks, walk, collected>>

\* Does not clear what is below.
VisitClearsOne ==
  /\ Calling /\ transient_flag[Callee] # walk.explore
  /\ transient_flag' = [transient_flag EXCEPT ![Callee] = walk.explore]
  /\ transient_flag_is_used' = [transient_flag_is_used EXCEPT ![Callee] = walk.explore]
  /\ calls' = IF walk.explore THEN Append(Called, Call(Callee, dependencies[Callee])) ELSE Called
  /\ collected' = IF walk.explore /\ walk.kind = "includes" THEN Append(collected, Callee) ELSE collected
  /\ UNCHANGED <<vars, walk>>

\* The assertion on the module called fails, or its dependencies are called.
Visit ==
  /\ Calling /\ transient_flag[Callee] # walk.explore
  /\ IF transient_flag_is_used[Callee] = walk.explore
     THEN walk' = [walk EXCEPT !.kind = "aborted"] /\ calls' = <<>> /\ UNCHANGED <<marks, collected>>
     ELSE /\ calls' = Append(Called, Call(Callee, dependencies[Callee]))
          /\ IF walk.explore
             THEN /\ transient_flag' = [transient_flag EXCEPT ![Callee] = TRUE]
                  /\ transient_flag_is_used' = [transient_flag_is_used EXCEPT ![Callee] = TRUE]
                  /\ collected' = IF walk.kind = "includes" THEN Append(collected, Callee) ELSE collected
             ELSE UNCHANGED <<marks, collected>>
          /\ UNCHANGED walk
  /\ UNCHANGED vars

\* Behind its dependencies a module is collected for the linker, or cleared.
Leave ==
  /\ CalledAll /\ Len(calls) > 1
  /\ calls' = Front(calls)
  /\ IF walk.explore
     THEN /\ collected' = IF walk.kind = "objects" THEN Append(collected, Last(calls).module) ELSE collected
          /\ UNCHANGED marks
     ELSE /\ transient_flag' = [transient_flag EXCEPT ![Last(calls).module] = FALSE]
          /\ transient_flag_is_used' = [transient_flag_is_used EXCEPT ![Last(calls).module] = FALSE]
          /\ UNCHANGED collected
  /\ UNCHANGED <<vars, walk>>

\* After the marking pass the same calls are made to clear; the objects for the linker
\* are followed by a walk for its flags.
TurnBack ==
  /\ CalledAll /\ Len(calls) = 1
  /\ walk' = IF walk.explore THEN [walk EXCEPT !.explore = FALSE]
             ELSE IF walk.kind = "objects" THEN [kind |-> "lflags", explore |-> TRUE]
             ELSE [kind |-> "over", explore |-> FALSE]
  /\ calls' = IF walk'.kind = "over" THEN <<>> ELSE Started(walk.kind)
  /\ UNCHANGED <<vars, marks, collected>>

\* A step of the tool between two walks.
ToolStep ==
  /\ walk.kind = (IF NeedsWalk THEN "over" ELSE "none")
  /\ Driver
  /\ walk' = NoWalk
  /\ UNCHANGED <<marks, calls, collected>>

WalkStep == StartWalk \/ Skip \/ Visit \/ Leave \/ TurnBack

Compiler(f) == ProcessEnds(f) /\ UNCHANGED walkVars

WalkNext == WalkStep \/ ToolStep \/ \E f \in SourceFile : Compiler(f)

WalkSpec ==
  /\ WalkInit /\ [][WalkNext]_<<vars, walkVars>>
  /\ WF_<<vars, walkVars>>(WalkStep \/ ToolStep)
  /\ \A f \in SourceFile : WF_<<vars, walkVars>>(Compiler(f))

-----------------------------------------------------------------------------
\* Whatever was walked over before, with whatever had been declared by then, a walk
\* collects each module below once, for the linker behind those it depends on: a
\* mark left over would silently end it early (build_impl.c:175, 222, 268).  No walk
\* meets a module in use by another or clears one it has not marked, so its
\* assertions hold (lines 178, 197, 225, 254, 271 and 294).
WalkIsVisited ==
  /\ walk.kind # "aborted"
  /\ ~walk.explore =>
       CASE walk.kind = "includes" -> IsInjective(collected) /\ ToSet(collected) = append_dependency_includes(Top.module)
         [] walk.kind = "objects" -> collected = Visited[Root][<<>>]
         [] OTHER -> TRUE
=============================================================================
