------------------------------ MODULE DebugLog ------------------------------
(***************************************************************************)
(* The log of src/debug.  Threads, the program's own and those on which a  *)
(* graphics driver calls back, assemble messages in one string builder     *)
(* under one lock that is not recursive, and print them to a file and to   *)
(* the terminal.  Any of them may turn the type of message off or on       *)
(* without the lock.  The calls of src/ are of two kinds: a block that     *)
(* locks, writes lines, flushes and unlocks, and write_and_flush.          *)
(***************************************************************************)
EXTENDS Integers, Sequences

CONSTANTS Thread,
          NoThread,       \* the owner of a free lock
          MaxMessages,    \* bound: messages of a thread
          MaxLines,       \* bound: lines of a block
          MaxToggles,     \* bound: changes of the availability
          Prefix, Newline, Nul, Junk

Line == [by : Thread, message : 1 .. MaxMessages, line : 1 .. MaxLines]
Piece == Line \cup {Prefix, Newline}

INSTANCE StrBuilder

ASSUME LogAssumption ==
  /\ NoThread \notin Thread
  /\ Nul \notin Piece /\ Junk \notin Piece /\ Nul # Junk
  /\ Prefix \notin Line /\ Newline \notin Line /\ Prefix # Newline
  /\ MaxMessages \in Nat /\ MaxLines \in Nat /\ MaxToggles \in Nat

VARIABLES owner,            \* of write_mutex
          str_builder, number_of_lines,
          available,        \* of the type of message
          error_file, terminal,
          pc, kind, message, lines, written,   \* of each thread
          missed,           \* history: the thread's message met a closed switch
          begun, toggles,
          glfw_failed       \* glfwInit has reported an error

shared == <<owner, str_builder, number_of_lines, available, error_file, terminal>>
local == <<pc, kind, message, lines, written, missed, begun>>
vars == <<shared, local, toggles, glfw_failed>>

Init ==
  /\ owner = NoThread
  /\ str_builder = create /\ number_of_lines = 0
  /\ available = TRUE
  /\ error_file = <<>> /\ terminal = <<>>
  /\ pc = [t \in Thread |-> "idle"]
  /\ kind = [t \in Thread |-> "block"]
  /\ message = [t \in Thread |-> 0]
  /\ lines = [t \in Thread |-> 0]
  /\ written = [t \in Thread |-> 0]
  /\ missed = [t \in Thread |-> FALSE]
  /\ begun = {}
  /\ toggles = 0
  /\ glfw_failed = FALSE

At(t, label) == pc[t] = label
Goto(t, label) == pc' = [pc EXCEPT ![t] = label]

-----------------------------------------------------------------------------
\* A thread sets out to log: a block of some lines, or one line at once.
Begin(t) ==
  /\ At(t, "idle") /\ message[t] < MaxMessages
  /\ \E k \in {"block", "at once"}, n \in 0 .. MaxLines :
       /\ k = "at once" => n = 1
       /\ kind' = [kind EXCEPT ![t] = k]
       /\ lines' = [lines EXCEPT ![t] = n]
       /\ begun' = begun \cup {[by |-> t, message |-> message[t] + 1, lines |-> n]}
  /\ message' = [message EXCEPT ![t] = @ + 1]
  /\ written' = [written EXCEPT ![t] = 0]
  /\ missed' = [missed EXCEPT ![t] = FALSE]
  /\ Goto(t, "lock")
  /\ UNCHANGED <<shared, toggles>>

\* Goes on without the lock.
LockAlways(t) ==
  /\ At(t, "lock")
  /\ owner' = t
  /\ Goto(t, IF kind[t] = "at once" THEN "check" ELSE "write")
  /\ UNCHANGED <<str_builder, number_of_lines, available, error_file, terminal,
                 kind, message, lines, written, missed, begun, toggles>>

Lock(t) ==
  /\ At(t, "lock") /\ owner = NoThread
  /\ owner' = t
  /\ Goto(t, IF kind[t] = "at once" THEN "check" ELSE "write")
  /\ UNCHANGED <<str_builder, number_of_lines, available, error_file, terminal,
                 kind, message, lines, written, missed, begun, toggles>>

\* write_and_flush looks at the availability before it writes ...
Check(t) ==
  /\ At(t, "check")
  /\ Goto(t, IF available THEN "write" ELSE "clear")
  /\ missed' = [missed EXCEPT ![t] = @ \/ ~available]
  /\ UNCHANGED <<shared, kind, message, lines, written, begun, toggles>>

\* debug__vwriteln: the second line indents the first one too.  The line is
\* appended piece by piece in the code; the builder ends up the same.
vwriteln(sb, n, line) ==
  LET pieces == IF n > 0 THEN <<Prefix, line, Newline>> ELSE <<line, Newline>>
  IN append(IF n = 1 THEN prepend(sb, <<Prefix>>) ELSE sb, pieces)

Write(t) ==
  /\ At(t, "write") /\ written[t] < lines[t]
  /\ str_builder' = vwriteln(str_builder, number_of_lines,
                             [by |-> t, message |-> message[t], line |-> written[t] + 1])
  /\ number_of_lines' = number_of_lines + 1
  /\ written' = [written EXCEPT ![t] = @ + 1]
  /\ UNCHANGED <<owner, available, error_file, terminal, pc, kind, message, lines, missed, begun, toggles>>

\* ... and flush looks at it again.
FlushCheck(t) ==
  /\ At(t, "write") /\ written[t] = lines[t]
  /\ Goto(t, IF available THEN "file" ELSE "clear")
  /\ missed' = [missed EXCEPT ![t] = @ \/ ~available]
  /\ UNCHANGED <<shared, kind, message, lines, written, begun, toggles>>

Printed(stream) == IF len(str_builder) = 0 THEN stream ELSE Append(stream, str(str_builder))

\* Clears the text before it is printed to the terminal.
FlushFileAndClear(t) ==
  /\ At(t, "file")
  /\ error_file' = Printed(error_file)
  /\ str_builder' = clear(str_builder)
  /\ Goto(t, "terminal")
  /\ UNCHANGED <<owner, number_of_lines, available, terminal,
                 kind, message, lines, written, missed, begun, toggles>>

FlushFile(t) ==
  /\ At(t, "file")
  /\ error_file' = Printed(error_file)
  /\ Goto(t, "terminal")
  /\ UNCHANGED <<owner, str_builder, number_of_lines, available, terminal,
                 kind, message, lines, written, missed, begun, toggles>>

FlushTerminal(t) ==
  /\ At(t, "terminal")
  /\ terminal' = Printed(terminal)
  /\ Goto(t, "clear")
  /\ UNCHANGED <<owner, str_builder, number_of_lines, available, error_file,
                 kind, message, lines, written, missed, begun, toggles>>

Clear(t) ==
  /\ At(t, "clear")
  /\ str_builder' = clear(str_builder)
  /\ number_of_lines' = 0
  /\ Goto(t, "unlock")
  /\ UNCHANGED <<owner, available, error_file, terminal,
                 kind, message, lines, written, missed, begun, toggles>>

\* Returns early from a closed switch and keeps the lock.
UnlockUnlessMissed(t) ==
  /\ At(t, "unlock")
  /\ owner' = IF missed[t] THEN owner ELSE NoThread
  /\ Goto(t, "idle")
  /\ UNCHANGED <<str_builder, number_of_lines, available, error_file, terminal,
                 kind, message, lines, written, missed, begun, toggles>>

Unlock(t) ==
  /\ At(t, "unlock")
  /\ owner' = NoThread
  /\ Goto(t, "idle")
  /\ UNCHANGED <<str_builder, number_of_lines, available, error_file, terminal,
                 kind, message, lines, written, missed, begun, toggles>>

\* A thread that is not logging turns the type of message on or off, with no lock.
SetAvailability(t) ==
  /\ At(t, "idle") /\ toggles < MaxToggles
  /\ available' = ~available
  /\ toggles' = toggles + 1
  /\ UNCHANGED <<owner, str_builder, number_of_lines, error_file, terminal, local>>

\* glfwInit fails within the block of gfx__init: GLFW reports why to the error
\* callback, whose write_and_flush begins by taking the lock the block holds.
ErrorCallback(t) ==
  /\ At(t, "write") /\ kind[t] = "block" /\ message[t] = 1 /\ written[t] = lines[t] /\ ~glfw_failed
  /\ glfw_failed' = TRUE
  /\ kind' = [kind EXCEPT ![t] = "at once"]
  /\ Goto(t, "lock")
  /\ UNCHANGED <<shared, message, lines, written, missed, begun, toggles>>

-----------------------------------------------------------------------------
Logging(t) ==
  \/ Lock(t) \/ Check(t) \/ Write(t) \/ FlushCheck(t) \/ FlushFile(t)
  \/ FlushTerminal(t) \/ Clear(t) \/ Unlock(t)

Next == \E t \in Thread :
  \/ (Begin(t) \/ Logging(t) \/ SetAvailability(t)) /\ UNCHANGED glfw_failed
  \/ ErrorCallback(t)

\* A thread inside the log goes on when it can.  Nobody has to begin a message.
Spec == Init /\ [][Next]_vars /\ \A t \in Thread : WF_vars(Logging(t) /\ UNCHANGED glfw_failed)

-----------------------------------------------------------------------------
\* The variables have the types the code gives them, and the string builder is
\* terminated within its memory after any mix of appends, prepends and clears
\* (the assertions of str_builder__str and str_builder__vfprepend).
TypeOK ==
  /\ owner \in Thread \cup {NoThread}
  /\ str_builder \in Builder /\ WellFormed(str_builder)
  /\ number_of_lines \in 0 .. MaxLines
  /\ available \in BOOLEAN
  /\ error_file \in Seq(Seq(Piece)) /\ terminal \in Seq(Seq(Piece))
  /\ pc \in [Thread -> {"idle", "lock", "check", "write", "file", "terminal", "clear", "unlock"}]
  /\ kind \in [Thread -> {"block", "at once"}]
  /\ message \in [Thread -> 0 .. MaxMessages]
  /\ lines \in [Thread -> 0 .. MaxLines] /\ written \in [Thread -> 0 .. MaxLines]
  /\ missed \in [Thread -> BOOLEAN]
  /\ toggles \in 0 .. MaxToggles /\ glfw_failed \in BOOLEAN

\* What a message looks like: its lines in order, each ended by a newline, all
\* of them indented if there are several.
Layout(m) ==
  LET line(i) == [by |-> m.by, message |-> m.message, line |-> i]
  IN IF m.lines = 1 THEN <<line(1), Newline>>
     ELSE [j \in 1 .. 3 * m.lines |-> IF j % 3 = 1 THEN Prefix
                                      ELSE IF j % 3 = 2 THEN line((j + 1) \div 3) ELSE Newline]

\* The messages of several threads never mix: what is printed is one message of
\* one thread, whole and laid out as debug__vwriteln means it, and printed once.
MessagesAreWhole ==
  \A stream \in {error_file, terminal} :
    /\ \A i \in DOMAIN stream : \E m \in begun : stream[i] = Layout(m)
    /\ \A i, j \in DOMAIN stream : stream[i] = stream[j] => i = j

\* A message that is over was printed to the file and to the terminal, unless it
\* met its type switched off on the way.
LostOnlyWhileDisabled ==
  \A t \in Thread :
    At(t, "idle") /\ message[t] > 0 /\ lines[t] > 0 /\ ~missed[t] =>
      LET text == Layout([by |-> t, message |-> message[t], lines |-> lines[t]])
      IN /\ \E i \in DOMAIN error_file : error_file[i] = text
         /\ \E i \in DOMAIN terminal : terminal[i] = text

\* The thread that reports a failing glfwInit waits for the lock it holds.
WaitsForItself == glfw_failed /\ \E t \in Thread : owner = t /\ At(t, "lock")

\* Whoever sets out to log gets through it, as long as the others log finitely
\* often: no path through the log keeps the lock, whenever the switch is thrown.
\* Nothing but a thread that has come to wait for itself keeps the others waiting.
LoggingEnds == \A t \in Thread : At(t, "lock") ~> At(t, "idle") \/ WaitsForItself
=============================================================================
