------------------------------- MODULE Logger -------------------------------
(***************************************************************************)
(* logger_log (src/logger/Logger.c) by several threads, with string_concat *)
(* and native_puts (src/string/SStrings*.c) and the memory they use.  The  *)
(* level and the log file belong to all threads and no lock guards them: a *)
(* step is one access to either, or one call of the system.                *)
(***************************************************************************)
EXTENDS Integers, SequencesExt

CONSTANTS Threads,
          MessageLevels,  \* the levels of messages
          Thresholds,     \* the arguments of logger_set_level
          MaxLogs         \* bound: calls of logger_log by a thread

LOGGER_ALL == 0
LOGGER_OFF == 7

ASSUME LoggerAssumption == /\ MessageLevels \subseteq (LOGGER_ALL + 1)..(LOGGER_OFF - 1)
                           /\ Thresholds \subseteq Int /\ MaxLogs \in Nat

VARIABLES
  setup,      \* of the process: color, whether stdout supports it;
              \* console, whether it is a Windows console
  level,      \* logger_level
  file,       \* logger_file: "none", "open", or "closed" but not NULL
  written,    \* what the file has received from each thread
  shown,      \* the lines stdout has received from each thread
  at,         \* where in logger_log a thread is
  base,       \* whether its base string has memory
  heap,       \* the strings on the heap: thread and name
  stack,      \* the blocks a thread has on its fast allocator
  running,    \* FALSE once the process has aborted or crashed
  sent,       \* history: the calls of each thread
  failed      \* history: the threads for which malloc has failed

logvars == <<setup, level, file, written, shown, at, base, heap, stack, running, sent, failed>>

(* No thread has made a call. *)
Quiet ==
  /\ written = [t \in Threads |-> <<>>] /\ shown = [t \in Threads |-> <<>>]
  /\ at = [t \in Threads |-> "idle"] /\ base = [t \in Threads |-> FALSE]
  /\ heap = {} /\ stack = [t \in Threads |-> 0]
  /\ running = TRUE
  /\ sent = [t \in Threads |-> <<>>] /\ failed = {}

(* internal_logger_init: the file is opened, unless the build has none, or  *)
(* the time, a directory or fopen fails.                                    *)
LogInit ==
  /\ setup \in [color : BOOLEAN, console : BOOLEAN]
  /\ level = LOGGER_ALL
  /\ file \in {"none", "open"}
  /\ Quiet

Goto(t, place) == at' = [at EXCEPT ![t] = place]
Die == running' = FALSE
MyCall(t) == Len(sent[t])

(* logger_set_level *)
SetLevel(l) ==
  /\ running
  /\ level' = IF l < LOGGER_ALL \/ l > LOGGER_OFF THEN level ELSE l
  /\ UNCHANGED <<setup, file, written, shown, at, base, heap, stack, running, sent, failed>>

(* What vsnprintf makes of a message. *)
Formats == {"text", "empty", "failed"}

(* A call of the history: whether its message is of the level that is set,  *)
(* or more important, and what became of the text.                          *)
Called(t, l, format) ==
  sent' = [sent EXCEPT ![t] = Append(@, [wanted |-> l >= level, format |-> format])]

(* Mutant: a message of the level that is set is filtered out. *)
Filters_Equal(l) == l <= level
Filters(l) == l < level

(* logger_log up to the formatting of the message.  It ends there if the    *)
(* message is filtered out, or empty.  It goes on after a failure of        *)
(* vsnprintf, whose -1 is a length greater than 0 once it is unsigned.      *)
Log(t, l, format) ==
  /\ running /\ at[t] = "idle" /\ MyCall(t) < MaxLogs
  /\ IF Filters(l) \/ format = "empty" THEN UNCHANGED at ELSE Goto(t, "concat")
  /\ Called(t, l, format)
  /\ UNCHANGED <<setup, level, file, written, shown, base, heap, stack, running, failed>>

(* string_concat without memory: for its temporary array, which it writes   *)
(* to all the same, *)
NoArray(t) ==
  /\ Die
  /\ UNCHANGED <<heap, stack, failed>>

(* or for its result: the array stays. *)
NoResult(t) ==
  /\ stack' = [stack EXCEPT ![t] = @ + 1]
  /\ failed' = failed \cup {t}
  /\ UNCHANGED heap

(* or with enough. *)
Joined(t, name) ==
  /\ heap' = heap \cup {<<t, name>>}
  /\ UNCHANGED <<stack, failed, running>>

(* output_buffers: the base string *)
BuildBase(t) ==
  /\ running /\ at[t] = "concat"
  /\ Goto(t, "file")
  /\ \/ NoArray(t) /\ UNCHANGED base
     \/ NoResult(t) /\ base' = [base EXCEPT ![t] = FALSE] /\ UNCHANGED running
     \/ /\ base' = [base EXCEPT ![t] = TRUE]
        /\ Joined(t, "base")
  /\ UNCHANGED <<setup, level, file, written, shown, sent>>

(* What thread t adds to the file or to stdout. *)
Output(t, stream, kind) == [stream EXCEPT ![t] = Append(@, <<MyCall(t), kind>>)]

(* fputs of the base string: NULL is not a string, and a closed file is no  *)
(* file.                                                                    *)
WriteText(t) ==
  /\ running /\ at[t] = "file"
  /\ CASE file = "none"   -> Goto(t, "stdout") /\ UNCHANGED <<written, running>>
       [] file = "closed" -> Die /\ UNCHANGED <<written, at>>
       [] OTHER -> IF base[t] THEN /\ written' = Output(t, written, "text")
                                   /\ Goto(t, "newline")
                                   /\ UNCHANGED running
                              ELSE Die /\ UNCHANGED <<written, at>>
  /\ UNCHANGED <<setup, level, file, shown, base, heap, stack, sent, failed>>

(* fputc *)
WriteNewline(t) ==
  /\ running /\ at[t] = "newline"
  /\ IF file = "closed" THEN Die /\ UNCHANGED <<written, at>>
     ELSE /\ written' = Output(t, written, "newline")
          /\ Goto(t, "stdout")
          /\ UNCHANGED running
  /\ UNCHANGED <<setup, level, file, shown, base, heap, stack, sent, failed>>

(* native_puts: a Windows console takes 16 bit characters, and the array of *)
(* them is not released.                                                    *)
NativePuts(t) ==
  /\ shown' = Output(t, shown, "line")
  /\ stack' = [stack EXCEPT ![t] = IF setup.console THEN @ + 1 ELSE @]

(* Mutant: the base string is released only without colors. *)
Show_KeepsBase(t) ==
  /\ running /\ at[t] = "stdout"
  /\ base[t] \/ setup.color
  /\ NativePuts(t)
  /\ heap' = IF setup.color THEN heap ELSE heap \ {<<t, "base">>}
  /\ Goto(t, "extras")
  /\ UNCHANGED <<setup, level, file, written, base, running, sent, failed>>

(* The rest of output_buffers: a second string_concat adds the colors.  Of  *)
(* a base string without memory it makes a line of colors only.             *)
Show(t) ==
  /\ running /\ at[t] = "stdout"
  /\ base[t] \/ setup.color
  /\ NativePuts(t)
  /\ heap' = heap \ {<<t, "base">>}
  /\ Goto(t, "extras")
  /\ UNCHANGED <<setup, level, file, written, base, running, sent, failed>>

(* native_puts of NULL, a conversion that fails, or no array for it *)
ShowNothing(t) ==
  /\ running /\ at[t] = "stdout"
  /\ setup.color \/ setup.console \/ ~base[t]
  /\ Die
  /\ UNCHANGED <<setup, level, file, written, shown, at, base, heap, stack, sent, failed>>

(* The options of logger_log, which were not looked at before. *)
Extras(t, abort) ==
  /\ running /\ at[t] = "extras"
  /\ IF abort THEN Die /\ UNCHANGED at
              ELSE Goto(t, "idle") /\ UNCHANGED running
  /\ UNCHANGED <<setup, level, file, written, shown, base, heap, stack, sent, failed>>

(* internal_logger_exit, wherever the other threads are. *)
LogExit ==
  /\ running /\ file = "open"
  /\ file' = "closed"
  /\ UNCHANGED <<setup, level, written, shown, at, base, heap, stack, running, sent, failed>>

LogStep(t) == \/ \E l \in MessageLevels, format \in Formats : Log(t, l, format)
              \/ BuildBase(t) \/ WriteText(t) \/ WriteNewline(t)
              \/ Show(t) \/ ShowNothing(t)
              \/ \E abort \in BOOLEAN : Extras(t, abort)

LogNext == LogExit \/ (\E l \in Thresholds : SetLevel(l)) \/ \E t \in Threads : LogStep(t)
LogSpec == LogInit /\ [][LogNext]_logvars
-----------------------------------------------------------------------------
(* The calls that the level let through, with something to say, and those   *)
(* whose message could not be formatted.                                    *)
LetThrough(t, format) ==
  {k \in DOMAIN sent[t] : sent[t][k].wanted /\ sent[t][k].format = format}
Passed(t) == LetThrough(t, "text")
Unformatted(t) == LetThrough(t, "failed")

(* A stream with every kind of output of the calls that passed, each once   *)
(* and in the order of the calls, the end of a line after its text.  Of the *)
(* messages that could not be formatted it may have any.                    *)
Before(x, y) == x[1] < y[1] \/ (x[1] = y[1] /\ x[2] = "text" /\ y[2] = "newline")
InOrder(stream) == \A i, j \in DOMAIN stream : i < j => Before(stream[i], stream[j])
PutOut(t, stream, kinds) ==
  /\ InOrder(stream)
  /\ Passed(t) \X kinds \subseteq Range(stream)
  /\ Range(stream) \subseteq (Passed(t) \cup Unformatted(t)) \X kinds

(* "Any messages sent to the logger which are less important than the set   *)
(* level will be ignored" (Logger.h, line 64), and no others: once a call   *)
(* returns or is about to abort, the messages of its thread are in the file *)
(* and on stdout, each once, in order and with its end of line, whatever    *)
(* other threads write in between and whenever they change the level.       *)
(* Threads that ran out of memory are excepted, and nothing is asked of a   *)
(* message whose formatting failed: the code puts it out (Logger.c, lines   *)
(* 202 to 206), and the comment on line 208 wants it dropped.               *)
MessagesOut ==
  \A t \in Threads \ failed :
    at[t] \in {"idle", "extras"} =>
      /\ PutOut(t, shown[t], {"line"})
      /\ file # "none" => PutOut(t, written[t], {"text", "newline"})

(* A thread that is not in a call holds none of the logger's memory.  Two   *)
(* things are left on its stack by the code as it is: the array of a        *)
(* string_concat whose malloc failed, and what a Windows console was given. *)
NothingHeld ==
  \A t \in Threads :
    at[t] = "idle" => /\ \A h \in heap : h[1] # t
                      /\ stack[t] = 0 \/ t \in failed \/ setup.console
=============================================================================
