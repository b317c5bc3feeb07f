------------------------------- MODULE Logger -------------------------------
(***************************************************************************)
(* The one Logger of the process, used by several threads: each use of     *)
(* LOG_INFO, LOG_ERROR, LOG_FATAL or LOG_DEBUG is two calls, setLogLevel   *)
(* and log, and log is one insertion into std::cout after another.  A      *)
(* single insertion is taken as atomic; the time and the message stand for *)
(* the call they are of.                                                   *)
(***************************************************************************)
EXTENDS Integers, Sequences

CONSTANT Calls     \* bound: the uses of the macros, each on a thread of its own

VARIABLES
  level,       \* which macro each call is
  LogLevel_,   \* of Logger::instance(); not initialised
  pc,          \* where each call is
  tag,         \* of each call: the level its switch found
  written,     \* of each call: the insertions made
  out,         \* std::cout: what was inserted, in order
  exited       \* a LOG_FATAL is through

vars == <<level, LogLevel_, pc, tag, written, out, exited>>

LogLevels == {"INFO", "ERROR", "FATAL", "DEBUG"}

Piece(what, of) == [what |-> what, of |-> of]

\* The insertions of log() by call t with tag l.
Line(t, l) == <<Piece("tag", l), Piece("time", t), Piece(" : ", t), Piece("msg", t),
                Piece("endl", t)>>

Init ==
  /\ level \in [Calls -> LogLevels]
  /\ LogLevel_ \in LogLevels
  /\ pc = [t \in Calls |-> "setLogLevel"]
  /\ tag = [t \in Calls |-> "INFO"]
  /\ written = [t \in Calls |-> 0]
  /\ out = <<>>
  /\ exited = FALSE

SetLogLevel(t) ==
  /\ ~exited /\ pc[t] = "setLogLevel"
  /\ LogLevel_' = level[t]
  /\ pc' = [pc EXCEPT ![t] = "log"]
  /\ UNCHANGED <<level, tag, written, out, exited>>

\* The switch of log().
ReadLevel(t) ==
  /\ ~exited /\ pc[t] = "log"
  /\ tag' = [tag EXCEPT ![t] = LogLevel_]
  /\ pc' = [pc EXCEPT ![t] = "insert"]
  /\ UNCHANGED <<level, LogLevel_, written, out, exited>>

Insert(t) ==
  LET line == Line(t, tag[t])
  IN  /\ ~exited /\ pc[t] = "insert" /\ written[t] < Len(line)
      /\ out' = Append(out, line[written[t] + 1])
      /\ written' = [written EXCEPT ![t] = @ + 1]
      /\ UNCHANGED <<level, LogLevel_, pc, tag, exited>>

\* LOG_FATAL ends the process, and with it the other threads.
Return(t) ==
  /\ ~exited /\ pc[t] = "insert" /\ written[t] = Len(Line(t, tag[t]))
  /\ pc' = [pc EXCEPT ![t] = "returned"]
  /\ exited' = (level[t] = "FATAL")
  /\ UNCHANGED <<level, LogLevel_, tag, written, out>>

Next == \E t \in Calls : SetLogLevel(t) \/ ReadLevel(t) \/ Insert(t) \/ Return(t)

Spec == Init /\ [][Next]_vars
------------------------------------------------------------------------------
\* The log comes out line by line: what ends in a newline is one call's tag,
\* time and message, and the tag is the level of the macro that was used.
\* mymuduo_notes.md:170 promises it of the singleton; Logger.cc:25-49 has
\* neither a lock nor a queue.
LineIsItsOwn ==
  \A n \in DOMAIN out :
    out[n].what = "endl" =>
      \E t \in Calls : n >= 5 /\ SubSeq(out, n - 4, n) = Line(t, level[t])
==============================================================================
