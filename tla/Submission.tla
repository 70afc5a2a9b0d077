------------------------------- MODULE Submission -------------------------------
(***************************************************************************)
(* submission.py: what becomes of a model's reply on its way to the        *)
(* engine, and the check that binds the reply to the action that was sent  *)
(* (PrivateWindow.bind_model_action).                                      *)
(*                                                                         *)
(* Sizes are shares of the cap on a message: an implementation within its  *)
(* cap of characters takes one, or more than all of them in bytes when it  *)
(* is "wide"; a test takes one ("small") or two ("large").                 *)
(***************************************************************************)
EXTENDS Integers, Sequences, SequencesExt, FiniteSetsExt

CONSTANTS
    MaxTests,  \* MAX_TESTS_PER_HOLE
    MaxBytes   \* MAX_MESSAGE_BYTES, in shares

Impls == {"missing", "blank", "source", "wide", "long"}
Forms == {"junk", "no_args", "small", "large"}
NoMessage == [impl |-> "none"]
RaisesTypeError == [impl |-> "raises"]

\* "tests": nothing or something false, a list, or another value, which has
\* no items that are objects, or ("number") no items at all.
TestsOf(kind, entries) == [kind |-> kind, entries |-> entries]
NoTests == TestsOf("absent", <<>>)

ReplyPayloads ==
    [impl : Impls, note : {"absent", "text", "other"},
     tests : [kind : {"absent", "list", "other", "number"}, entries : Seq(Forms)]]
ModelReplies ==
    [whole : ReplyPayloads, span : ReplyPayloads, python : Impls, json : ReplyPayloads]

(***************************************************************************)
(* The reply.                                                              *)
(***************************************************************************)

(* balanced_span, as a scan of the characters from the first brace.        *)
Scan == [depth |-> 0, string |-> FALSE, escape |-> FALSE, length |-> 0, done |-> FALSE]

\* Mutant: a backslash is not remembered.
InStringNoEscape(at, ch) == IF ch = "quote" THEN [at EXCEPT !.string = FALSE] ELSE at

InString(at, ch) ==
    IF at.escape THEN [at EXCEPT !.escape = FALSE]
    ELSE IF ch = "backslash" THEN [at EXCEPT !.escape = TRUE]
    ELSE IF ch = "quote" THEN [at EXCEPT !.string = FALSE]
    ELSE at

Outside(at, ch) ==
    IF ch = "quote" THEN [at EXCEPT !.string = TRUE]
    ELSE IF ch = "open" THEN [at EXCEPT !.depth = @ + 1]
    ELSE IF ch = "close" /\ at.depth = 1 THEN [at EXCEPT !.depth = 0, !.done = TRUE]
    ELSE IF ch = "close" THEN [at EXCEPT !.depth = @ - 1]
    ELSE at

Read(at, ch) ==
    IF at.done THEN at
    ELSE LET next == IF at.string THEN InString(at, ch) ELSE Outside(at, ch)
         IN [next EXCEPT !.length = @ + 1]

ScanFrom(start, text) ==
    LET at[n \in 0..Len(text)] == IF n = 0 THEN start ELSE Read(at[n - 1], text[n])
    IN at[Len(text)]

\* <<>> when there is none.
BalancedSpan(text) ==
    LET starts == {i \in DOMAIN text : text[i] = "open"}
        rest == SubSeq(text, Min(starts), Len(text))
        end == ScanFrom(Scan, rest)
    IN IF starts # {} /\ end.done THEN SubSeq(rest, 1, end.length) ELSE <<>>

\* parse_reply: the whole reply, its first balanced span, or its fenced
\* blocks.  A payload without an impl stands for what does not parse, too.
HasImpl(payload) == payload.impl # "missing"

Fenced(reply) ==
    [impl |-> reply.python,
     tests |-> IF reply.json.tests.kind = "list" THEN reply.json.tests ELSE NoTests,
     note |-> IF reply.json.note = "text" THEN "text" ELSE "absent"]

ParseReply(reply) ==
    LET candidates == <<reply.whole, reply.span, Fenced(reply)>>
        parsed == {i \in 1..3 : HasImpl(candidates[i])}
    IN IF parsed = {} THEN NoMessage ELSE candidates[Min(parsed)]

(***************************************************************************)
(* The wire.                                                               *)
(***************************************************************************)
Share(form) == IF form = "large" THEN 2 ELSE 1
ImplShare(impl) == IF impl = "wide" THEN MaxBytes + 1 ELSE 1
MessageSize(impl, tests) ==
    LET size[n \in 0..Len(tests)] ==
          IF n = 0 THEN ImplShare(impl) ELSE size[n - 1] + Share(tests[n].form)
    IN size[Len(tests)]

\* The named entries: name, why and note are cut to their caps, which the
\* caps of the server repeat.
Named(entries) == [i \in DOMAIN entries |-> [name |-> i, form |-> entries[i]]]
Objects == [name : Nat, form : Forms \ {"junk"}]
WellFormed == [name : Nat, form : {"small", "large"}]

\* Those of the entries that are in a set, in order.
Take(S, kept, entry) == IF entry \in S THEN Append(kept, entry) ELSE kept
Among(S, entries) ==
    LET kept[n \in 0..Len(entries)] ==
          IF n = 0 THEN <<>> ELSE Take(S, kept[n - 1], entries[n])
    IN kept[Len(entries)]
UpTo(n, tests) == SubSeq(tests, 1, IF Len(tests) < n THEN Len(tests) ELSE n)

\* Mutant: the loop stops one entry late.
FirstTestsOver(entries, max) == UpTo(max + 1, Among(WellFormed, Named(entries)))

FirstTests(entries, max) == UpTo(max, Among(WellFormed, Named(entries)))

\* Tests are popped until the message fits, or none is left.
Fitting(impl, tests) ==
    LET fits == {n \in 0..Len(tests) : MessageSize(impl, UpTo(n, tests)) <= MaxBytes}
    IN UpTo(Max({0} \cup fits), tests)

\* Mutant: an implementation of blanks is as good as another.
UsableImplAny(impl) == impl \in {"blank", "source", "wide"}

UsableImpl(impl) == impl \in {"source", "wide"}

Normalize(payload, hole, max) ==
    LET tests == Fitting(payload.impl, FirstTests(payload.tests.entries, max))
    IN CASE ~UsableImpl(payload.impl) -> NoMessage
         [] UsableImpl(payload.impl) /\ payload.tests.kind = "number" -> RaisesTypeError
         [] UsableImpl(payload.impl) /\ payload.tests.kind # "number" ->
              IF MessageSize(payload.impl, tests) > MaxBytes THEN NoMessage
              ELSE [type |-> "submission", hole |-> hole, impl |-> payload.impl,
                    tests |-> TestsOf("list", tests),
                    note |-> IF payload.note = "absent" THEN "absent" ELSE "text"]

\* The first check that fails names the cause.
Validate(data, hole) ==
    LET checks == << <<data.type = "submission", "malformed">>,
                     <<data.hole \in Nat, "malformed">>,
                     <<data.hole = hole, "wrong_hole">>,
                     <<data.impl \in {"source", "wide", "long"}, "malformed">>,
                     <<data.impl # "long", "oversize">>,
                     <<data.tests.kind \in {"absent", "list"}, "malformed">>,
                     <<data.note \in {"absent", "text"}, "malformed">> >>
        failed == {i \in 1..7 : ~checks[i][1]}
    IN IF failed = {} THEN "valid" ELSE checks[Min(failed)][2]

\* Objects are kept up to the cap, whatever is in them; the rest is counted.
Sanitize(data, hole, max) ==
    LET objects == Among(Objects, data.tests.entries)
    IN [hole |-> hole,
        impl |-> data.impl,
        tests |-> UpTo(max, objects),
        note |-> data.note,
        dropped |-> IF Len(objects) > max THEN Len(objects) - max ELSE 0]

(***************************************************************************)
(* Both ends of a native answer.                                           *)
(***************************************************************************)

\* The player reads its own reply, with the default cap.
PlayersMessage(reply, hole) ==
    LET payload == ParseReply(reply)
    IN IF payload = NoMessage THEN NoMessage ELSE Normalize(payload, hole, MaxTests)

\* The server reads the reply again, with the cap of the window.
Binds(reply, submitted, hole, max) ==
    LET payload == ParseReply(reply)
        parsed == Normalize(payload, hole, max)
    IN /\ payload # NoMessage /\ parsed \notin {NoMessage, RaisesTypeError}
       /\ Validate(parsed, hole) = "valid"
       /\ Validate(submitted, hole) = "valid"
       /\ Sanitize(parsed, hole, max) = Sanitize(submitted, hole, max)
================================================================================
