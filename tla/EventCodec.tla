----------------------------- MODULE EventCodec -----------------------------
(***************************************************************************)
(* How an event becomes a row of text and is read back (src/store/         *)
(* sqlite.rs), and how the error of a step body becomes an event           *)
(* (src/worker.rs, src/engine.rs): the places where meaning travels as     *)
(* characters.                                                             *)
(*                                                                         *)
(* A text is a sequence of symbols.  "bs" is a backslash, "nl" a line      *)
(* break, "n" the letter; the name of an event, a decimal number and each  *)
(* of the two markers count as one symbol, since nothing looks inside      *)
(* them.                                                                   *)
(***************************************************************************)
EXTENDS Integers, SequencesExt

CONSTANTS
    Symbols,        \* what texts are made of
    MaxNumber,      \* bound on the numbers in the events that are looked at
    Decimal         \* Decimal[n]: the symbol for the decimal representation of n

Text == Seq(Symbols)

(***************************************************************************)
(* Fields                                                                  *)
(***************************************************************************)

\* str::replace of one symbol.
Replaced(s, symbol, by) ==
    FlattenSeq([i \in DOMAIN s |-> IF s[i] = symbol THEN by ELSE <<s[i]>>])

\* Slip: line breaks first, so that their backslash is doubled too.
Escape_LineFirst(s) ==
    Replaced(Replaced(s, "nl", <<"bs", "n">>), "bs", <<"bs", "bs">>)

Escape(s) == Replaced(Replaced(s, "bs", <<"bs", "bs">>), "nl", <<"bs", "n">>)

\* One symbol more of unescape_field: after a backslash only "n" and a second
\* backslash mean something else, and any other symbol keeps the backslash.
UnescapeNext(st, c) ==
    CASE ~ st.escaped /\ c = "bs" -> [st EXCEPT !.escaped = TRUE]
      [] ~ st.escaped /\ c # "bs" -> [st EXCEPT !.out = Append(@, c)]
      [] st.escaped /\ c = "n"    -> [out |-> Append(st.out, "nl"), escaped |-> FALSE]
      [] st.escaped /\ c = "bs"   -> [out |-> Append(st.out, "bs"), escaped |-> FALSE]
      [] OTHER                    -> [out |-> st.out \o <<"bs", c>>, escaped |-> FALSE]

\* A backslash at the end stands for itself.
Unescape(s) ==
    LET end == FoldLeft(UnescapeNext, [out |-> <<>>, escaped |-> FALSE], s)
    IN  IF end.escaped THEN Append(end.out, "bs") ELSE end.out

(***************************************************************************)
(* Events                                                                  *)
(***************************************************************************)

\* The fields of each kind of event, in the order of its lines.
Layout == [
    WorkflowStarted   |-> <<"workflow_id">>,
    StepStarted       |-> <<"workflow_id", "step_index", "attempt">>,
    StepCompleted     |-> <<"workflow_id", "step_index", "output">>,
    StepFailed        |-> <<"workflow_id", "step_index", "reason">>,
    RetryScheduled    |-> <<"workflow_id", "step_index", "attempt">>,
    StepWaiting       |-> <<"workflow_id", "step_index", "reason">>,
    StepResumed       |-> <<"workflow_id", "step_index", "input">>,
    WorkflowCompleted |-> <<"workflow_id">>,
    WorkflowFailed    |-> <<"workflow_id", "reason">>,
    WorkflowCancelled |-> <<"workflow_id", "reason">>,
    WorkerRecovered   |-> <<"workflow_id", "step_index">>]

Kinds == DOMAIN Layout

Numbers == {"step_index", "attempt"}

ASSUME CodecAssumption ==
    /\ {"bs", "nl", "n"} \union Kinds \subseteq Symbols
    /\ MaxNumber \in Nat
    /\ Decimal \in [0..MaxNumber -> Symbols \ {"nl"}]
    /\ \A m, n \in 0..MaxNumber : Decimal[m] = Decimal[n] => m = n

\* An event: its kind and the values of its fields, in order.
Event(kind, values) == [kind |-> kind, values |-> values]

\* The events of the program: a number or a text for each field, as its name says.
IsEvent(e) ==
    /\ e.kind \in Kinds
    /\ e = Event(e.kind, [i \in DOMAIN Layout[e.kind] |-> e.values[i]])
    /\ \A i \in DOMAIN Layout[e.kind] :
          e.values[i] \in IF Layout[e.kind][i] \in Numbers THEN 0..MaxNumber ELSE Text

WorkflowOf(e) == e.values[1]

Numeral(n) == <<Decimal[n]>>

\* A line for the kind and one for each field.
EncodedLines(e) ==
    <<<<e.kind>>>> \o
    [i \in DOMAIN Layout[e.kind] |->
        IF Layout[e.kind][i] \in Numbers THEN Numeral(e.values[i])
                                         ELSE Escape(e.values[i])]

\* lines.join("\n")
Joined(lines) == Tail(FlattenSeq([i \in DOMAIN lines |-> <<"nl">> \o lines[i]]))

Encode(e) == Joined(EncodedLines(e))

\* payload.split('\n')
SplitNext(lines, c) ==
    IF c = "nl" THEN Append(lines, <<>>)
                ELSE [lines EXCEPT ![Len(lines)] = Append(@, c)]

Split(payload) == FoldLeft(SplitNext, << <<>> >>, payload)

IsNumber(line) == \E n \in 0..MaxNumber : line = Numeral(n)
ParseNumber(line) == CHOOSE n \in 0..MaxNumber : line = Numeral(n)

Malformed == [kind |-> "error", values |-> <<>>]

\* Unknown kinds, missing lines and lines that are no number are errors; lines left
\* over are not.
Decode(payload) ==
    LET lines == Split(payload)
        kind == IF Len(lines[1]) = 1 THEN lines[1][1] ELSE "none"
        line(i) == lines[i + 1]
    IN  IF /\ kind \in Kinds
           /\ Len(lines) > Len(Layout[kind])
           /\ \A i \in DOMAIN Layout[kind] :
                 Layout[kind][i] \in Numbers => IsNumber(line(i))
        THEN Event(kind, [i \in DOMAIN Layout[kind] |->
                             IF Layout[kind][i] \in Numbers THEN ParseNumber(line(i))
                                                            ELSE Unescape(line(i))])
        ELSE Malformed

(***************************************************************************)
(* Errors of step bodies                                                   *)
(***************************************************************************)

\* The prefix that Display puts before the text of each marker error.
Prefix == [WaitForInput |-> "agentq:wait:", NonRetryable |-> "agentq:non-retryable:"]

Markers == DOMAIN Prefix

\* An error that a body returns: one of the markers, or any other ("plain").
BodyErrors(texts) == [type : Markers \union {"plain"}, text : texts]

\* e.to_string(), which is all that the worker hands on.
Display(err) ==
    IF err.type \in Markers THEN <<Prefix[err.type]>> \o err.text ELSE err.text

\* Slip: the marker is looked for anywhere in the reason.
Carries_Anywhere(reason, marker) == \E i \in DOMAIN reason : reason[i] = Prefix[marker]

\* strip_prefix finds the marker.
Carries(reason, marker) == reason # <<>> /\ Head(reason) = Prefix[marker]

\* The kind and the text that run_step records for a failed outcome.
Recorded(reason) ==
    CASE Carries(reason, "WaitForInput") ->
            [kind |-> "StepWaiting", reason |-> Tail(reason), retry |-> FALSE]
      [] ~ Carries(reason, "WaitForInput") /\ Carries(reason, "NonRetryable") ->
            [kind |-> "StepFailed", reason |-> Tail(reason), retry |-> FALSE]
      [] OTHER ->
            [kind |-> "StepFailed", reason |-> reason, retry |-> TRUE]
=============================================================================
