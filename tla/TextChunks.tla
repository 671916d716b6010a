----------------------------- MODULE TextChunks -----------------------------
(***************************************************************************)
(* The texts of one response to LiveVox (adapters/livevox.py): the         *)
(* messages of the steps that a request runs are put into an array of      *)
(* texts of at most Limit characters (160 in the code).                    *)
(*                                                                         *)
(* A character is a number, and no two characters of a response are the    *)
(* same, so that one that is lost, repeated or out of order can be told;   *)
(* the blank that is put between messages is 0.                            *)
(***************************************************************************)
EXTENDS Integers, SequencesExt

CONSTANTS
    Limit,          \* max_msg_length
    MaxLength,      \* bound on the length of a message
    MaxMessages     \* bound on the messages of a response

ASSUME TextChunksAssumption ==
    Limit \in Nat \ {0, 1} /\ MaxLength \in Nat /\ MaxMessages \in Nat

VARIABLES
    text_array,     \* current_response["text_array"]
    sent,           \* the messages put into it so far
    answer          \* whether the request is being served, or how it was answered

textVars == <<text_array, sent, answer>>

-----------------------------------------------------------------------------

Separator == 0

Separated(text) == IF Len(text) % Limit = 0 THEN text ELSE Append(text, Separator)

\* A text cut into pieces of Limit characters and a last one that may be shorter.
Cut(text) ==
    LET pieces == IF text = <<>> THEN 1 ELSE (Len(text) + Limit - 1) \div Limit
    IN  [i \in 1 .. pieces |->
            SubSeq(text, (i - 1) * Limit + 1, IF i = pieces THEN Len(text) ELSE i * Limit)]

\* Slip: a text is opened for the message even where an empty one is open.
OpenedAlways(texts, start_new_message) ==
    IF start_new_message THEN Append(texts, <<>>) ELSE texts

Opened(texts, start_new_message) ==
    IF start_new_message /\ Last(texts) # <<>> THEN Append(texts, <<>>) ELSE texts

UpdateTextArray(texts, new_text, start_new_message, end_break) ==
    LET opened == Opened(texts, start_new_message)
    IN  Front(opened) \o Cut(Separated(Last(opened)) \o new_text)
            \o (IF end_break THEN << <<>> >> ELSE <<>>)

-----------------------------------------------------------------------------

TextsInit == text_array = << <<>> >> /\ sent = <<>> /\ answer = "none"

\* The next message, by its length and the breaks it asks for; its characters are
\* those after the ones used so far.
Message(messages, length, start_new_message, end_break) ==
    LET used == IF messages = <<>> THEN 0 ELSE Last(messages).last
    IN  [first |-> used + 1, last |-> used + length,
         starts |-> start_new_message, ends |-> end_break]

CharactersOf(m) == [i \in 1 .. m.last - m.first + 1 |-> m.first + i - 1]

Said(texts, m) == UpdateTextArray(texts, CharactersOf(m), m.starts, m.ends)

MessagesLeft == answer = "none" /\ Len(sent) < MaxMessages

\* A PlayMessageStep; what it renders may be empty.
PlayMessage == \E length \in 0 .. MaxLength : \E starts, ends \in BOOLEAN :
    LET m == Message(sent, length, starts, ends)
    IN  /\ MessagesLeft
        /\ text_array' = Said(text_array, m)
        /\ sent' = Append(sent, m)
        /\ UNCHANGED answer

\* The prompt of an InputStep, the last message of a response.
AskForInput == \E length \in 1 .. MaxLength, starts \in BOOLEAN :
    LET m == Message(sent, length, starts, FALSE)
    IN  /\ MessagesLeft
        /\ text_array' = Said(text_array, m)
        /\ sent' = Append(sent, m)
        /\ answer' = "asked"

\* The error, and the prompt in a text of its own.
AskAgain == \E lengths \in (1 .. MaxLength) \X (1 .. MaxLength) :
    LET error  == Message(sent, lengths[1], FALSE, FALSE)
        prompt == Message(Append(sent, error), lengths[2], TRUE, FALSE)
    IN  /\ MessagesLeft
        /\ text_array' = Said(Said(text_array, error), prompt)
        /\ sent' = sent \o <<error, prompt>>
        /\ answer' = "asked"

\* An SMSExitPath, whose message is put after the others, if it has one.
ExitWithMessage == \E length \in 0 .. MaxLength :
    LET m == Message(sent, length, FALSE, FALSE)
    IN  /\ MessagesLeft
        /\ IF length = 0 THEN UNCHANGED <<text_array, sent>>
                         ELSE text_array' = Said(text_array, m) /\ sent' = Append(sent, m)
        /\ answer' = "finished"

\* An exit path that overwrites the response.
ExitOverwriting == \E length \in 1 .. MaxLength :
    LET m == Message(<<>>, length, FALSE, FALSE)
    IN  /\ answer = "none"
        /\ text_array' = <<CharactersOf(m)>>
        /\ sent' = <<m>>
        /\ answer' = "overwritten"

\* A request is served by an adapter of its own.
NewRequest == answer # "none" /\ text_array' = << <<>> >> /\ sent' = <<>> /\ answer' = "none"

TextsNext == PlayMessage \/ AskForInput \/ AskAgain \/ ExitWithMessage \/ ExitOverwriting \/ NewRequest

-----------------------------------------------------------------------------
(* Properties *)

\* Where the characters are: <<text, place in it>>, read text by text.
Places == UNION {{<<t, i>> : i \in DOMAIN text_array[t]} : t \in DOMAIN text_array}

Read(p) == text_array[p[1]][p[2]]

Before(p, q) == p[1] < q[1] \/ (p[1] = q[1] /\ p[2] < q[2])

\* What the contact reads is what was said: all of it, once and in order, in texts
\* that are not too long.  A message that starts anew, or comes after one that
\* ends a text, is at the start of a text; any other is at the start of one or
\* apart from what is before it; and a text is left before it is full only where
\* a message starts, and empty only for an empty message (update_text_array).
ReadsAsSent ==
    LET told  == {i \in DOMAIN sent : sent[i].first <= sent[i].last}
        lines == {p \in Places : Read(p) # Separator}
    IN  /\ {Read(p) : p \in lines} = UNION {sent[i].first .. sent[i].last : i \in told}
        /\ \A p, q \in lines : Before(p, q) => Read(p) < Read(q)
        /\ answer # "overwritten" => \A i \in DOMAIN text_array : Len(text_array[i]) <= Limit
        /\ \A i \in told, p \in lines : Read(p) = sent[i].first /\ p[2] > 1 =>
               /\ ~sent[i].starts /\ (i > 1 => ~sent[i - 1].ends)
               /\ Read(<<p[1], p[2] - 1>>) = Separator
        /\ \A t \in 1 .. Len(text_array) - 1 :
               /\ Len(text_array[t]) < Limit /\ text_array[t + 1] # <<>> =>
                      \E i \in told : text_array[t + 1][1] = sent[i].first
               /\ text_array[t] = <<>> => told # DOMAIN sent
=============================================================================
