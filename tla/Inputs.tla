-------------------------------- MODULE Inputs --------------------------------
(***************************************************************************)
(* What a contact typed, and what an input step makes of it                *)
(* (steps/inputs.py, and input_step_run_strategy of steps/api/v1/input.py):*)
(* each input type binds what was typed to a value or refuses it, and the  *)
(* contact is asked again.  An exception of another kind is caught by      *)
(* nobody and fails the request.                                           *)
(*                                                                         *)
(* What was typed is a sequence of characters: a digit is its number, any  *)
(* other character a model value.  The lengths that types expect are       *)
(* parameters, so that they can be small.  How dateparser reads a date is  *)
(* left open.                                                              *)
(***************************************************************************)
EXTENDS Integers, SequencesExt

CONSTANTS
    Star, Point, Dollar, Comma, Blank,
    Half,           \* a character that isnumeric() takes and int() does not
    Letter, Capital,
    NoInput,        \* None: the request carries no input at all
    Lengths,        \* the expected_input_length of the types that have one
    MenuSize,       \* the actions of a menu are numbered 1 to MenuSize
    Numbers,        \* the numbers of the actions of a numbered menu
    Replays,        \* the actions that have the menu said again
    Answers         \* what may be typed, per type

Digits     == 0 .. 9
Characters == Digits \cup {Star, Point, Dollar, Comma, Blank, Half, Letter, Capital}
InputTypes == DOMAIN Answers
Menus      == {"MenuActionInput", "NumberedMenuActionInput"}
Dates      == {"DateInput", "BirthdayInput", "CardPaymentDateInput"}

ASSUME InputsAssumption ==
    /\ Cardinality(Characters) = 18
    /\ MenuSize \in Nat \ {0} /\ Numbers \subseteq Nat
    /\ \A t \in DOMAIN Lengths : Lengths[t] \in Nat \ {0}
    /\ \A t \in InputTypes, s \in UNION {Answers[u] : u \in InputTypes} :
           s = NoInput \/ s \in Seq(Characters)

VARIABLES
    type,       \* the input type of the step that asked
    typed,      \* the answer
    outcome,    \* what became of it
    stored      \* the field of the session that the step stores

inputVars == <<type, typed, outcome, stored>>

-----------------------------------------------------------------------------
(* Reading characters *)

Nothing  == [kind |-> "none"]
Bound(v) == [kind |-> "bound", value |-> v]
Refused  == [kind |-> "refused"]    \* StepInputBindingException
Raised   == [kind |-> "raised"]     \* any other exception

Count(s, c) == Cardinality({i \in DOMAIN s : s[i] = c})

\* str.isnumeric, which the empty string is not.
IsNumeric(s) == s # <<>> /\ ToSet(s) \subseteq Digits \cup {Half}

Strip(s) ==
    LET kept == {i \in DOMAIN s : s[i] # Blank}
    IN  IF kept = {} THEN <<>> ELSE SubSeq(s, Min(kept), Max(kept))

Lower(s) == [i \in DOMAIN s |-> IF s[i] = Capital THEN Letter ELSE s[i]]

\* int(s), which allows blanks around the digits.
IsInt(s) == Strip(s) # <<>> /\ ToSet(Strip(s)) \subseteq Digits
IntOf(s) == FoldLeft(LAMBDA n, d : 10 * n + d, 0, Strip(s))

\* Slip: an answer that is a separator and nothing else is let through.
TooManyOnly(s, sep, count) == Count(s, sep) > count

\* Too many separators, or nothing else; a lone separator has no digits to read.
TooMany(s, sep, count) == Count(s, sep) > count \/ Count(s, sep) = Len(s)

WrongLength(t, s) == Len(s) # Lengths[t]

-----------------------------------------------------------------------------
(* Amounts, in cents *)

Number(s, unit) == IF IsInt(s) THEN Bound(unit * IntOf(s)) ELSE Raised

\* Slip: one digit after the separator counts as cents.
CentsAsTyped(s) == IntOf(s)

\* One digit after the separator counts as tens of cents.
Cents(s) == IF Len(s) = 1 THEN 10 * IntOf(s) ELSE IntOf(s)

\* What is before the separator is dollars, and what is after it cents; after a
\* separator that leads, however many digits there are.
Amount(s, sep) ==
    LET at    == SelectInSeq(s, LAMBDA c : c = sep)     \* 0 when there is none
        whole == SubSeq(s, 1, at - 1)
        cents == SubSeq(s, at + 1, Len(s))
    IN  CASE at = 0                                         -> Number(s, 100)
          [] at = 1                                         -> Number(cents, 1)
          [] at > 1 /\ IsInt(whole) /\ cents = <<>>         -> Number(whole, 100)
          [] at > 1 /\ IsInt(whole) /\ Len(cents) > 2       -> Refused
          [] at > 1 /\ IsInt(whole) /\ IsInt(cents) /\ Len(cents) <= 2
                 -> Bound(100 * IntOf(whole) + Cents(cents))
          [] OTHER                                          -> Raised

CurrencyInput(s) == IF TooMany(s, Star, 1) THEN Refused ELSE Amount(s, Star)

\* A text without the blanks around it, its dollar signs and its commas.
Plain(s) == SelectSeq(Strip(s), LAMBDA c : c \notin {Dollar, Comma})

CurrencyTextInput(s) ==
    LET at    == SelectInSeq(Plain(s), LAMBDA c : c = Point)
        parts == {SubSeq(Plain(s), 1, at - 1), SubSeq(Plain(s), at + 1, Len(Plain(s)))}
    IN  IF TooMany(s, Point, 1) \/ \E part \in parts : part # <<>> /\ ~IsNumeric(part)
            THEN Refused
            ELSE Amount(Plain(s), Point)

-----------------------------------------------------------------------------
(* The other types *)

IntegerInput(s) == IF IsInt(s) THEN Bound(IntOf(s)) ELSE Refused

\* parsed is what dateparser makes of the text: nothing, or a day that is before,
\* within or after the bounds of the type.
DateInput(t, s, parsed) ==
    IF \/ WrongLength(t, s) \/ TooMany(s, Star, 0) \/ parsed = "none"
       \/ t # "DateInput" /\ parsed # "within"
        THEN Refused
        ELSE Bound(parsed)

\* SSNInput and Last4SSNInput
SSNInput(t, s) == IF TooMany(s, Star, 0) \/ WrongLength(t, s) THEN Refused ELSE Bound(s)

Last4CreditCardInput(t, s) == IF IsNumeric(s) THEN SSNInput(t, s) ELSE Refused

PhoneNumberInput(t, s) ==
    IF TooMany(s, Star, 0) \/ WrongLength(t, s) \/ s[1] \in {0, 1} THEN Refused ELSE Bound(s)

ZipCodeInput(t, s) == IF WrongLength(t, s) \/ ~IsNumeric(s) THEN Refused ELSE Bound(s)

\* The action before the first is the last one, as list indices go.
MenuActionInput(s) ==
    IF IsInt(s) /\ IntOf(s) <= MenuSize
        THEN Bound(IF IntOf(s) = 0 THEN MenuSize ELSE IntOf(s))
        ELSE Refused

NumberedMenuActionInput(s) ==
    IF IsInt(s) /\ IntOf(s) \in Numbers THEN Bound(IntOf(s)) ELSE Refused

BindText(t, s, parsed) ==
    CASE t = "StringInput"             -> Bound(s)
      [] t = "TextInput"               -> Bound(Lower(Strip(s)))
      [] t = "IntegerInput"            -> IntegerInput(s)
      [] t \in Dates                   -> DateInput(t, s, parsed)
      [] t = "MenuActionInput"         -> MenuActionInput(s)
      [] t = "NumberedMenuActionInput" -> NumberedMenuActionInput(s)
      [] t \in {"SSNInput", "Last4SSNInput"} -> SSNInput(t, s)
      [] t = "Last4CreditCardInput"    -> Last4CreditCardInput(t, s)
      [] t = "CurrencyInput"           -> CurrencyInput(s)
      [] t = "CurrencyTextInput"       -> CurrencyTextInput(s)
      [] t = "PhoneNumberInput"        -> PhoneNumberInput(t, s)
      [] t = "ZipCodeInput"            -> ZipCodeInput(t, s)

\* Most types refuse None; some go on to use it as a string.
BindNone(t) ==
    CASE t = "StringInput"                              -> Bound(NoInput)
      [] t \in Dates \cup {"TextInput", "IntegerInput"} -> Raised
      [] OTHER                                          -> Refused

Bind(t, s, parsed) == IF s = NoInput THEN BindNone(t) ELSE BindText(t, s, parsed)

\* The first of the types that does not refuse the text.
CompoundStepInput(ts, s, parsed) ==
    LET i == SelectInSeq(ts, LAMBDA t : Bind(t, s, parsed) # Refused)
    IN  IF i = 0 THEN Refused ELSE Bind(ts[i], s, parsed)

-----------------------------------------------------------------------------
(* The step *)

InputsInit == /\ type = "none" /\ typed = NoInput
              /\ outcome = Nothing /\ stored = Nothing

\* A menu has "0", and nothing else that reads as 0, lead to the queue.
MenuOutcome(t, s) ==
    LET bound == Bind(t, s, "none")
    IN  CASE s = <<0>>                                     -> [kind |-> "exit_queue", value |-> 0]
          [] s # <<0>> /\ bound.kind = "bound"             ->
                 [kind |-> IF bound.value \in Replays THEN "replay" ELSE "success",
                  value |-> bound.value]
          [] OTHER                                         -> bound

AnswerOutcome(t, s, parsed) ==
    LET bound == CASE t \in Menus               -> MenuOutcome(t, s)
                   [] t = "CompoundStepInput"   ->
                          CompoundStepInput(<<"BirthdayInput", "SSNInput", "Last4SSNInput">>, s, parsed)
                   [] OTHER                     -> Bind(t, s, parsed)
    IN  CASE bound.kind = "bound"   -> [bound EXCEPT !.kind = "success"]
          [] bound = Refused        -> [kind |-> IF s \in {NoInput, <<>>} THEN "timeout" ELSE "error"]
          [] OTHER                  -> bound

Parsed(t) == IF t \in Dates \cup {"CompoundStepInput"}
                 THEN {"none", "before", "within", "after"} ELSE {"none"}

\* A step with an input key stores the value of an answer it takes.
Answer ==
    /\ outcome = Nothing
    /\ \E t \in InputTypes : \E s \in Answers[t], parsed \in Parsed(t), keyed \in BOOLEAN :
           /\ type' = t /\ typed' = s
           /\ outcome' = AnswerOutcome(t, s, parsed)
           /\ stored' = IF keyed /\ "value" \in DOMAIN outcome' THEN Bound(outcome'.value) ELSE stored

-----------------------------------------------------------------------------
(* Properties *)

\* s is an amount with its first w characters before the separator.
IsAmount(s, sep, w) ==
    /\ w \in 1 .. Len(s) /\ Len(s) <= w + 3
    /\ \A i \in DOMAIN s : IF i = w + 1 THEN s[i] = sep ELSE s[i] \in Digits

\* Its worth in cents, place by place.
Worth(s, w) ==
    LET place(i) == IF i <= w THEN w - i + 2 ELSE w + 3 - i
    IN  MapThenSumSet(LAMBDA i : s[i] * 10 ^ place(i), DOMAIN s \ {w + 1})

\* An amount is stored for what it is worth: dollars, and up to two digits of cents
\* after the separator, are read place by place.  Nothing else is taken for an
\* amount, except digits after a separator that leads, which "is just cents"
\* (CurrencyInput.bind, CurrencyTextInput.bind).
AmountsReadAsWritten ==
    \A t \in {"CurrencyInput", "CurrencyTextInput"} :
        type = t /\ typed # NoInput =>
            LET sep  == IF t = "CurrencyInput" THEN Star ELSE Point
                s    == IF t = "CurrencyInput" THEN typed ELSE Plain(typed)
                ways == {w \in DOMAIN s : IsAmount(s, sep, w)}
            IN  /\ \A w \in ways : w = Len(s) \/ s[w + 1] = sep =>
                       outcome = [kind |-> "success", value |-> Worth(s, w)]
                /\ outcome.kind = "success" /\ ways = {} =>
                       s[1] = sep /\ outcome.value = IntOf(Tail(s))
                /\ stored # Nothing => outcome = [kind |-> "success", value |-> stored.value]

\* Whatever a contact types is taken or asked for again, and does not fail the
\* request, except where a date, a number or a text is asked for and there is no
\* input at all, and where an amount is asked for in a text that has no digit, or
\* a numeric character that is none.  A menu takes only what is listed, and what
\* times out is not taken for an answer (input_step_run_strategy).
BindsOrRefuses ==
    /\ outcome.kind = "raised" =>
         \/ typed = NoInput /\ type \in Dates \cup {"TextInput", "IntegerInput", "CompoundStepInput"}
         \/ type = "CurrencyTextInput" /\ (ToSet(typed) \cap Digits = {} \/ Half \in ToSet(typed))
    /\ type \in Menus /\ outcome.kind \in {"success", "replay"} =>
         outcome.value \in (IF type = "MenuActionInput" THEN 1 .. MenuSize ELSE Numbers)
    /\ typed \in {NoInput, <<>>} /\ type \notin {"StringInput", "TextInput"} =>
         outcome.kind # "success"
=============================================================================
