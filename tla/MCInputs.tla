------------------------------ MODULE MCInputs ------------------------------
(***************************************************************************)
(* Both ends of a request for TLC: what becomes of an answer, and the texts *)
(* of a response.  Neither reads the state of the other, so that only one   *)
(* of them moves in a behaviour.                                            *)
(***************************************************************************)
EXTENDS Inputs, TextChunks

Texts(characters, length) == UNION {[1 .. n -> characters] : n \in 0 .. length}

MCLengths ==
    [t \in {"SSNInput", "PhoneNumberInput", "ZipCodeInput"} \cup Dates |-> 3]
      @@ [t \in {"Last4SSNInput", "Last4CreditCardInput"} |-> 2]

MCAnswers ==
    [t \in DOMAIN MCLengths \cup {"StringInput", "IntegerInput", "CompoundStepInput"} |->
        Texts({0, 1, 2, Star}, 4) \cup {NoInput}]
      @@ ("CurrencyInput" :> Texts({0, 5, Star}, 6) \cup {NoInput})
      @@ ("CurrencyTextInput" :> Texts({5, Point, Dollar, Comma, Blank}, 5) \cup {NoInput}
              \cup Texts({5, Point, Half, Letter}, 4) \cup Texts({0, 3, Point}, 6))
      @@ ("TextInput" :> Texts({Letter, Capital, Blank}, 4) \cup {NoInput})
      @@ ("MenuActionInput" :> Texts({0, 1, 2, 3, Star, Blank}, 3) \cup {NoInput})
      @@ ("NumberedMenuActionInput" :> Texts({0, 1, 2, 3, Half, Blank}, 3) \cup {NoInput})

MCNumbers == {1, 3}
MCReplays == {1}

Init == InputsInit /\ TextsInit

Next == \/ TextsInit /\ Answer /\ UNCHANGED textVars
        \/ InputsInit /\ TextsNext /\ UNCHANGED inputVars

Spec == Init /\ [][Next]_<<inputVars, textVars>>
=============================================================================
