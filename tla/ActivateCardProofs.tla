------------------------- MODULE ActivateCardProofs --------------------------
(***************************************************************************)
(* A card is activated only with digits the caller has confirmed, and a     *)
(* caller leaves as the lookups found, for every number of requests and of  *)
(* requests that are cut short.  The tree is the one the program ships: its *)
(* branches are first told by where each of their steps leads, the way the  *)
(* run takes through them follows from what the engine does on any tree,    *)
(* and the fields of the session are followed along that way.               *)
(***************************************************************************)
EXTENDS ActivateCard, EngineHistoryProofs

-----------------------------------------------------------------------------
(* The tree *)

\* A template, by all its fields.
Fields(n, ty, ex, re, sw, rc, rp, ta) ==
    [name |-> n, type |-> ty, exit |-> ex, reset_to |-> re, switch_to |-> sw,
     retry_count |-> rc, replayable |-> rp, targets |-> ta]

\* What a template is when only the fields that say where it leads are told.
IsStep(t, n, ty, ex, re, sw, ta) == \E rc, rp : t = Fields(n, ty, ex, re, sw, rc, rp, ta)

\* Such a template has those fields.
LEMMA FieldsOf ==
    ASSUME NEW t, NEW n, NEW ty, NEW ex, NEW re, NEW sw, NEW ta, IsStep(t, n, ty, ex, re, sw, ta)
    PROVE  /\ t.name = n /\ t.type = ty /\ t.exit = ex
           /\ t.reset_to = re /\ t.switch_to = sw /\ t.targets = ta
BY DEF IsStep, Fields

\* A step as it is written down leads nowhere in particular.
LEMMA StepFields ==
    ASSUME NEW n, NEW ty
    PROVE  IsStep(Step(n, ty), n, ty, NoExit, NoStep, NoBranch, {})
BY DEF IsStep, Fields, Step

\* What is written after it changes the one field.
LEMMA Changed ==
    ASSUME NEW t, NEW n, NEW ty, NEW ex, NEW re, NEW sw, NEW ta, IsStep(t, n, ty, ex, re, sw, ta),
           NEW x
    PROVE  /\ IsStep(OnError(t, x), n, ty, ex, re, x, ta)
           /\ IsStep(BackTo(t, x), n, ty, ex, x, sw, ta)
           /\ IsStep(Leaving(t, x), n, ty, x, re, sw, ta)
           /\ IsStep([t EXCEPT !.targets = x], n, ty, ex, re, sw, x)
<1>1. PICK rc, rp : t = Fields(n, ty, ex, re, sw, rc, rp, ta)
  BY DEF IsStep
<1>2. /\ OnError(t, x) = Fields(n, ty, ex, re, x, rc, rp, ta)
      /\ BackTo(t, x) = Fields(n, ty, ex, x, sw, rc, rp, ta)
      /\ Leaving(t, x) = Fields(n, ty, x, re, sw, rc, rp, ta)
      /\ [t EXCEPT !.targets = x] = Fields(n, ty, ex, re, sw, rc, rp, x)
  BY <1>1 DEF Fields, OnError, BackTo, Leaving
<1> QED BY <1>2 DEF IsStep

\* A step that branches leads to its targets.
LEMMA BranchingFields ==
    ASSUME NEW n, NEW ty, NEW ta
    PROVE  IsStep(Branching(n, ty, ta), n, ty, NoExit, NoStep, NoBranch, ta)
<1>1. PICK t : t = Step(n, ty)
  OBVIOUS
<1>2. IsStep(t, n, ty, NoExit, NoStep, NoBranch, {})
  BY <1>1, StepFields
<1>3. Branching(n, ty, ta) = [t EXCEPT !.targets = ta]
  BY <1>1, Zenon DEF Branching
<1> QED BY <1>2, <1>3, Changed

\* A branch in which the caller enters digits and confirms them.
LEMMA EntryShape ==
    ASSUME NEW enter, NEW confirm, NEW decide, NEW next
    PROVE  \E s, t, u :
             /\ Entry(enter, confirm, decide, next) = Branch(<<s, t, u>>)
             /\ IsStep(s, enter, "InputStep", NoExit, NoStep, "customer_info_input_failed_transfer", {})
             /\ IsStep(t, confirm, "ConfirmationStep", NoExit, NoStep, NoBranch, {})
             /\ IsStep(u, decide, "BranchMapWorkflowStep", NoExit, enter,
                       "customer_info_input_failed_transfer", {next, NoBranch})
<1> DEFINE failed == "customer_info_input_failed_transfer"
           s0 == Step(enter, "InputStep")
           t  == Step(confirm, "ConfirmationStep")
           u0 == Branching(decide, "BranchMapWorkflowStep", {next, NoBranch})
           s  == OnError(s0, failed)
           u1 == BackTo(u0, enter)
           u  == OnError(u1, failed)
<1>1. IsStep(s0, enter, "InputStep", NoExit, NoStep, NoBranch, {})
  BY StepFields
<1>2. IsStep(t, confirm, "ConfirmationStep", NoExit, NoStep, NoBranch, {})
  BY StepFields
<1>3. IsStep(u0, decide, "BranchMapWorkflowStep", NoExit, NoStep, NoBranch, {next, NoBranch})
  BY BranchingFields
<1> HIDE DEF s0, u0
<1>4. IsStep(s, enter, "InputStep", NoExit, NoStep, failed, {})
  BY <1>1, Changed
<1>5. IsStep(u1, decide, "BranchMapWorkflowStep", NoExit, enter, NoBranch, {next, NoBranch})
  BY <1>3, Changed
<1> HIDE DEF u1
<1>6. IsStep(u, decide, "BranchMapWorkflowStep", NoExit, enter, failed, {next, NoBranch})
  BY <1>5, Changed
<1>7. Entry(enter, confirm, decide, next) = Branch(<<s, t, u>>)
  BY DEF Entry, s0, u0, u1
<1> HIDE DEF s, t, u
<1> QED BY <1>2, <1>4, <1>6, <1>7

\* A branch that looks an account up.
LEMMA LookUpShape ==
    ASSUME NEW lookup, NEW missing
    PROVE  \E s, t :
             /\ LookUpBranch(lookup, missing) = Branch(<<s, t>>)
             /\ IsStep(s, lookup, "AddFieldToWorkflowSessionStep", NoExit, NoStep, NoBranch, {})
             /\ IsStep(t, "branch-on-lookup-error", "BranchMapWorkflowStep", NoExit, NoStep, NoBranch,
                       {missing, "get_customer_card_last_four"})
BY StepFields, BranchingFields DEF LookUpBranch

\* The branch that activates the card.
LEMMA ActivationShape ==
    \E s, t :
       /\ CardActivation = Branch(<<s, t>>)
       /\ IsStep(s, "activate-card", "CallExternalServiceStep", NoExit, NoStep, "card_activation_failed", {})
       /\ IsStep(t, "play-card-activation-succeeded-message", "PlayMessageStep", "HangUp",
                 NoStep, NoBranch, {})
<1>1. PICK s0 : s0 = Step("activate-card", "CallExternalServiceStep")
  OBVIOUS
<1>2. PICK t0 : t0 = Step("play-card-activation-succeeded-message", "PlayMessageStep")
  OBVIOUS
<1>3. PICK s : s = OnError(s0, "card_activation_failed")
  OBVIOUS
<1>4. PICK t : t = Leaving(t0, "HangUp")
  OBVIOUS
<1>5. IsStep(s, "activate-card", "CallExternalServiceStep", NoExit, NoStep, "card_activation_failed", {})
  BY <1>1, <1>3, StepFields, Changed
<1>6. IsStep(t, "play-card-activation-succeeded-message", "PlayMessageStep", "HangUp", NoStep, NoBranch, {})
  BY <1>2, <1>4, StepFields, Changed
<1>7. CardActivation = Branch(<<s, t>>)
  BY <1>1, <1>2, <1>3, <1>4 DEF CardActivation
<1> QED BY <1>5, <1>6, <1>7

\* A branch that hands the caller over.
LEMMA HandOverShape ==
    \E s :
       /\ ToCustomerService = Branch(<<s>>)
       /\ IsStep(s, "connect-to-customer-service-message", "PlayMessageStep", "CurrentQueue",
                 NoStep, NoBranch, {})
<1>1. PICK s0 : s0 = Step("connect-to-customer-service-message", "PlayMessageStep")
  OBVIOUS
<1>2. PICK s : s = Leaving(s0, "CurrentQueue")
  OBVIOUS
<1>3. IsStep(s, "connect-to-customer-service-message", "PlayMessageStep", "CurrentQueue", NoStep, NoBranch, {})
  BY <1>1, <1>2, StepFields, Changed
<1> QED BY <1>1, <1>2, <1>3 DEF ToCustomerService

\* The branches that hand the caller over.
HandOvers == {"card_activation_failed", "customer_lookup_with_session_failed",
              "customer_info_input_failed_transfer"}

\* The branch a caller is taken to when an account was found.
Found == "get_customer_card_last_four"

\* The branches, by their steps.
LEMMA TreeShape ==
    /\ DOMAIN ActivateCardTree =
          {"root", "get_customer_card_last_four", "get_customer_ssn_last_four", "get_customer_phone_number",
           "customer_lookup_with_session", "card_activation"} \cup HandOvers
    /\ ActivateCardTree["root"] = LookUpBranch("get-card-id", "get_customer_phone_number")
    /\ ActivateCardTree["customer_lookup_with_session"] =
          LookUpBranch("customer-lookup-with-session-phone-number", "customer_lookup_with_session_failed")
    /\ ActivateCardTree["get_customer_card_last_four"] = CardEntry
    /\ ActivateCardTree["get_customer_ssn_last_four"] = SsnEntry
    /\ ActivateCardTree["get_customer_phone_number"] = PhoneEntry
    /\ ActivateCardTree["card_activation"] = CardActivation
    /\ \A b \in HandOvers : ActivateCardTree[b] = ToCustomerService
BY DEF ActivateCardTree, HandOvers

\* The step that follows a step on its branch.
Following ==
    {<<"get-card-id", "branch-on-lookup-error">>,
     <<"customer-lookup-with-session-phone-number", "branch-on-lookup-error">>,
     <<"enter-phone-number", "confirm-phone-number">>,
     <<"confirm-phone-number", "reset-if-phone-number-incorrect">>,
     <<"enter-card-last-4", "confirm-card-last-4">>,
     <<"confirm-card-last-4", "reset-if-card-incorrect">>,
     <<"enter-ssn", "confirm-ssn">>,
     <<"confirm-ssn", "reset-if-ssn-incorrect">>,
     <<"activate-card", "play-card-activation-succeeded-message">>}

\* The branches a step may lead to.
Leading ==
    {<<"branch-on-lookup-error", "get_customer_phone_number">>,
     <<"branch-on-lookup-error", "customer_lookup_with_session_failed">>,
     <<"branch-on-lookup-error", "get_customer_card_last_four">>,
     <<"reset-if-phone-number-incorrect", "customer_lookup_with_session">>,
     <<"reset-if-card-incorrect", "get_customer_ssn_last_four">>,
     <<"reset-if-ssn-incorrect", "card_activation">>}

\* The step that a step sends the caller back to.
Resetting ==
    {<<"reset-if-phone-number-incorrect", "enter-phone-number">>,
     <<"reset-if-card-incorrect", "enter-card-last-4">>,
     <<"reset-if-ssn-incorrect", "enter-ssn">>}

\* Where the steps of the tree lead.
Fits(b, i) ==
    LET t == Tree[b].steps[i] IN
    /\ t.name \in DOMAIN KeyConfirmed => t.type = "ConfirmationStep"
    /\ t.name \in Lookups => t.type = "AddFieldToWorkflowSessionStep"
    /\ t.name \in DOMAIN KeyDecided \cup {"branch-on-lookup-error"} <=> IsBranch(t)
    /\ IsBranch(t) => t.type = "BranchMapWorkflowStep"
    /\ i + 1 \in DOMAIN Tree[b].steps => <<t.name, Tree[b].steps[i + 1].name>> \in Following
    /\ \A c \in t.targets \ {NoBranch} : c # b /\ <<t.name, c>> \in Leading
    /\ t.switch_to # NoBranch => t.switch_to # b /\ t.switch_to \in HandOvers
    /\ t.reset_to # NoStep => <<t.name, t.reset_to>> \in Resetting
    /\ t.exit = "HangUp" <=> t.name = "play-card-activation-succeeded-message"
    /\ t.exit \in {NoExit, "HangUp", "CurrentQueue"}

\* The first step of each branch.
Starting ==
    {<<"root", "get-card-id">>,
     <<"get_customer_card_last_four", "enter-card-last-4">>,
     <<"get_customer_ssn_last_four", "enter-ssn">>,
     <<"get_customer_phone_number", "enter-phone-number">>,
     <<"customer_lookup_with_session", "customer-lookup-with-session-phone-number">>,
     <<"card_activation", "activate-card">>}
        \cup {<<b, "connect-to-customer-service-message">> : b \in HandOvers}

\* A branch of the tree, at its first step and at each of its steps.
FitsBranch(b) ==
    /\ Tree[b].reset_on_switch
    /\ <<b, Tree[b].steps[1].name>> \in Starting
    /\ \A i \in DOMAIN Tree[b].steps : Fits(b, i)

\* The steps that enter, confirm and decide, and the keys they do it for.
LEMMA KeyNames ==
    /\ DOMAIN KeyEntered = {"enter-phone-number", "enter-card-last-4", "enter-ssn"}
    /\ DOMAIN KeyConfirmed = {"confirm-phone-number", "confirm-card-last-4", "confirm-ssn"}
    /\ DOMAIN KeyDecided = {"reset-if-phone-number-incorrect", "reset-if-card-incorrect",
                            "reset-if-ssn-incorrect"}
BY Zenon DEF KeyEntered, KeyConfirmed, KeyDecided

\* Each key is entered, confirmed and decided upon by a step of its own.
LEMMA KeyValues ==
    /\ KeyEntered["enter-phone-number"] = "input_phone_number"
    /\ KeyEntered["enter-card-last-4"] = "card_last_4"
    /\ KeyEntered["enter-ssn"] = "ssn_last_4"
    /\ KeyConfirmed["confirm-phone-number"] = "input_phone_number"
    /\ KeyConfirmed["confirm-card-last-4"] = "card_last_4"
    /\ KeyConfirmed["confirm-ssn"] = "ssn_last_4"
    /\ KeyDecided["reset-if-phone-number-incorrect"] = "input_phone_number"
    /\ KeyDecided["reset-if-card-incorrect"] = "card_last_4"
    /\ KeyDecided["reset-if-ssn-incorrect"] = "ssn_last_4"
BY Zenon DEF KeyEntered, KeyConfirmed, KeyDecided

\* The branches in which digits are entered are as the tables say,
LEMMA EntryFits ==
    ASSUME Tree = ActivateCardTree, NEW b \in ActivateCardBranches, b \notin HandOvers,
           NEW enter \in DOMAIN KeyEntered, NEW confirm \in DOMAIN KeyConfirmed,
           NEW decide \in DOMAIN KeyDecided, NEW next,
           Tree[b] = Entry(enter, confirm, decide, next),
           next # b, <<b, enter>> \in Starting,
           <<enter, confirm>> \in Following, <<confirm, decide>> \in Following,
           <<decide, next>> \in Leading, <<decide, enter>> \in Resetting
    PROVE  FitsBranch(b)
<1>1. PICK s, t, u :
             /\ Entry(enter, confirm, decide, next) = Branch(<<s, t, u>>)
             /\ IsStep(s, enter, "InputStep", NoExit, NoStep, "customer_info_input_failed_transfer", {})
             /\ IsStep(t, confirm, "ConfirmationStep", NoExit, NoStep, NoBranch, {})
             /\ IsStep(u, decide, "BranchMapWorkflowStep", NoExit, enter,
                       "customer_info_input_failed_transfer", {next, NoBranch})
  BY EntryShape
<1>2. /\ Tree[b].steps = <<s, t, u>> /\ Tree[b].reset_on_switch
  BY <1>1 DEF Branch
<1>s. /\ s.name = enter /\ s.type = "InputStep" /\ s.exit = NoExit /\ s.reset_to = NoStep
      /\ s.switch_to = "customer_info_input_failed_transfer" /\ s.targets = {}
  BY <1>1, FieldsOf
<1>t. /\ t.name = confirm /\ t.type = "ConfirmationStep" /\ t.exit = NoExit /\ t.reset_to = NoStep
      /\ t.switch_to = NoBranch /\ t.targets = {}
  BY <1>1, FieldsOf
<1>u. /\ u.name = decide /\ u.type = "BranchMapWorkflowStep" /\ u.exit = NoExit /\ u.reset_to = enter
      /\ u.switch_to = "customer_info_input_failed_transfer" /\ u.targets = {next, NoBranch}
  BY <1>1, FieldsOf
<1>3. DOMAIN Tree[b].steps = 1 .. 3 /\ Tree[b].steps[1] = s /\ Tree[b].steps[2] = t /\ Tree[b].steps[3] = u
  BY <1>2
<1>e. 3 + 1 \notin DOMAIN Tree[b].steps
  BY <1>3
<1>4. /\ Tree[b].steps[1].name = enter /\ Tree[b].steps[1 + 1].name = confirm
      /\ Tree[b].steps[2].name = confirm /\ Tree[b].steps[2 + 1].name = decide
  BY <1>3, <1>s, <1>t, <1>u
<1>5. /\ <<Tree[b].steps[1].name, Tree[b].steps[1 + 1].name>> \in Following
      /\ <<Tree[b].steps[2].name, Tree[b].steps[2 + 1].name>> \in Following
  BY <1>4, Zenon
<1>6. Fits(b, 1)
  BY <1>2, <1>3, <1>s, <1>5, KeyNames
     DEF Fits, HandOvers, Lookups, IsBranch, BranchTypes, NoBranch, NoStep, NoExit
<1>7. Fits(b, 2)
  BY <1>2, <1>3, <1>t, <1>5, KeyNames
     DEF Fits, HandOvers, Lookups, IsBranch, BranchTypes, NoBranch, NoStep, NoExit
<1>8. Fits(b, 3)
  <2>1. \A c \in u.targets \ {NoBranch} : c # b /\ <<u.name, c>> \in Leading
    <3>1. SUFFICES ASSUME NEW c \in u.targets \ {NoBranch} PROVE c # b /\ <<u.name, c>> \in Leading
      OBVIOUS
    <3>2. c = next
      BY <1>u, <3>1
    <3> QED BY <1>u, <3>2, Zenon
  <2>2. <<u.name, u.reset_to>> \in Resetting
    BY <1>u, Zenon
  <2> QED BY <1>2, <1>3, <1>u, <2>1, <2>2, <1>e, KeyNames
          DEF Fits, HandOvers, Lookups, IsBranch, BranchTypes, NoBranch, NoStep, NoExit
<1>9. \A i \in 1 .. 3 : i = 1 \/ i = 2 \/ i = 3
  OBVIOUS
<1> QED BY <1>2, <1>3, <1>s, <1>6, <1>7, <1>8, <1>9 DEF FitsBranch

\* those that look an account up,
LEMMA LookUpFits ==
    ASSUME Tree = ActivateCardTree, NEW b \in ActivateCardBranches, b \notin HandOvers,
           NEW lookup \in Lookups, NEW missing, Tree[b] = LookUpBranch(lookup, missing),
           <<b, lookup>> \in Starting, b # Found, missing # b,
           <<lookup, "branch-on-lookup-error">> \in Following,
           <<"branch-on-lookup-error", missing>> \in Leading
    PROVE  FitsBranch(b)
<1>1. PICK s, t :
             /\ LookUpBranch(lookup, missing) = Branch(<<s, t>>)
             /\ IsStep(s, lookup, "AddFieldToWorkflowSessionStep", NoExit, NoStep, NoBranch, {})
             /\ IsStep(t, "branch-on-lookup-error", "BranchMapWorkflowStep", NoExit, NoStep, NoBranch,
                       {missing, "get_customer_card_last_four"})
  BY LookUpShape
<1>2. /\ Tree[b].steps = <<s, t>> /\ Tree[b].reset_on_switch
  BY <1>1 DEF Branch
<1>s. /\ s.name = lookup /\ s.type = "AddFieldToWorkflowSessionStep" /\ s.exit = NoExit
      /\ s.reset_to = NoStep /\ s.switch_to = NoBranch /\ s.targets = {}
  BY <1>1, FieldsOf
<1>t. /\ t.name = "branch-on-lookup-error" /\ t.type = "BranchMapWorkflowStep" /\ t.exit = NoExit
      /\ t.reset_to = NoStep /\ t.switch_to = NoBranch
      /\ t.targets = {missing, "get_customer_card_last_four"}
  BY <1>1, FieldsOf
<1>3. DOMAIN Tree[b].steps = 1 .. 2 /\ Tree[b].steps[1] = s /\ Tree[b].steps[2] = t
  BY <1>2
<1>e. 2 + 1 \notin DOMAIN Tree[b].steps
  BY <1>3
<1>4. Tree[b].steps[1].name = lookup /\ Tree[b].steps[1 + 1].name = "branch-on-lookup-error"
  BY <1>3, <1>s, <1>t
<1>5. <<Tree[b].steps[1].name, Tree[b].steps[1 + 1].name>> \in Following
  BY <1>4, Zenon
<1>6. Fits(b, 1)
  BY <1>2, <1>3, <1>s, <1>5, KeyNames
     DEF Fits, HandOvers, Lookups, IsBranch, BranchTypes, NoBranch, NoStep, NoExit
<1>7. Fits(b, 2)
  <2>1. \A c \in t.targets \ {NoBranch} : c # b /\ <<t.name, c>> \in Leading
    <3>1. SUFFICES ASSUME NEW c \in t.targets \ {NoBranch} PROVE c # b /\ <<t.name, c>> \in Leading
      OBVIOUS
    <3>2. c = missing \/ c = Found
      BY <1>t, <3>1 DEF Found
    <3>3. <<t.name, missing>> \in Leading
      BY <1>t, Zenon
    <3>4. <<t.name, Found>> \in Leading
      BY <1>t DEF Leading, Found
    <3> QED BY <3>2, <3>3, <3>4, Zenon
  <2> QED BY <1>2, <1>3, <1>t, <2>1, <1>e, KeyNames
          DEF Fits, HandOvers, Lookups, IsBranch, BranchTypes, NoBranch, NoStep, NoExit
<1>8. \A i \in 1 .. 2 : i = 1 \/ i = 2
  OBVIOUS
<1> QED BY <1>2, <1>3, <1>s, <1>6, <1>7, <1>8 DEF FitsBranch

\* the one that activates the card,
LEMMA ActivationFits ==
    ASSUME Tree["card_activation"] = CardActivation
    PROVE  FitsBranch("card_activation")
<1>b. PICK b : b = "card_activation"
  OBVIOUS
<1>1. PICK s, t :
       /\ CardActivation = Branch(<<s, t>>)
       /\ IsStep(s, "activate-card", "CallExternalServiceStep", NoExit, NoStep, "card_activation_failed", {})
       /\ IsStep(t, "play-card-activation-succeeded-message", "PlayMessageStep", "HangUp",
                 NoStep, NoBranch, {})
  BY ActivationShape
<1>2. /\ Tree[b].steps = <<s, t>> /\ Tree[b].reset_on_switch
  BY <1>b, <1>1 DEF Branch
<1>s. /\ s.name = "activate-card" /\ s.type = "CallExternalServiceStep" /\ s.exit = NoExit
      /\ s.reset_to = NoStep /\ s.switch_to = "card_activation_failed" /\ s.targets = {}
  BY <1>1, FieldsOf
<1>t. /\ t.name = "play-card-activation-succeeded-message" /\ t.type = "PlayMessageStep"
      /\ t.exit = "HangUp" /\ t.reset_to = NoStep /\ t.switch_to = NoBranch /\ t.targets = {}
  BY <1>1, FieldsOf
<1>3. DOMAIN Tree[b].steps = 1 .. 2 /\ Tree[b].steps[1] = s /\ Tree[b].steps[2] = t
  BY <1>2
<1>e. 2 + 1 \notin DOMAIN Tree[b].steps
  BY <1>3
<1>4. Tree[b].steps[1].name = "activate-card" /\ Tree[b].steps[1 + 1].name = "play-card-activation-succeeded-message"
  BY <1>3, <1>s, <1>t
<1>5. <<Tree[b].steps[1].name, Tree[b].steps[1 + 1].name>> \in Following
  BY <1>4 DEF Following
<1>6. Fits(b, 1)
  BY <1>b, <1>2, <1>3, <1>s, <1>5, KeyNames
     DEF Fits, HandOvers, Lookups, IsBranch, BranchTypes, NoBranch, NoStep, NoExit
<1>7. Fits(b, 2)
  BY <1>b, <1>2, <1>3, <1>t, <1>e, KeyNames
     DEF Fits, HandOvers, Lookups, IsBranch, BranchTypes, NoBranch, NoStep, NoExit
<1>8. <<b, "activate-card">> \in Starting
  BY <1>b DEF Starting
<1>9. \A i \in 1 .. 2 : i = 1 \/ i = 2
  OBVIOUS
<1> QED BY <1>b, <1>2, <1>3, <1>s, <1>6, <1>7, <1>8, <1>9 DEF FitsBranch

\* and those that hand the caller over.
LEMMA HandOverFits ==
    ASSUME NEW b \in HandOvers, Tree[b] = ToCustomerService
    PROVE  FitsBranch(b)
<1>1. PICK s :
       /\ ToCustomerService = Branch(<<s>>)
       /\ IsStep(s, "connect-to-customer-service-message", "PlayMessageStep", "CurrentQueue",
                 NoStep, NoBranch, {})
  BY HandOverShape
<1>2. Tree[b].steps = <<s>> /\ Tree[b].reset_on_switch
  BY <1>1 DEF Branch
<1>s. /\ s.name = "connect-to-customer-service-message" /\ s.type = "PlayMessageStep"
      /\ s.exit = "CurrentQueue" /\ s.reset_to = NoStep /\ s.switch_to = NoBranch /\ s.targets = {}
  BY <1>1, FieldsOf
<1>3. DOMAIN Tree[b].steps = 1 .. 1 /\ Tree[b].steps[1] = s
  BY <1>2
<1>e. 1 + 1 \notin DOMAIN Tree[b].steps
  BY <1>3
<1>4. Fits(b, 1)
  BY <1>2, <1>3, <1>s, <1>e, KeyNames
     DEF Fits, Lookups, IsBranch, BranchTypes, NoBranch, NoStep, NoExit
<1>5. <<b, "connect-to-customer-service-message">> \in Starting
  BY DEF Starting
<1> QED BY <1>2, <1>3, <1>s, <1>4, <1>5 DEF FitsBranch

\* So every branch of the tree is.
LEMMA TreeFits ==
    ASSUME Tree = ActivateCardTree
    PROVE  \A b \in DOMAIN Tree : FitsBranch(b)
<1>1. FitsBranch("root")
  BY TreeShape, LookUpFits
     DEF HandOvers, Lookups, Found, Starting, Following, Leading, ActivateCardBranches
<1>2. FitsBranch("customer_lookup_with_session")
  BY TreeShape, LookUpFits
     DEF HandOvers, Lookups, Found, Starting, Following, Leading, ActivateCardBranches
<1>3. FitsBranch("get_customer_card_last_four")
  BY TreeShape, EntryFits, KeyNames
     DEF CardEntry, HandOvers, Starting, Following, Leading, Resetting, ActivateCardBranches
<1>4. FitsBranch("get_customer_ssn_last_four")
  BY TreeShape, EntryFits, KeyNames
     DEF SsnEntry, HandOvers, Starting, Following, Leading, Resetting, ActivateCardBranches
<1>5. FitsBranch("get_customer_phone_number")
  BY TreeShape, EntryFits, KeyNames
     DEF PhoneEntry, HandOvers, Starting, Following, Leading, Resetting, ActivateCardBranches
<1>6. FitsBranch("card_activation")
  BY TreeShape, ActivationFits
<1>7. \A b \in HandOvers : FitsBranch(b)
  BY TreeShape, HandOverFits
<1> QED BY <1>1, <1>2, <1>3, <1>4, <1>5, <1>6, <1>7, TreeShape

-----------------------------------------------------------------------------
(* From step to step *)

\* The steps of this tree that the run can be at after it was at step n.
Goes(n, m) ==
    \/ m = n
    \/ pc = "handle" /\ result.kind = "success" /\ <<n, m>> \in Following
    \/ /\ pc = "handle" /\ result.kind = "success"
       /\ <<n, result.branch>> \in Leading /\ <<result.branch, m>> \in Starting
    \/ m = "connect-to-customer-service-message"
    \/ <<n, m>> \in Resetting

\* The template of a step on the branch the run is on.
LEMMA Placed ==
    ASSUME Tree = ActivateCardTree, wsrs # <<>>, HasStep(branch, Current.name)
    PROVE  /\ FitsBranch(branch) /\ branch \in DOMAIN Tree
           /\ IndexOf(branch, Current.name) \in DOMAIN Tree[branch].steps
           /\ CurrentStep = Tree[branch].steps[IndexOf(branch, Current.name)]
           /\ CurrentStep.name = Current.name
           /\ Fits(branch, IndexOf(branch, Current.name))
BY TreeFits, IndexOfFirst DEF FitsBranch, CurrentStep, Template

\* Whatever step the engine takes, the run goes along the tree or stays.
LEMMA GoesNext ==
    ASSUME Tree = ActivateCardTree, EngineInv, SkipInv, [Next]_vars, wsrs # <<>>,
           NEW n, n = Current.name, NEW m, m = Current'.name
    PROVE  wsrs' # <<>> /\ Goes(n, m)
<1>1. wsrs' # <<>> /\ Moves
  BY StepMoves, ActivationTreeIsSound
<1>2. CASE m = n
  BY <1>1, <1>2 DEF Goes
<1>3. ASSUME pc = "handle", Follows \/ Branches \/ Switches \/ GoesBack PROVE Goes(n, m)
  <2>1. wsrs # <<>> /\ HasStep(branch, n) /\ result \in Outcomes(CurrentStep)
    BY <1>3 DEF EngineInv, AtStep
  <2>i. PICK i : i = IndexOf(branch, n)
    OBVIOUS
  <2>t. PICK t : t = CurrentStep
    OBVIOUS
  <2>2. /\ Fits(branch, i) /\ i \in DOMAIN Tree[branch].steps
        /\ t = Tree[branch].steps[i] /\ t.name = n
    BY <2>1, <2>i, <2>t, Placed
  <2>3. \A b : b # branch /\ Enters(b) => <<b, m>> \in Starting
    BY TreeFits DEF Enters, ComesNext, FitsBranch
  <2>4. CASE Follows
    <3>1. i + 1 \in DOMAIN Tree[branch].steps /\ m = Tree[branch].steps[i + 1].name
      BY <2>4, <2>i DEF Follows
    <3>2. <<n, m>> \in Following
      BY <2>2, <3>1 DEF Fits
    <3> QED BY <1>3, <2>4, <3>2 DEF Follows, Goes
  <2>5. CASE Branches
    <3>1. IsBranch(t) /\ result.kind = "success" /\ Enters(result.branch)
      BY <2>5, <2>t DEF Branches
    <3>2. t.type = "BranchMapWorkflowStep"
      BY <2>2, <3>1 DEF Fits
    <3>3. result.branch \in t.targets \ {NoBranch}
      BY <2>1, <2>t, <3>1, <3>2, MapLeads
    <3>4. result.branch # branch /\ <<n, result.branch>> \in Leading
      BY <2>2, <3>3 DEF Fits
    <3> QED BY <1>3, <2>3, <3>1, <3>4 DEF Goes
  <2>6. CASE Switches
    <3>1. t.switch_to # NoBranch /\ Enters(t.switch_to)
      BY <2>6, <2>t DEF Switches
    <3>2. t.switch_to # branch /\ t.switch_to \in HandOvers
      BY <2>2, <3>1 DEF Fits
    <3>3. <<t.switch_to, m>> \in Starting
      BY <2>3, <3>1, <3>2
    <3>4. m = "connect-to-customer-service-message"
      BY <3>2, <3>3 DEF Starting, HandOvers
    <3> QED BY <3>4 DEF Goes
  <2>7. CASE GoesBack
    <3>1. m = IF t.reset_to = NoStep THEN n ELSE t.reset_to
      BY <2>7, <2>t DEF GoesBack, RetryStep
    <3> QED BY <2>2, <3>1 DEF Fits, Goes
  <2> QED BY <1>3, <2>4, <2>5, <2>6, <2>7
<1> QED BY <1>1, <1>2, <1>3 DEF Moves

\* The first step the run is at looks the account up by the number of the call.
LEMMA FirstStepNamed ==
    ASSUME Tree = ActivateCardTree, EngineInv, [Next]_vars, wsrs = <<>>, wsrs' # <<>>
    PROVE  Current'.name = "get-card-id"
<1>1. FitsBranch("root")
  BY TreeFits, TreeAssumption DEF Root
<1>2. Tree["root"].steps[1].name = "get-card-id"
  BY <1>1 DEF FitsBranch, Starting, HandOvers
<1> QED BY <1>2, StartsAtRoot DEF Root

-----------------------------------------------------------------------------
(* What the caller has agreed to *)

\* The steps that are reached only with a card the caller has confirmed.
AfterCard == {"enter-ssn", "confirm-ssn", "reset-if-ssn-incorrect", "activate-card",
              "play-card-activation-succeeded-message"}

\* From a confirmation on, the digits are agreed to when the answer that is stored
\* says so, and the caller gets past the decision with no other answer.
AgreedAt(n) ==
    /\ n \in DOMAIN KeyDecided /\ answer[KeyDecided[n]] = "correct" => KeyDecided[n] \in agreed
    /\ pc = "handle" /\ result.kind = "success" =>
         /\ n \in DOMAIN KeyConfirmed /\ answer[KeyConfirmed[n]] = "correct" => KeyConfirmed[n] \in agreed
         /\ n \in DOMAIN KeyDecided => answer[KeyDecided[n]] = "correct"
    /\ n \in AfterCard => "card_last_4" \in agreed
    /\ n = "activate-card" => "ssn_last_4" \in agreed
    /\ n = "customer-lookup-with-session-phone-number" => "input_phone_number" \in agreed

AgreedInv == answer \in [Keys -> Answers] /\ (wsrs # <<>> => AgreedAt(Current.name))

\* The steps that are reached only with an account.
WithAccount == AfterCard \cup {"enter-card-last-4", "confirm-card-last-4", "reset-if-card-incorrect"}

FoundAt(n) ==
    account = "None" =>
        /\ n \notin WithAccount
        /\ pc = "handle" /\ result.kind = "success" /\ n = "branch-on-lookup-error" => result.branch # Found

FoundInv == wsrs # <<>> => FoundAt(Current.name)

\* The same, for whatever step has a key.
LEMMA Triples ==
    /\ \A n \in DOMAIN KeyDecided :
          \/ n = "reset-if-phone-number-incorrect" /\ KeyDecided[n] = "input_phone_number"
          \/ n = "reset-if-card-incorrect" /\ KeyDecided[n] = "card_last_4"
          \/ n = "reset-if-ssn-incorrect" /\ KeyDecided[n] = "ssn_last_4"
    /\ \A n \in DOMAIN KeyConfirmed :
          \/ n = "confirm-phone-number" /\ KeyConfirmed[n] = "input_phone_number"
          \/ n = "confirm-card-last-4" /\ KeyConfirmed[n] = "card_last_4"
          \/ n = "confirm-ssn" /\ KeyConfirmed[n] = "ssn_last_4"
    /\ \A n \in DOMAIN KeyEntered :
          \/ n = "enter-phone-number" /\ KeyEntered[n] = "input_phone_number"
          \/ n = "enter-card-last-4" /\ KeyEntered[n] = "card_last_4"
          \/ n = "enter-ssn" /\ KeyEntered[n] = "ssn_last_4"
BY KeyNames, KeyValues

\* A step that is run stores what the invariant says of it.
LEMMA AgreedRun ==
    ASSUME Tree = ActivateCardTree, EngineInv, RunActivationStep,
           NEW n, n = Current.name, answer \in [Keys -> Answers], AgreedAt(n)
    PROVE  answer' \in [Keys -> Answers] /\ AgreedAt(n)'
<1>1. RunStep /\ (Enter \/ Confirm \/ LookUp \/ Decide \/ StoresNothing)
  BY DEF RunActivationStep
<1>2. wsrs # <<>> /\ HasStep(branch, n) /\ pc' = "handle"
  BY <1>1, RunStays
<1>i. PICK i : i = IndexOf(branch, n)
  OBVIOUS
<1>t. PICK t : t = CurrentStep
  OBVIOUS
<1>3. Fits(branch, i) /\ t = Tree[branch].steps[i] /\ t.name = n
  BY <1>2, <1>i, <1>t, Placed
<1>4. CASE Enter
  <2>1. n \in DOMAIN KeyEntered /\ UNCHANGED <<account, answer>>
        /\ (agreed' = agreed \/ agreed' = agreed \ {KeyEntered[n]})
    BY <1>4 DEF Enter
  <2> QED BY <2>1, KeyNames, Triples DEF AgreedAt, AfterCard
<1>5. CASE Confirm
  <2>k. PICK key : key = KeyConfirmed[n]
    OBVIOUS
  <2>1. n \in DOMAIN KeyConfirmed /\ key \in Keys
    BY <1>5, <2>k, Triples DEF Confirm, Keys
  <2>2. CASE UNCHANGED <<answer, agreed>> /\ result'.kind # "success"
    BY <2>1, <2>2, KeyNames DEF AgreedAt
  <2>3. CASE answer' = [answer EXCEPT ![key] = "repeat"] /\ UNCHANGED agreed /\ result'.kind # "success"
    BY <2>1, <2>3, KeyNames DEF AgreedAt, Answers
  <2>4. ASSUME NEW a \in {"correct", "incorrect"}, answer' = [answer EXCEPT ![key] = a],
               agreed' = IF a = "correct" THEN agreed \cup {key} ELSE agreed \ {key}
        PROVE  answer' \in [Keys -> Answers] /\ AgreedAt(n)'
    <3>1. answer' \in [Keys -> Answers] /\ answer'[key] = a
      BY <2>1, <2>4 DEF Answers
    <3>2. answer'[key] = "correct" => key \in agreed'
      BY <2>4, <3>1
    <3>3. n \in AfterCard => "card_last_4" \in agreed'
      BY <2>k, <2>1, <2>4, Triples DEF AgreedAt, AfterCard
    <3> QED BY <2>k, <2>1, <3>1, <3>2, <3>3, KeyNames DEF AgreedAt
  <2> QED BY <1>5, <2>k, <2>2, <2>3, <2>4 DEF Confirm, Answered
<1>6. CASE LookUp
  BY <1>6, KeyNames DEF LookUp, AgreedAt, Lookups
<1>7. CASE Decide
  <2>1. UNCHANGED <<account, answer, agreed>> /\ n \notin DOMAIN KeyConfirmed
    BY <1>7, KeyNames DEF Decide, session, CalledFor
  <2>2. n \in DOMAIN KeyDecided /\ result'.kind = "success" => answer[KeyDecided[n]] = "correct"
    BY <1>7, KeyNames DEF Decide, CalledFor
  <2> QED BY <2>1, <2>2 DEF AgreedAt
<1>8. CASE StoresNothing
  <2>1. UNCHANGED <<account, answer, agreed>> /\ t.type \in {"CallExternalServiceStep", "PlayMessageStep"}
    BY <1>8, <1>t DEF StoresNothing, session
  <2>2. n \notin DOMAIN KeyConfirmed /\ n \notin DOMAIN KeyDecided
    BY <1>3, <2>1 DEF Fits, IsBranch, BranchTypes
  <2> QED BY <2>1, <2>2 DEF AgreedAt
<1> QED BY <1>1, <1>4, <1>5, <1>6, <1>7, <1>8

\* The other steps take the invariant along.
LEMMA AgreedGoes ==
    ASSUME NEW n, NEW m, Goes(n, m), AgreedAt(n), pc' # "handle", UNCHANGED session
    PROVE  AgreedAt(m)'
<1>1. UNCHANGED <<account, answer, agreed>>
  BY DEF session
<1>2. CASE m = n
  BY <1>1, <1>2 DEF AgreedAt
<1>3. CASE pc = "handle" /\ result.kind = "success" /\ <<n, m>> \in Following
  BY <1>1, <1>3, KeyNames, KeyValues DEF AgreedAt, Following, AfterCard
<1>4. CASE /\ pc = "handle" /\ result.kind = "success"
           /\ <<n, result.branch>> \in Leading /\ <<result.branch, m>> \in Starting
  <2>1. \/ m \in {"enter-phone-number", "connect-to-customer-service-message", "enter-card-last-4"}
        \/ n = "reset-if-phone-number-incorrect" /\ m = "customer-lookup-with-session-phone-number"
        \/ n = "reset-if-card-incorrect" /\ m = "enter-ssn"
        \/ n = "reset-if-ssn-incorrect" /\ m = "activate-card"
    BY <1>4 DEF Leading, Starting, HandOvers
  <2>2. n \in DOMAIN KeyDecided => KeyDecided[n] \in agreed
    BY <1>4 DEF AgreedAt
  <2> QED BY <1>1, <2>1, <2>2, KeyNames, KeyValues DEF AgreedAt, AfterCard
<1>5. CASE m = "connect-to-customer-service-message"
  BY <1>5, KeyNames DEF AgreedAt, AfterCard
<1>6. CASE <<n, m>> \in Resetting
  BY <1>1, <1>6, KeyNames DEF AgreedAt, AfterCard, Resetting
<1> QED BY <1>2, <1>3, <1>4, <1>5, <1>6 DEF Goes

\* Only a caller of whom a request was cut short answers what was not read back.
UnheardInv == failures = 0 => unheard = {}

\* A confirmation asks, so that its answer is one to what the caller heard last.
LEMMA UnheardNext ==
    ASSUME Tree = ActivateCardTree, EngineInv, AnswersWhatWasAsked, UnheardInv,
           [ActivationNext]_sessionVars
    PROVE  UnheardInv'
<1>T. failures \in Nat
  BY DEF EngineInv, TypeOK
<1>1. CASE UNCHANGED sessionVars
  BY <1>1 DEF sessionVars, session, vars, outside, UnheardInv
<1>2. CASE RunActivationStep
  <2>1. /\ pc = "run" /\ failures' = failures /\ RunStep
        /\ Enter \/ Confirm \/ LookUp \/ Decide \/ StoresNothing
    BY <1>2 DEF RunActivationStep, RunStep, outside
  <2>2. CASE Confirm /\ failures = 0
    <3>n. PICK n : n = Current.name
      OBVIOUS
    <3>i. PICK i : i = IndexOf(branch, n)
      OBVIOUS
    <3>t. PICK t : t = CurrentStep
      OBVIOUS
    <3>1. wsrs # <<>> /\ HasStep(branch, n)
      BY <2>1, <3>n, RunStays
    <3>2. Fits(branch, i) /\ t = Tree[branch].steps[i] /\ t.name = n
      BY <3>1, <3>n, <3>i, <3>t, Placed
    <3>3. n \in DOMAIN KeyConfirmed
      BY <2>2, <3>n DEF Confirm
    <3>4. IsInput(CurrentStep)
      BY <3>2, <3>3, <3>t DEF Fits, IsInput, InputTypes, MenuTypes
    <3>5. heard = CurrentId
      BY <2>1, <2>2, <3>4 DEF AnswersWhatWasAsked
    <3> QED BY <2>2, <3>5 DEF Confirm, Answered, UnheardInv
  <2>3. CASE ~Confirm
    BY <2>1, <2>3 DEF Enter, LookUp, Decide, StoresNothing, session, UnheardInv
  <2> QED BY <2>1, <2>2, <2>3 DEF UnheardInv
<1>3. CASE Next /\ pc' # "handle" /\ UNCHANGED session
  <2>1. failures' = failures \/ failures' = failures + 1
    <3>1. CASE Request \/ InitializeFirst \/ InitializeCurrent \/ InitializeRaises \/ Start \/ RejectState
                 \/ AcceptInput \/ AskForInput \/ PrepareOtherStep \/ RunStep
      BY <3>1 DEF Request, InitializeFirst, InitializeCurrent, InitializeRaises, Start, RejectState,
                  AcceptInput, AskForInput, PrepareOtherStep, RunStep, outside
    <3>2. CASE HandlePressZero \/ HandleReplay \/ HandleExit \/ HandleUnrecoverable \/ HandleDeadEnd
      BY <3>2 DEF HandlePressZero, HandleReplay, HandleExit, HandleUnrecoverable, HandleDeadEnd, outside
    <3>3. CASE HandleNextInput
      BY <3>3 DEF HandleNextInput, outside
    <3>4. CASE HandleNextStep
      BY <3>4 DEF HandleNextStep, outside
    <3>5. CASE HandleRetry \/ HandleErrorSwitch
      BY <3>5 DEF HandleRetry, HandleErrorSwitch, outside
    <3>6. CASE EndLeg \/ Respond \/ Fail
      BY <3>6 DEF EndLeg, Respond, Fail, outside
    <3> QED BY <1>3, <3>1, <3>2, <3>3, <3>4, <3>5, <3>6 DEF Next, Serve
  <2>2. failures' = 0 => failures = 0
    BY <1>T, <2>1
  <2> QED BY <1>3, <2>2 DEF session, UnheardInv
<1> QED BY <1>1, <1>2, <1>3 DEF ActivationNext

\* A lookup of an account is the only step that says whether there is one.
LEMMA FoundRun ==
    ASSUME Tree = ActivateCardTree, EngineInv, RunActivationStep,
           NEW n, n = Current.name, FoundAt(n)
    PROVE  FoundAt(n)'
<1>1. RunStep /\ (Enter \/ Confirm \/ LookUp \/ Decide \/ StoresNothing)
  BY DEF RunActivationStep
<1>2. wsrs # <<>> /\ HasStep(branch, n) /\ pc' = "handle"
  BY <1>1, RunStays
<1>i. PICK i : i = IndexOf(branch, n)
  OBVIOUS
<1>t. PICK t : t = CurrentStep
  OBVIOUS
<1>3. Fits(branch, i) /\ t = Tree[branch].steps[i] /\ t.name = n
  BY <1>2, <1>i, <1>t, Placed
<1>4. CASE LookUp
  BY <1>4 DEF LookUp, Lookups, FoundAt, WithAccount, AfterCard
<1>5. CASE ~LookUp
  <2>1. account' = account
    BY <1>1, <1>5 DEF Enter, Confirm, Decide, StoresNothing, session
  <2>2. n = "branch-on-lookup-error" => ~Enter /\ ~Confirm /\ ~StoresNothing
    <3>1. n = "branch-on-lookup-error" => t.type = "BranchMapWorkflowStep"
      BY <1>3 DEF Fits
    <3> QED BY <1>t, <3>1, KeyNames DEF Enter, Confirm, StoresNothing
  <2>3. n = "branch-on-lookup-error" /\ account = "None" => result'.branch # Found
    BY <1>1, <1>5, <2>2, KeyNames DEF Decide, CalledFor, Found
  <2> QED BY <2>1, <2>3 DEF FoundAt
<1> QED BY <1>4, <1>5

\* Without an account the run stays out of the branches that need one.
LEMMA FoundGoes ==
    ASSUME NEW n, NEW m, Goes(n, m), FoundAt(n), pc' # "handle", UNCHANGED session
    PROVE  FoundAt(m)'
<1>1. UNCHANGED account
  BY DEF session
<1>2. CASE m = n
  BY <1>1, <1>2 DEF FoundAt
<1>3. CASE pc = "handle" /\ result.kind = "success" /\ <<n, m>> \in Following
  BY <1>1, <1>3 DEF FoundAt, Following, WithAccount, AfterCard
<1>4. CASE /\ pc = "handle" /\ result.kind = "success"
           /\ <<n, result.branch>> \in Leading /\ <<result.branch, m>> \in Starting
  <2>1. \/ m \in {"enter-phone-number", "connect-to-customer-service-message",
                  "customer-lookup-with-session-phone-number"}
        \/ n = "branch-on-lookup-error" /\ result.branch = Found
        \/ n = "reset-if-card-incorrect"
        \/ n = "reset-if-ssn-incorrect"
    BY <1>4 DEF Leading, Starting, HandOvers, Found
  <2> QED BY <1>1, <1>4, <2>1 DEF FoundAt, WithAccount, AfterCard
<1>5. CASE m = "connect-to-customer-service-message"
  BY <1>5 DEF FoundAt, WithAccount, AfterCard
<1>6. CASE <<n, m>> \in Resetting
  BY <1>1, <1>6 DEF FoundAt, WithAccount, AfterCard, Resetting
<1> QED BY <1>2, <1>3, <1>4, <1>5, <1>6 DEF Goes

-----------------------------------------------------------------------------
(* How the run leaves *)

\* A run that leaves was transferred by a key, or its step succeeded and leaves.
ExitInv ==
    pc = "exit" =>
        /\ wsrs # <<>>
        /\ result.kind = "exit_queue" \/ (result.kind = "success" /\ ExitOfCurrent # NoExit)

\* The card was activated before the caller is told so.
Activated(i) == StepRunAt(i).name = "activate-card" /\ wsrs[i].step_state = "success"

ActivatedInv ==
    wsrs # <<>> /\ Current.name = "play-card-activation-succeeded-message" =>
        \E i \in DOMAIN wsrs : Activated(i)

\* Only two handlers let the run leave.
LEMMA ExitNext ==
    ASSUME EngineInv, ExitInv, [Next]_vars
    PROVE  ExitInv'
<1>T. TypeOK /\ RowsResolve /\ AtStep
  BY DEF EngineInv
<1>1. CASE UNCHANGED vars
  BY <1>1 DEF vars, run, request, ExitInv, ExitOfCurrent, Current, CurrentId
<1>2. CASE HandlePressZero \/ HandleExit
  <2>1. /\ pc = "handle" /\ wsrs' = Recorded /\ stepRuns' = stepRuns /\ result' = result
        /\ result.kind = "exit_queue" \/ (result.kind = "success" /\ ExitOfCurrent # NoExit)
    BY <1>2 DEF HandlePressZero, HandleExit
  <2>2. PICK b : b \in BranchNames
    BY TreeAssumption
  <2>3. wsrs' # <<>> /\ Current' = Current
    <3>1. wsrs # <<>>
      BY <1>T, <2>1 DEF AtStep
    <3>2. SameRows(wsrs')
      BY <1>T, <2>1, <2>2, <3>1, RecordedRows
    <3> QED BY <1>T, <2>1, <3>1, <3>2, KeptRows
  <2>4. ExitOfCurrent' = ExitOfCurrent
    BY <2>3 DEF ExitOfCurrent
  <2> QED BY <2>1, <2>3, <2>4 DEF ExitInv
<1>3. CASE Next /\ ~HandlePressZero /\ ~HandleExit
  <2>1. pc' # "exit"
    <3>1. CASE Request \/ InitializeFirst \/ InitializeCurrent \/ InitializeRaises \/ Start \/ RejectState
                 \/ AcceptInput \/ AskForInput \/ PrepareOtherStep \/ RunStep
      BY <3>1 DEF Request, InitializeFirst, InitializeCurrent, InitializeRaises, Start, RejectState,
                  AcceptInput, AskForInput, PrepareOtherStep, RunStep, request
    <3>2. CASE HandleReplay \/ HandleUnrecoverable \/ HandleDeadEnd \/ EndLeg \/ Respond \/ Fail
      BY <3>2 DEF HandleReplay, HandleUnrecoverable, HandleDeadEnd, EndLeg, Respond, Fail
    <3>3. CASE HandleNextInput \/ HandleNextStep \/ HandleRetry \/ HandleErrorSwitch
      BY <3>3 DEF HandleNextInput, HandleNextStep, HandleRetry, HandleErrorSwitch, ContinueWith
    <3> QED BY <1>3, <3>1, <3>2, <3>3 DEF Next, Serve
  <2> QED BY <2>1 DEF ExitInv
<1> QED BY <1>1, <1>2, <1>3

\* The rows before the current one stay, and a success is recorded in it.
LEMMA PastStays ==
    ASSUME WellNamed, EngineInv, HistoryInv, [Next]_vars, wsrs # <<>>, NEW k \in Nat \ {0}, k = Len(wsrs)
    PROVE  /\ DOMAIN wsrs = 1 .. k /\ 1 .. k \subseteq DOMAIN wsrs'
           /\ \A i \in 1 .. k - 1 : Activated(i) => Activated(i)'
           /\ StepRunAt(k) = Current
           /\ Current.name = "activate-card" /\ Current'.name # Current.name
                /\ pc = "handle" /\ result.kind = "success" => Activated(k)'
<1>T. TypeOK /\ RowsResolve /\ AtStep /\ SkipInv /\ LastOpen
  BY DEF EngineInv, HistoryInv
<1>1. /\ DOMAIN wsrs = 1 .. k /\ StepRunAt(k) = Current
      /\ \A i \in 1 .. k : wsrs[i].step_run \in DOMAIN stepRuns
  BY <1>T DEF TypeOK, RowsResolve, StepRunAt, Current, CurrentId
<1>2. CASE Quiet \/ RunStep
  <2>1. wsrs' = wsrs /\ \A r \in DOMAIN stepRuns : stepRuns'[r].name = stepRuns[r].name
    BY <1>2, SameRowsAndRuns
  <2>2. \A i \in 1 .. k : StepRunAt(i)'.name = StepRunAt(i).name
    BY <1>1, <2>1 DEF StepRunAt
  <2>3. Current'.name = Current.name
    BY <1>1, <2>1, <2>2 DEF Current, CurrentId, StepRunAt
  <2> QED BY <1>1, <2>1, <2>2, <2>3 DEF Activated
<1>3. CASE HandleResult
  <2>1. PICK rows \in RowsOfResult :
              /\ LastChanged(rows)
              /\ \A i \in 1 .. k : wsrs'[i] = rows[i]
              /\ wsrs' \in Seq(WorkflowStepRun)
              /\ \/ Closed(rows) /\ Len(wsrs') = k
                 \/ \E r \in Nat \ {0} :
                       /\ Len(wsrs') = k + 1 /\ wsrs'[k + 1] = Wsr(r)
                       /\ \/ r = Len(stepRuns) + 1 /\ Opened(rows)
                          \/ r \in DOMAIN stepRuns /\ Reopened(r)
    BY <1>T, <1>3, HandlerRows
  <2>2. \A r \in DOMAIN stepRuns : stepRuns'[r] = stepRuns[r]
    <3>1. stepRuns \in Seq(StepRun)
      BY <1>T DEF TypeOK
    <3>2. stepRuns' = stepRuns \/ \E s : stepRuns' = Append(stepRuns, s)
      BY <2>1 DEF Closed, Opened, Reopened, AppendFresh, AppendAgain
    <3> QED BY <3>1, <3>2
  <2>3. \A i \in 1 .. k : wsrs'[i].step_run = wsrs[i].step_run /\ (i < k => wsrs'[i] = wsrs[i])
    BY <2>1 DEF LastChanged, SameRows
  <2>4. \A i \in 1 .. k : StepRunAt(i)' = StepRunAt(i)
    BY <1>1, <2>2, <2>3 DEF StepRunAt
  <2>5. \A i \in 1 .. k - 1 : Activated(i) => Activated(i)'
    BY <2>3, <2>4 DEF Activated
  <2>6. 1 .. k \subseteq DOMAIN wsrs'
    BY <2>1
  <2>7. ASSUME Current.name = "activate-card", pc = "handle", result.kind = "success" PROVE Activated(k)'
    <3>1. result \in Outcomes(CurrentStep)
      BY <1>T, <2>7 DEF AtStep
    <3>2. result.saved
      BY <2>7, <3>1, SuccessSaved
    <3>3. wsrs'[k].step_state = "success"
      BY <1>T, <2>1, <2>7, <3>2, ResultRow DEF ResultState
    <3> QED BY <1>1, <2>4, <2>7, <3>3 DEF Activated
  <2> QED BY <1>1, <2>5, <2>6, <2>7
<1>4. ~InitializeFirst
  BY DEF InitializeFirst
<1> QED BY <1>2, <1>3, <1>4, Steps

\* The message that the card is active is reached only from its activation, and
\* the activation stays in the history.
LEMMA ActivatedNext ==
    ASSUME Tree = ActivateCardTree, EngineInv, HistoryInv, ActivatedInv, [Next]_vars
    PROVE  ActivatedInv'
<1> DEFINE told == "play-card-activation-succeeded-message"
<1>1. CASE wsrs = <<>>
  <2>1. wsrs' # <<>> => Current'.name # told
    BY <1>1, FirstStepNamed
  <2> QED BY <2>1 DEF ActivatedInv
<1>2. CASE wsrs # <<>>
  <2>k. PICK k \in Nat \ {0} : k = Len(wsrs)
    BY <1>2 DEF EngineInv, TypeOK
  <2>n. PICK n, m : n = Current.name /\ m = Current'.name
    OBVIOUS
  <2>1. SkipInv /\ WellNamed
    BY ActivationTreeIsSound DEF HistoryInv
  <2>2. Goes(n, m)
    BY <1>2, <2>1, <2>n, GoesNext
  <2>3. /\ DOMAIN wsrs = 1 .. k /\ 1 .. k \subseteq DOMAIN wsrs'
        /\ \A i \in 1 .. k - 1 : Activated(i) => Activated(i)'
        /\ StepRunAt(k) = Current
        /\ n = "activate-card" /\ m # n /\ pc = "handle" /\ result.kind = "success" => Activated(k)'
    BY <1>2, <2>1, <2>k, <2>n, PastStays
  <2>4. ASSUME m = told PROVE \E i \in DOMAIN wsrs' : Activated(i)'
    <3>1. \/ n = told
          \/ n = "activate-card" /\ pc = "handle" /\ result.kind = "success"
      BY <2>2, <2>4 DEF Goes, Following, Starting, HandOvers, Resetting
    <3>2. CASE n = told
      <4>1. PICK i \in DOMAIN wsrs : Activated(i)
        BY <1>2, <2>n, <3>2 DEF ActivatedInv
      <4>2. i # k
        BY <2>n, <2>3, <3>2, <4>1 DEF Activated
      <4>3. i \in 1 .. k - 1 /\ i \in DOMAIN wsrs'
        BY <2>k, <2>3, <4>2
      <4> QED BY <2>3, <4>1, <4>3
    <3>3. CASE n = "activate-card" /\ pc = "handle" /\ result.kind = "success"
      BY <2>k, <2>3, <2>4, <3>3
    <3> QED BY <3>1, <3>2, <3>3
  <2> QED BY <2>n, <2>4 DEF ActivatedInv
<1> QED BY <1>1, <1>2

-----------------------------------------------------------------------------
(* The theorems *)

\* A step of the session is a step of the engine or leaves it alone.
LEMMA ActivationSteps == [ActivationNext]_sessionVars => [Next]_vars
BY DEF ActivationNext, RunActivationStep, sessionVars, Next, Serve

\* What the session holds fits where the run is.
SessionInv == AgreedInv /\ FoundInv /\ ExitInv /\ ActivatedInv

\* A run that was not served has stored nothing.
LEMMA SessionInvInit ==
    ASSUME ActivationInit
    PROVE  SessionInv
BY DEF ActivationInit, Init, SessionInv, AgreedInv, FoundInv, ExitInv, ActivatedInv, Answers

\* Every step of the engine, with what it stores, keeps the session in step with
\* the run.
LEMMA SessionInvNext ==
    ASSUME Tree = ActivateCardTree, EngineInv, HistoryInv, SessionInv, [ActivationNext]_sessionVars
    PROVE  SessionInv'
<1>1. [Next]_vars /\ SkipInv
  BY ActivationSteps DEF HistoryInv
<1>2. ExitInv' /\ ActivatedInv'
  BY <1>1, ExitNext, ActivatedNext DEF SessionInv
<1>n. PICK n, m : n = Current.name /\ m = Current'.name
  OBVIOUS
<1>3. CASE UNCHANGED sessionVars
  BY <1>2, <1>3
     DEF sessionVars, session, vars, run, request, SessionInv, AgreedInv, AgreedAt, FoundInv, FoundAt,
                    Current, CurrentId
<1>4. CASE RunActivationStep
  <2>1. wsrs # <<>> /\ m = n
    BY <1>4, <1>n, RunStays DEF RunActivationStep
  <2>2. answer' \in [Keys -> Answers] /\ AgreedAt(n)' /\ FoundAt(n)'
    BY <1>4, <1>n, <2>1, AgreedRun, FoundRun DEF SessionInv, AgreedInv, FoundInv
  <2>3. AgreedInv' /\ FoundInv'
    BY <1>n, <2>1, <2>2 DEF AgreedInv, FoundInv
  <2> QED BY <1>2, <2>3 DEF SessionInv
<1>5. CASE Next /\ pc' # "handle" /\ UNCHANGED session
  <2>1. CASE wsrs # <<>>
    <3>1. wsrs' # <<>> /\ Goes(n, m)
      BY <1>1, <1>n, <2>1, GoesNext
    <3>2. AgreedAt(n) /\ FoundAt(n) /\ answer' \in [Keys -> Answers]
      BY <1>5, <1>n, <2>1 DEF SessionInv, AgreedInv, FoundInv, session
    <3>3. AgreedAt(m)' /\ FoundAt(m)'
      BY <1>5, <3>1, <3>2, AgreedGoes, FoundGoes
    <3>4. AgreedInv' /\ FoundInv'
      BY <1>n, <3>2, <3>3 DEF AgreedInv, FoundInv
    <3> QED BY <1>2, <3>4 DEF SessionInv
  <2>2. CASE wsrs = <<>>
    <3>1. wsrs' # <<>> => m = "get-card-id"
      BY <1>1, <1>n, <2>2, FirstStepNamed
    <3>2. answer' \in [Keys -> Answers]
      BY <1>5 DEF SessionInv, AgreedInv, session
    <3>3. m = "get-card-id" => AgreedAt(m)' /\ FoundAt(m)'
      BY <1>5, KeyNames DEF AgreedAt, FoundAt, WithAccount, AfterCard
    <3>4. AgreedInv' /\ FoundInv'
      BY <1>n, <3>1, <3>2, <3>3 DEF AgreedInv, FoundInv
    <3> QED BY <1>2, <3>4 DEF SessionInv
  <2> QED BY <2>1, <2>2
<1> QED BY <1>3, <1>4, <1>5 DEF ActivationNext

\* The three invariants together.
LEMMA SessionInvHolds ==
    ASSUME Tree = ActivateCardTree
    PROVE  ActivationSpec => [](EngineInv /\ HistoryInv /\ SessionInv)
<1>1. ActivationSpec => Spec
  <2>1. ActivationInit => Init
    BY DEF ActivationInit
  <2> QED BY <2>1, ActivationSteps, PTL DEF ActivationSpec, Spec
<1>2. WellNamed
  BY ActivationTreeIsSound
<1>3. Spec => []EngineInv
  BY EngineInvariant
<1>4. Spec => []HistoryInv
  BY <1>2, HistoryInvHolds
<1>5. ActivationInit => SessionInv
  BY SessionInvInit
<1>6. EngineInv /\ HistoryInv /\ SessionInv /\ [ActivationNext]_sessionVars => SessionInv'
  BY SessionInvNext
<1> QED BY <1>1, <1>3, <1>4, <1>5, <1>6, PTL DEF ActivationSpec

\* On the card activation tree of the voice line, the service is called to
\* activate a card, or an account is looked up by an entered number, only with
\* digits that the caller called correct since they were entered, for every number
\* of requests, retries, resets and requests cut short; and without requests cut
\* short the caller had then heard them read back.
THEOREM UsesConfirmedDigitsHolds ==
    ASSUME Tree = ActivateCardTree
    PROVE  ActivationSpec => []UsesConfirmedDigits
<1>1. EngineInv /\ HistoryInv /\ SessionInv /\ UnheardInv => UsesConfirmedDigits
  <2> SUFFICES ASSUME EngineInv, SessionInv, UnheardInv, pc = "run" PROVE UsesConfirmedDigits
    BY DEF UsesConfirmedDigits
  <2>1. wsrs # <<>>
    BY DEF EngineInv, AtStep
  <2>2. AgreedAt(Current.name)
    BY <2>1 DEF SessionInv, AgreedInv
  <2>3. DigitsUsed \subseteq agreed
    BY <2>2 DEF DigitsUsed, AgreedAt, AfterCard
  <2> QED BY <2>3 DEF UsesConfirmedDigits, UnheardInv
<1>2. ActivationSpec => []AnswersWhatWasAsked
  <2>1. ActivationInit => Init
    BY DEF ActivationInit
  <2> QED BY <2>1, ActivationSteps, AnswersWhatWasAskedHolds, PTL DEF ActivationSpec, Spec
<1>3. ActivationInit => UnheardInv
  BY DEF ActivationInit, UnheardInv
<1>4. EngineInv /\ AnswersWhatWasAsked /\ UnheardInv /\ [ActivationNext]_sessionVars => UnheardInv'
  BY UnheardNext
<1> QED BY <1>1, <1>2, <1>3, <1>4, SessionInvHolds, PTL DEF ActivationSpec

\* On that tree a caller of whom no account was found leaves only through a queue,
\* and one who hears that the card is active and is hung up on has a successful
\* activation in the history of the run.
THEOREM LeavesAsFoundHolds ==
    ASSUME Tree = ActivateCardTree
    PROVE  ActivationSpec => []LeavesAsFound
<1>1. EngineInv /\ HistoryInv /\ SessionInv => LeavesAsFound
  <2> SUFFICES ASSUME EngineInv, SessionInv, pc = "exit" PROVE LeavesAsFound
    BY DEF LeavesAsFound
  <2>1. /\ wsrs # <<>>
        /\ result.kind = "exit_queue" \/ (result.kind = "success" /\ ExitOfCurrent # NoExit)
    BY DEF SessionInv, ExitInv
  <2>b. PICK b, n : b = Current.branch /\ n = Current.name
    OBVIOUS
  <2>2. HasStep(b, n)
    BY <2>1, <2>b, CurrentRow DEF EngineInv
  <2>i. PICK i : i = IndexOf(b, n)
    OBVIOUS
  <2>3. Fits(b, i) /\ Tree[b].steps[i].name = n /\ ExitOfCurrent = Tree[b].steps[i].exit
    <3>1. b \in DOMAIN Tree /\ i \in DOMAIN Tree[b].steps /\ Tree[b].steps[i].name = n
      BY <2>2, <2>i, IndexOfFirst
    <3>2. FitsBranch(b)
      BY <3>1, TreeFits
    <3>3. ExitOfCurrent = Tree[b].steps[i].exit
      BY <2>b, <2>i DEF ExitOfCurrent, Template
    <3> QED BY <3>1, <3>2, <3>3 DEF FitsBranch
  <2>4. /\ ExitOfCurrent = "HangUp" <=> n = "play-card-activation-succeeded-message"
        /\ ExitOfCurrent \in {NoExit, "HangUp", "CurrentQueue"}
    BY <2>3 DEF Fits
  <2>5. account = "None" => n # "play-card-activation-succeeded-message"
    BY <2>1, <2>b DEF SessionInv, FoundInv, FoundAt, WithAccount, AfterCard
  <2>6. ExitOfCurrent = "HangUp" => \E i2 \in DOMAIN wsrs : Activated(i2)
    BY <2>1, <2>b, <2>4 DEF SessionInv, ActivatedInv
  <2> QED BY <2>1, <2>4, <2>5, <2>6 DEF LeavesAsFound, Activated
<1> QED BY <1>1, SessionInvHolds, PTL
=============================================================================
