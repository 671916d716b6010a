-------------------------- MODULE MakePaymentProofs --------------------------
(***************************************************************************)
(* A customer pays what was agreed to, is told so only when it is so, and   *)
(* pays twice only when an answer was lost, for every number of requests,   *)
(* of requests that are cut short and of answers that are lost, and for     *)
(* every external workflow that takes the agreement last.  As for the card  *)
(* activation tree, the way of the run follows from what the engine does on *)
(* any tree and from where the steps of this one lead, and the session and  *)
(* the external workflow are followed along that way.                       *)
(***************************************************************************)
EXTENDS MakePayment, EngineHistoryProofs

-----------------------------------------------------------------------------
(* The invariants *)

\* The reply to the terms was PAY.
Agreed == consent \in {"given", "blind"}

\* From the terms to the agreement, the reply that is stored vouches for the consent.
\* The agreement needs it only as long as the external workflow waits for it.
AgreedAt(n) ==
    /\ n = "show-confirmation-of-payment-terms" /\ pc = "handle" => consent = "due"
    /\ n = "get-confirmation-of-payment-terms" =>
         /\ consent \in Consents \ {"none"}
         /\ pc = "handle" /\ result.kind = "success" /\ session.confirmation = "pay" => Agreed
    /\ n = "continue-on-confirmation" =>
         /\ session.confirmation = "pay" => Agreed
         /\ pc = "handle" /\ result.kind = "success" /\ result.branch = "confirmation"
              => session.confirmation = "pay"
    /\ n = "run-workflow-step-with-agreement" => Agreed \/ Head(external) # "confirmation"

\* Terms that are yet to be sent are those of the request that is being served, which
\* was just taken to the reply to them or is about to be; they are lost, and agreed to
\* unseen, only with a request that is cut short.
ConsentInv ==
    /\ consent = "due" =>
         /\ wsrs # <<>>
         /\ \/ /\ Current.name = "show-confirmation-of-payment-terms"
               /\ pc = "handle" /\ result.kind = "success"
            \/ /\ Current.name = "get-confirmation-of-payment-terms"
               /\ pc = "respond" /\ reply.kind = "prompt"
    /\ consent \in {"unsent", "blind"} => failures > 0

\* Only a customer whose zip code is confirmed gets past the branches that ask for it.
ConfirmedAt(b, n) ==
    /\ b \notin IdentityBranches => session.confirmed_zip_code = "True"
    /\ n \in ZipCodeMaps /\ pc = "handle" /\ result.kind = "success" /\ result.branch = "get_customer_info"
         => session.confirmed_zip_code = "True"

\* Past the early steps an external workflow is under way.
UnderWayAt(b, n) ==
    external = <<>> =>
        /\ Early(b, n)
        /\ ~(n = "initialize-make-payment" /\ pc = "handle" /\ result.kind = "success")

\* The run is about to tell the customer that an agreement was accepted.
Telling(n) ==
    \/ n = "play-confirmation-payment-submitted"
    \/ n = "run-workflow-step-with-agreement" /\ pc = "handle" /\ result.kind = "success"

\* The external workflow is where the run knows it to be, an agreement that was not
\* heard of apart, which the run does not count on.
ExternalInv == external # <<>> => Agreeable(external) /\ session.Iivr_basic_step_name = Head(external)

\* There is at most one agreement more than there are answers and requests that were
\* lost: the one that the customer is being told of.
HeardInv ==
    /\ submitted \in Nat /\ lost \in Nat
    /\ \/ submitted <= lost + failures
       \/ submitted <= 1 + lost + failures /\ wsrs # <<>> /\ Telling(Current.name)
    /\ wsrs # <<>> /\ Telling(Current.name) => submitted > 0

PlaceInv ==
    wsrs # <<>> =>
        /\ AgreedAt(Current.name)
        /\ ConfirmedAt(Current.branch, Current.name)
        /\ UnderWayAt(Current.branch, Current.name)

PaymentInv == DOMAIN session = Fields /\ ExternalInv /\ HeardInv /\ ConsentInv /\ PlaceInv

\* Whether a field was stored.
Holds(f) == IF f \in Dates THEN session[f] # 0 ELSE session[f] # "unset"

\* What is known to be stored at a step is; and the branch that was picked by the step
\* of the external workflow is the one of its step.
KnownAt(b, n) ==
    /\ \A f \in Known(b, n) : Holds(f)
    /\ pc = "handle" /\ result.kind = "success" => \A f \in Stores(n) : Holds(f)
    /\ pc = "handle" /\ n \in {"copy-date-of-failed-payment", "evaluate-cutoff-possibility"} =>
          result.kind = "success"
    /\ n = "branch-on-Iivr-basic-workflow-step" /\ pc = "handle" /\ result.kind = "success"
          /\ result.branch \in DatedSteps => Holds("date")

\* The date is stored before the external workflow comes to a step that asks what depends on it.
DateInv ==
    /\ session.Iivr_basic_step_name \in DatedSteps => Holds("date")
    /\ Holds("date") \/ (external # <<>> => DatedFirst(external))

\* What the cutoff branch has stored stays stored, though it is left and taken up again.
CutoffInv ==
    \A i \in DOMAIN wsrs :
        Done(i) =>
            /\ StepRunAt(i).branch = "cutoff" => Holds("original_date")
            /\ StepRunAt(i).name = "evaluate-cutoff-possibility" => Holds("cutoff_occurred")

FieldsInv ==
    /\ DateInv /\ CutoffInv
    /\ wsrs # <<>> => KnownAt(Current.branch, Current.name)

\* The external workflow does not ask for the date any more.
Past == ~AsksForDate(external)

\* The run is where the external workflow sends it: at its date, at the branch of its
\* step, or past the date.
DatedAt(b, n) ==
    external # <<>> =>
        /\ Dated(b, n) => Past
        /\ b = "pay_on_earliest_date" => Head(external) = b \/ Past
        /\ n = "agree-to-pay-on-earliest-date" /\ pc = "handle" /\ result.kind = "success" => Past
        /\ n = "branch-on-Iivr-basic-workflow-step" /\ pc = "handle" /\ result.kind = "success"
              /\ result.branch \in AvantBasicSteps => result.branch = Head(external)

\* A run that was in the cutoff branch to its end is past the date for good.
OverInv == BeenToEnd("cutoff") => Past /\ Current.branch \notin Undated

OnceDatedInv ==
    /\ external # <<>> => DatedOnce(external)
    /\ wsrs # <<>> => DatedAt(Current.branch, Current.name)
    /\ Onward("cutoff") /\ OverInv

-----------------------------------------------------------------------------
(* From step to step *)

\* The places the run can be at after it was at step n of branch b.
Goes(b, n, c, m) ==
    \/ c = b /\ m = n
    \/ /\ pc = "handle" /\ result.kind = "success" /\ TakesTo(b, n, c, m)
       /\ n \in MapNames => c = result.branch
    \/ pc = "handle" /\ result.kind = "error" /\ FallsBackTo(b, n, c, m)

\* A step of the tree, at its index.
LEMMA Placed ==
    ASSUME Tree = MakePaymentTree, NEW b, NEW n, HasStep(b, n)
    PROVE  /\ b \in DOMAIN Tree /\ IndexOf(b, n) \in DOMAIN Tree[b].steps
           /\ Template(b, n) = Tree[b].steps[IndexOf(b, n)] /\ Template(b, n).name = n
           /\ StepLeads(b, IndexOf(b, n)) /\ IsWhatItIsCalled(b, Template(b, n))
BY PaymentTreeLeads, IndexOfFirst DEF Template, StepLeads

\* Whatever step the engine takes, the run goes along the tree or stays.
LEMMA GoesNext ==
    ASSUME Tree = MakePaymentTree, EngineInv, SkipInv, [Next]_vars, wsrs # <<>>,
           NEW b, b = Current.branch, NEW n, n = Current.name,
           NEW c, c = Current'.branch, NEW m, m = Current'.name
    PROVE  wsrs' # <<>> /\ Goes(b, n, c, m)
<1>1. wsrs' # <<>> /\ Moves
  BY StepMoves, PaymentTreeIsSound
<1>2. CASE c = b /\ m = n
  BY <1>1, <1>2 DEF Goes
<1>3. ASSUME pc = "handle", state # "finished", Follows \/ Branches \/ Switches \/ GoesBack
      PROVE  Goes(b, n, c, m)
  <2>1. branch = b /\ HasStep(b, n) /\ result \in Outcomes(CurrentStep)
    BY <1>3 DEF EngineInv, AtStep, SkipInv, OnBranch
  <2>i. PICK i : i = IndexOf(b, n)
    OBVIOUS
  <2>t. PICK t : t = Template(b, n)
    OBVIOUS
  <2>2. /\ b \in DOMAIN Tree /\ i \in DOMAIN Tree[b].steps /\ t = Tree[b].steps[i] /\ t.name = n
        /\ StepLeads(b, i) /\ IsWhatItIsCalled(b, t) /\ t = CurrentStep
    BY <2>1, <2>i, <2>t, Placed DEF CurrentStep
  <2>3. \A x : Enters(x) => /\ x \in DOMAIN Tree /\ c = x
                            /\ \E k \in DOMAIN Tree[x].steps : ComesNext(b, i, x, k) /\ m = Tree[x].steps[k].name
    BY <2>1, <2>i DEF Enters
  <2>4. CASE Follows
    <3>1. /\ result.kind = "success" /\ ~IsBranch(t) /\ i + 1 \in DOMAIN Tree[b].steps
          /\ m = Tree[b].steps[i + 1].name /\ c = b
      BY <2>1, <2>2, <2>4, <2>i DEF Follows
    <3>2. ComesNext(b, i, b, i + 1)
      BY DEF ComesNext
    <3>3. TakesTo(b, n, b, m)
      BY <2>2, <3>1, <3>2 DEF StepLeads
    <3>4. n \notin MapNames
      BY <2>2, <3>1 DEF IsWhatItIsCalled, IsBranch, BranchTypes
    <3> QED BY <1>3, <3>1, <3>3, <3>4 DEF Goes
  <2>5. CASE Branches
    <3>1. result.kind = "success" /\ IsBranch(t) /\ Enters(result.branch)
      BY <2>2, <2>5 DEF Branches
    <3>2. result.branch \in t.targets
      BY <2>1, <2>2, <3>1, BranchLeads
    <3>3. c = result.branch /\ TakesTo(b, n, c, m)
      BY <2>2, <2>3, <3>1, <3>2 DEF StepLeads
    <3> QED BY <1>3, <3>1, <3>3 DEF Goes
  <2>6. CASE Switches
    <3>1. result.kind = "error" /\ Enters(t.switch_to)
      BY <2>2, <2>6 DEF Switches
    <3>2. FallsBackTo(b, n, c, m)
      BY <2>2, <2>3, <3>1 DEF StepLeads
    <3> QED BY <1>3, <3>1, <3>2 DEF Goes
  <2>7. CASE GoesBack
    <3>1. result.kind = "error" /\ c = b /\ m = IF t.reset_to = NoStep THEN n ELSE t.reset_to
      BY <2>1, <2>2, <2>7 DEF GoesBack, RetryStep
    <3> QED BY <1>3, <2>2, <3>1 DEF StepLeads, Goes
  <2> QED BY <1>3, <2>4, <2>5, <2>6, <2>7
<1> QED BY <1>1, <1>2, <1>3 DEF Moves

\* The step being run, and what it is.
LEMMA Running ==
    ASSUME Tree = MakePaymentTree, EngineInv, SkipInv, RunStep,
           NEW b, b = Current.branch, NEW n, n = Current.name
    PROVE  /\ wsrs # <<>> /\ wsrs' # <<>> /\ pc' = "handle" /\ failures' = failures
           /\ Current'.branch = b /\ Current'.name = n
           /\ CurrentStep.name = n /\ IsWhatItIsCalled(b, CurrentStep)
<1>1. /\ wsrs # <<>> /\ wsrs' = wsrs /\ pc' = "handle" /\ HasStep(branch, n)
      /\ Current'.branch = b /\ Current'.name = n
  BY RunStays
<1>2. state # "finished" /\ failures' = failures
  BY DEF RunStep, outside, EngineInv, AtStep
<1>3. branch = b
  BY <1>1, <1>2 DEF SkipInv, OnBranch
<1> QED BY <1>1, <1>2, <1>3, Placed DEF CurrentStep

-----------------------------------------------------------------------------
(* What the external workflow answers *)

\* A workflow that takes its agreement last does so after a step as well, and is at
\* its end once it was agreed to.
LEMMA AgreeableTail ==
    ASSUME NEW plan, Agreeable(plan), Head(plan) # "end"
    PROVE  /\ Agreeable(Tail(plan)) /\ Tail(plan) # <<>>
           /\ Head(plan) = "confirmation" <=> Head(Tail(plan)) = "end"
<1>1. plan \in Seq(STRING) /\ Len(plan) \in Nat \ {0} /\ plan[Len(plan)] = "end" /\ Head(plan) = plan[1]
  BY DEF Agreeable
<1>2. Len(plan) # 1
  BY <1>1
<1>3. /\ Tail(plan) \in Seq(STRING) /\ Len(Tail(plan)) = Len(plan) - 1
      /\ \A i \in 1 .. Len(plan) - 1 : Tail(plan)[i] = plan[i + 1]
  BY <1>1, <1>2
<1>4. Tail(plan) # <<>> /\ Head(Tail(plan)) = plan[2]
  <2>1. Len(Tail(plan)) > 0 /\ 1 \in 1 .. Len(plan) - 1 /\ 1 + 1 = 2
    BY <1>1, <1>2, <1>3
  <2>2. Tail(plan)[1] = plan[2]
    BY <1>3, <2>1
  <2>3. \A q \in Seq(STRING) : Len(q) > 0 => q # <<>> /\ Head(q) = q[1]
    OBVIOUS
  <2> QED BY <1>3, <2>1, <2>2, <2>3
<1>5. Tail(plan)[Len(Tail(plan))] = "end"
  BY <1>1, <1>2, <1>3
<1>6. \A i \in 1 .. Len(Tail(plan)) - 1 : Tail(plan)[i] = "confirmation" <=> Tail(plan)[i + 1] = "end"
  <2>1. SUFFICES ASSUME NEW i \in 1 .. Len(plan) - 2
                 PROVE  plan[i + 1] = "confirmation" <=> plan[i + 2] = "end"
    BY <1>1, <1>2, <1>3
  <2>2. i + 1 \in 1 .. Len(plan) - 1 /\ (i + 1) + 1 = i + 2
    BY <1>1, <2>1
  <2> QED BY <2>2 DEF Agreeable
<1>7. plan[1] = "confirmation" <=> plan[2] = "end"
  BY <1>1, <1>2 DEF Agreeable
<1> QED BY <1>1, <1>3, <1>4, <1>5, <1>6, <1>7 DEF Agreeable

\* An external workflow that is under way answers where it is, or goes one step
\* forward; to its end by an agreement, and by nothing else.
LEMMA OneForward ==
    ASSUME NEW n, n = Current.name, n # "initialize-make-payment", Agreeable(external),
           NEW ahead \in Answered, ahead # external
    PROVE  /\ Agreeable(ahead) /\ ahead # <<>>
           /\ n = "run-workflow-step-with-agreement" <=> Head(external) = "confirmation"
           /\ Head(external) = "confirmation" <=> Head(ahead) = "end"
<1>1. ahead = Tail(external) /\ ActionOf(n) \in Taken(Head(external))
  BY DEF Answered
<1>2. Head(external) # "end"
  BY <1>1 DEF Taken
<1>3. n = "run-workflow-step-with-agreement" <=> ActionOf(n) = "i_agree"
  BY DEF ActionOf
<1>4. ActionOf(n) = "i_agree" <=> Head(external) = "confirmation"
  BY <1>1 DEF Taken
<1> QED BY <1>1, <1>2, <1>3, <1>4, AgreeableTail

\* A new external workflow is at a step that is not its end.
LEMMA NewOne ==
    ASSUME Current.name = "initialize-make-payment", NEW ahead \in Answered
    PROVE  Agreeable(ahead) /\ ahead # <<>> /\ Head(ahead) # "end"
BY PlansAssumption DEF Answered, Agreeable

\* What a call of the external workflow does: it is agreed to only by the step that
\* does so, whose success says that it was.
LEMMA OutsideDoes ==
    ASSUME RunAvantBasic, NEW n, n = Current.name, DOMAIN session = Fields, ExternalInv,
           submitted \in Nat, lost \in Nat,
           external = <<>> => n = "initialize-make-payment"
    PROVE  /\ DOMAIN session' = Fields /\ ExternalInv'
           /\ \A f \in Fields \ {"Iivr_basic_step_name", "date"} : session'[f] = session[f]
           /\ external' # <<>> \/ (external = <<>> /\ result'.kind # "success")
           /\ consent' = consent \/ result'.kind = "success"
           /\ (external' # external \/ result'.kind = "success") /\ n = "run-workflow-step-with-agreement"
                 => Head(external') = "end"
           /\ IF n = "run-workflow-step-with-agreement" /\ result'.kind = "success"
                 THEN submitted' = submitted + 1 /\ lost' = lost
                 ELSE \/ submitted' = submitted /\ lost' = lost
                      \/ submitted' = submitted + 1 /\ lost' = lost + 1
<1> DEFINE agree == "run-workflow-step-with-agreement"
<1>1. CASE NoAnswer
  <2>1. result'.kind # "success" /\ UNCHANGED <<session, external, consent>>
        /\ \/ submitted' = submitted /\ lost' = lost
           \/ submitted' = submitted + 1 /\ lost' = lost + 1
    BY <1>1 DEF NoAnswer, AcceptedUnheard, payment, dealings, Fatal, Outcome
  <2> QED BY <2>1 DEF ExternalInv
<1>2. ASSUME NEW ahead \in Answered, Answer(ahead)
      PROVE  /\ DOMAIN session' = Fields /\ ExternalInv'
             /\ \A f \in Fields \ {"Iivr_basic_step_name", "date"} : session'[f] = session[f]
             /\ external' # <<>>
             /\ consent' = consent \/ result'.kind = "success"
             /\ (external' # external \/ result'.kind = "success") /\ n = agree => Head(external') = "end"
             /\ lost' = lost
             /\ submitted' = IF n = agree /\ result'.kind = "success" THEN submitted + 1 ELSE submitted
  <2>1. external' = ahead /\ lost' = lost
        /\ submitted' = IF Submits(ahead) THEN submitted + 1 ELSE submitted
    BY <1>2 DEF Answer
  <2>2. Agreeable(ahead) /\ ahead # <<>>
    BY NewOne, OneForward DEF ExternalInv
  <2>3. \/ /\ Accepts(ahead) /\ result'.kind = "success"
           /\ \E day \in Days :
                 session' = [session EXCEPT !.Iivr_basic_step_name = Head(ahead),
                                            !.date = IF Head(ahead) = "pay_on_earliest_date" THEN day ELSE @]
        \/ ~Accepts(ahead) /\ result'.kind = "error" /\ UNCHANGED <<session, consent>>
    <3>1. Success.kind = "success" /\ Retryable.kind = "error"
      BY DEF Success, Retryable, Outcome
    <3>2. CASE Accepts(ahead)
      BY <1>2, <3>1, <3>2 DEF Answer
    <3>3. CASE ~Accepts(ahead)
      BY <1>2, <3>1, <3>3 DEF Answer
    <3> QED BY <3>2, <3>3
  <2>4. /\ DOMAIN session' = Fields /\ session'.Iivr_basic_step_name = Head(ahead)
        /\ \A f \in Fields \ {"Iivr_basic_step_name", "date"} : session'[f] = session[f]
    BY <2>3 DEF Accepts, Fields
  <2>5. CASE n = "initialize-make-payment"
    <3>1. ~Submits(ahead)
      BY <2>5, NewOne DEF Submits
    <3> QED BY <2>1, <2>2, <2>3, <2>4, <2>5, <3>1 DEF ExternalInv
  <2>6. CASE n # "initialize-make-payment"
    <3>1. Agreeable(external) /\ session.Iivr_basic_step_name = Head(external)
      BY <2>6 DEF ExternalInv
    <3>2. ahead # external =>
             /\ n = agree <=> Head(external) = "confirmation"
             /\ Head(external) = "confirmation" <=> Head(ahead) = "end"
      BY <2>6, <3>1, OneForward
    <3>3. Accepts(ahead) => ahead # external
      BY <3>1 DEF Accepts
    <3>4. Submits(ahead) <=> n = agree /\ ahead # external
      BY <3>2 DEF Submits
    <3>5. n = agree /\ ahead # external => Accepts(ahead)
      BY <3>1, <3>2 DEF Accepts
    <3> QED BY <2>1, <2>2, <2>3, <2>4, <3>2, <3>3, <3>4, <3>5 DEF ExternalInv
  <2> QED BY <2>5, <2>6
<1> QED BY <1>1, <1>2 DEF RunAvantBasic

-----------------------------------------------------------------------------
(* What the steps of the tree do *)

\* The branches that are read from the reply to the terms and from the zip code.
LEMMA MapFacts ==
    /\ DOMAIN Maps = MapNames /\ DOMAIN Constants \cap MapNames = {}
    /\ "continue-on-confirmation" \in MapNames /\ ZipCodeMaps \subseteq MapNames
    /\ LET map == Maps["continue-on-confirmation"] IN
           /\ map.field = "confirmation" /\ map.default = "payment_not_made"
           /\ DOMAIN map.branches = {"pay"}
    /\ \A n \in ZipCodeMaps :
           LET map == Maps[n] IN
           /\ map.field = "confirmed_zip_code" /\ map.default = NoBranch
           /\ \A v \in DOMAIN map.branches : map.branches[v] = "get_customer_info" => v = "True"
<1>1. DOMAIN Maps = MapNames /\ DOMAIN Constants \cap MapNames = {}
  BY DEF Maps, MapNames, Constants
<1>2. "continue-on-confirmation" \in MapNames /\ ZipCodeMaps \subseteq MapNames
  BY DEF MapNames, ZipCodeMaps
<1>3. Maps["continue-on-confirmation"] =
          FieldMap("confirmation", Only("pay", "confirmation"), "payment_not_made")
  BY <1>2 DEF Maps
<1>4. /\ Maps["branch-on-zip-code-response"] =
             FieldMap("confirmed_zip_code", TrueOrFalse("get_customer_info", "root"), NoBranch)
      /\ Maps["branch-on-zip-code-retry"] =
             FieldMap("confirmed_zip_code", Only("True", "get_customer_info"), NoBranch)
  BY <1>2 DEF Maps, ZipCodeMaps
<1> QED BY <1>1, <1>2, <1>3, <1>4 DEF FieldMap, Only, TrueOrFalse, ZipCodeMaps

\* The three ways in which a step leaves the session and the external workflow.
LEMMA RunDoes ==
    ASSUME RunPaymentStep, DOMAIN session = Fields
    PROVE  \/ RunAvantBasic
           \/ /\ DOMAIN session' = Fields /\ UNCHANGED <<external, submitted, lost>>
              /\ session'.Iivr_basic_step_name = session.Iivr_basic_step_name
              /\ session'.confirmed_zip_code # session.confirmed_zip_code =>
                    Current.name \in {"check-zip-code", "recheck-zip-code"}
              /\ session'.confirmation # session.confirmation => GatherConfirmation
              /\ consent' # consent => ShowTerms \/ GatherConfirmation
<1>F. {"confirmed_zip_code", "confirmation", "Iivr_basic_step_name"} \subseteq Fields
  BY DEF Fields
<1>1. CASE GatherZip \/ GatherAmount \/ ShowTerms \/ CopyDate \/ LookUpCustomer \/ Decide \/ StoresNothing
  BY <1>1, <1>F DEF GatherZip, GatherAmount, ShowTerms, CopyDate, LookUpCustomer, Decide, StoresNothing,
                    StoreInput, Store, payment, dealings
<1>2. CASE GatherConfirmation
  BY <1>2, <1>F DEF GatherConfirmation, StoreInput, Store
<1>3. CASE SetField
  <2>1. \A n \in DOMAIN Constants :
           Constants[n][1] \in {"upcoming_payment", "play_additional_confirmation_message",
                               "potential_cutoff_scenario"}
    BY DEF Constants
  <2> QED BY <1>3, <1>F, <2>1 DEF SetField, Store
<1> QED BY <1>1, <1>2, <1>3 DEF RunPaymentStep

\* The step that is run says what it does by its name.
LEMMA CallsOutside ==
    ASSUME Tree = MakePaymentTree, EngineInv, SkipInv, RunPaymentStep, RunAvantBasic,
           PlaceInv, NEW n, n = Current.name
    PROVE  /\ n \in OutsideSteps
           /\ n \notin {"show-confirmation-of-payment-terms", "get-confirmation-of-payment-terms",
                        "continue-on-confirmation", "play-confirmation-payment-submitted"}
           /\ external = <<>> => n = "initialize-make-payment"
<1>b. PICK b : b = Current.branch
  OBVIOUS
<1>1. wsrs # <<>> /\ CurrentStep.name = n /\ IsWhatItIsCalled(b, CurrentStep)
  BY <1>b, Running DEF RunPaymentStep
<1>2. n \in OutsideSteps
  BY <1>1 DEF RunAvantBasic, IsWhatItIsCalled
<1>3. external = <<>> => Early(b, n)
  BY <1>1, <1>b DEF PlaceInv, UnderWayAt
<1> QED BY <1>1, <1>2, <1>3 DEF IsWhatItIsCalled, OutsideSteps

\* From the terms to the agreement, each step does its part.
LEMMA AgreedRun ==
    ASSUME Tree = MakePaymentTree, EngineInv, SkipInv, RunPaymentStep, PaymentInv,
           NEW n, n = Current.name
    PROVE  AgreedAt(n)'
<1>b. PICK b : b = Current.branch
  OBVIOUS
<1>1. /\ wsrs # <<>> /\ pc' = "handle" /\ CurrentStep.name = n /\ IsWhatItIsCalled(b, CurrentStep)
  BY <1>b, Running DEF RunPaymentStep
<1>2. AgreedAt(n) /\ DOMAIN session = Fields /\ pc = "run"
  BY <1>1 DEF PaymentInv, PlaceInv, RunPaymentStep, RunStep
<1>3. n = "show-confirmation-of-payment-terms" => consent' = "due"
  <2> SUFFICES ASSUME n = "show-confirmation-of-payment-terms" PROVE consent' = "due"
    OBVIOUS
  <2>1. CurrentStep.type = "PlayMessageStep"
    BY <1>1 DEF IsWhatItIsCalled
  <2>2. n \notin MapNames /\ n \notin DOMAIN Constants
    BY <1>1, <2>1 DEF IsWhatItIsCalled, Constants
  <2> QED BY <2>1, <2>2, MapFacts
          DEF RunPaymentStep, GatherZip, GatherAmount, GatherConfirmation, ShowTerms, SetField, CopyDate,
              LookUpCustomer, Decide, RunAvantBasic, StoresNothing
<1>4. n = "get-confirmation-of-payment-terms" =>
         /\ consent' \in Consents \ {"none"}
         /\ result'.kind = "success" /\ session'.confirmation = "pay" => Agreed'
  <2> SUFFICES ASSUME n = "get-confirmation-of-payment-terms"
               PROVE  /\ consent' \in Consents \ {"none"}
                      /\ result'.kind = "success" /\ session'.confirmation = "pay" => Agreed'
    OBVIOUS
  <2>1. CurrentStep.type = "InputStep"
    BY <1>1 DEF IsWhatItIsCalled
  <2>2. n \notin MapNames /\ n \notin DOMAIN Constants
    BY <1>1, <2>1 DEF IsWhatItIsCalled, Constants
  <2>3. GatherConfirmation
    BY <2>1, <2>2, MapFacts
       DEF RunPaymentStep, GatherZip, GatherAmount, GatherConfirmation, ShowTerms, SetField, CopyDate,
           LookUpCustomer, Decide, RunAvantBasic, StoresNothing
  <2>4. result'.kind = "success" => result' = Success
    <3>1. result' \in InputOutcomes(CurrentStep)
      BY <2>1 DEF RunPaymentStep, RunStep, Outcomes, InputTypes
    <3> QED BY <2>1, <3>1 DEF InputOutcomes, MenuTypes, Success, Retryable, Outcome
  <2>5. consent \in Consents \ {"none", "due"}
    BY <1>1, <1>2 DEF AgreedAt, PaymentInv, ConsentInv
  <2> QED BY <2>3, <2>4, <2>5 DEF GatherConfirmation, AgreeingTo, Consents, Agreed
<1>5. n = "continue-on-confirmation" =>
         /\ session'.confirmation = "pay" => Agreed'
         /\ result'.kind = "success" /\ result'.branch = "confirmation" => session'.confirmation = "pay"
  <2> SUFFICES ASSUME n = "continue-on-confirmation"
               PROVE  /\ session'.confirmation = "pay" => Agreed'
                      /\ result'.kind = "success" /\ result'.branch = "confirmation" => session'.confirmation = "pay"
    OBVIOUS
  <2>1. CurrentStep.type = "BranchMapWorkflowStep" /\ n \in DOMAIN Maps /\ n \notin DOMAIN Constants
    BY <1>1, MapFacts DEF IsWhatItIsCalled
  <2>2. Decide
    BY <2>1 DEF RunPaymentStep, GatherZip, GatherAmount, GatherConfirmation, ShowTerms, SetField, CopyDate,
           LookUpCustomer, Decide, RunAvantBasic, StoresNothing
  <2>3. session' = session /\ consent' = consent
    BY <2>2 DEF Decide, payment, dealings
  <2>4. result'.branch = "confirmation" => session.confirmation = "pay" \/ result'.kind # "success"
    BY <2>2, MapFacts DEF Decide, BranchTo, Retryable, Outcome
  <2> QED BY <1>2, <2>3, <2>4 DEF AgreedAt, Agreed
<1>6. n = "run-workflow-step-with-agreement" => Agreed' \/ Head(external') # "confirmation"
  <2> SUFFICES ASSUME n = "run-workflow-step-with-agreement"
               PROVE  Agreed' \/ Head(external') # "confirmation"
    OBVIOUS
  <2>1. CurrentStep.type = "AvantBasicWorkflowStep" /\ n \notin MapNames /\ n \notin DOMAIN Constants
    BY <1>1, MapFacts DEF IsWhatItIsCalled, OutsideSteps, Constants
  <2>2. RunAvantBasic
    BY <2>1, MapFacts
       DEF RunPaymentStep, GatherZip, GatherAmount, GatherConfirmation, ShowTerms, SetField, CopyDate,
           LookUpCustomer, Decide, StoresNothing
  <2>3. external = <<>> => n = "initialize-make-payment"
    BY <2>2, CallsOutside DEF PaymentInv
  <2>4. /\ consent' = consent \/ result'.kind = "success"
        /\ (external' # external \/ result'.kind = "success") => Head(external') = "end"
    BY <2>2, <2>3, OutsideDoes DEF PaymentInv, HeardInv
  <2> QED BY <1>2, <2>4 DEF AgreedAt, Agreed
<1> QED BY <1>1, <1>3, <1>4, <1>5, <1>6 DEF AgreedAt, Agreed

\* The zip code is checked only on the branches that ask for it, and what was found
\* is what the run branches on.
LEMMA ConfirmedRun ==
    ASSUME Tree = MakePaymentTree, EngineInv, SkipInv, RunPaymentStep, PaymentInv,
           NEW b, b = Current.branch, NEW n, n = Current.name
    PROVE  ConfirmedAt(b, n)'
<1>1. wsrs # <<>> /\ CurrentStep.name = n /\ IsWhatItIsCalled(b, CurrentStep)
  BY Running DEF RunPaymentStep
<1>2. ConfirmedAt(b, n) /\ DOMAIN session = Fields
  BY <1>1 DEF PaymentInv, PlaceInv
<1>3. \/ session'.confirmed_zip_code = session.confirmed_zip_code
      \/ n \in {"check-zip-code", "recheck-zip-code"}
  <2>1. CASE RunAvantBasic
    <3>1. external = <<>> => n = "initialize-make-payment"
      BY <2>1, CallsOutside DEF PaymentInv
    <3>2. "confirmed_zip_code" \in Fields \ {"Iivr_basic_step_name", "date"}
      BY DEF Fields
    <3> QED BY <2>1, <3>1, <3>2, OutsideDoes DEF PaymentInv, HeardInv
  <2> QED BY <1>2, <2>1, RunDoes
<1>4. b \notin IdentityBranches => session'.confirmed_zip_code = "True"
  BY <1>1, <1>2, <1>3 DEF IsWhatItIsCalled, IdentityBranches, ConfirmedAt
<1>5. n \in ZipCodeMaps /\ result'.kind = "success" /\ result'.branch = "get_customer_info"
         => session'.confirmed_zip_code = "True"
  <2> SUFFICES ASSUME n \in ZipCodeMaps, result'.kind = "success", result'.branch = "get_customer_info"
               PROVE  session'.confirmed_zip_code = "True"
    OBVIOUS
  <2>1. CurrentStep.type = "BranchMapWorkflowStep" /\ n \in DOMAIN Maps /\ n \notin DOMAIN Constants
    BY <1>1, MapFacts DEF IsWhatItIsCalled
  <2>2. Decide
    BY <2>1 DEF RunPaymentStep, GatherZip, GatherAmount, GatherConfirmation, ShowTerms, SetField, CopyDate,
           LookUpCustomer, Decide, RunAvantBasic, StoresNothing, ZipCodeMaps
  <2>3. session' = session
    BY <2>2 DEF Decide, payment, dealings
  <2>m. PICK map : map = Maps[n]
    OBVIOUS
  <2>4. /\ map.field = "confirmed_zip_code" /\ map.default = NoBranch
        /\ \A v \in DOMAIN map.branches : map.branches[v] = "get_customer_info" => v = "True"
    BY <2>m, MapFacts
  <2>5. "get_customer_info" # NoBranch
    BY TreeAssumption DEF MakePaymentTree, WithWorkflowBranch, NamedBranches
  <2> QED BY <2>2, <2>3, <2>m, <2>4, <2>5 DEF Decide, BranchTo, Retryable, Outcome
<1> QED BY <1>4, <1>5 DEF ConfirmedAt

\* Once it was answered, an external workflow is under way.
LEMMA UnderWayRun ==
    ASSUME Tree = MakePaymentTree, EngineInv, SkipInv, RunPaymentStep, PaymentInv,
           NEW b, b = Current.branch, NEW n, n = Current.name
    PROVE  UnderWayAt(b, n)'
<1>1. wsrs # <<>> /\ CurrentStep.name = n /\ IsWhatItIsCalled(b, CurrentStep)
  BY Running DEF RunPaymentStep
<1>2. UnderWayAt(b, n) /\ DOMAIN session = Fields
  BY <1>1 DEF PaymentInv, PlaceInv
<1>3. CASE RunAvantBasic
  <2>1. external = <<>> => n = "initialize-make-payment"
    BY <1>3, CallsOutside DEF PaymentInv
  <2>2. external' # <<>> \/ (external = <<>> /\ result'.kind # "success")
    BY <1>3, <2>1, OutsideDoes DEF PaymentInv, HeardInv
  <2> QED BY <1>2, <2>2 DEF UnderWayAt, Early
<1>4. CASE ~RunAvantBasic
  <2>1. external' = external
    BY <1>2, <1>4, RunDoes
  <2>2. n = "initialize-make-payment" => FALSE
    <3>1. n = "initialize-make-payment" =>
             CurrentStep.type = "AvantBasicWorkflowStep" /\ n \notin MapNames /\ n \notin DOMAIN Constants
      BY <1>1 DEF IsWhatItIsCalled, OutsideSteps, Constants
    <3> QED BY <1>4, <3>1, MapFacts
            DEF RunPaymentStep, GatherZip, GatherAmount, GatherConfirmation, ShowTerms, SetField, CopyDate,
                LookUpCustomer, Decide, StoresNothing
  <2> QED BY <1>2, <2>1, <2>2 DEF UnderWayAt, Early
<1> QED BY <1>3, <1>4

\* Where the run goes when a result is handled, the consent is what the place needs.
LEMMA AgreedGoes ==
    ASSUME NEW b, NEW n, NEW c, NEW m, Goes(b, n, c, m), AgreedAt(n), pc' # "handle",
           TermsSent, UNCHANGED dealings
    PROVE  AgreedAt(m)'
<1>1. /\ Agreed => Agreed'
      /\ consent \in Consents \ {"none"} => consent' \in Consents \ {"none"}
  BY DEF TermsSent, Agreed, Consents
<1>2. CASE m = n
  BY <1>1, <1>2 DEF AgreedAt, Agreed, dealings
<1>3. CASE pc = "handle" /\ result.kind = "success" /\ TakesTo(b, n, c, m) /\ (n \in MapNames => c = result.branch)
  <2>1. m = "get-confirmation-of-payment-terms" => consent \in Consents \ {"none"}
    BY <1>3 DEF AgreedAt, TakesTo, Consents
  <2>2. m = "continue-on-confirmation" /\ session.confirmation = "pay" => Agreed
    BY <1>3 DEF AgreedAt, TakesTo
  <2>3. m = "run-workflow-step-with-agreement" => Agreed
    BY <1>3, MapFacts DEF AgreedAt, TakesTo
  <2> QED BY <1>1, <2>1, <2>2, <2>3 DEF AgreedAt, Agreed, dealings
<1>4. CASE FallsBackTo(b, n, c, m)
  BY <1>4 DEF AgreedAt, FallsBackTo
<1> QED BY <1>2, <1>3, <1>4 DEF Goes

\* What is to be sent is the terms, put together by the step that was just run.
LEMMA ConsentRun ==
    ASSUME Tree = MakePaymentTree, EngineInv, SkipInv, RunPaymentStep, PaymentInv
    PROVE  ConsentInv'
<1>n. PICK n : n = Current.name
  OBVIOUS
<1>b. PICK b : b = Current.branch
  OBVIOUS
<1>1. /\ wsrs' # <<>> /\ pc = "run" /\ pc' = "handle" /\ failures' = failures /\ Current'.name = n
      /\ CurrentStep.name = n /\ IsWhatItIsCalled(b, CurrentStep)
  BY <1>n, <1>b, Running DEF RunPaymentStep, RunStep
<1>2. ConsentInv /\ consent # "due" /\ DOMAIN session = Fields
  BY <1>1 DEF PaymentInv, ConsentInv
<1>3. CASE ShowTerms
  <2>1. n = "show-confirmation-of-payment-terms" /\ consent' = "due"
    BY <1>3, <1>n DEF ShowTerms
  <2>2. CurrentStep.type = "PlayMessageStep"
    BY <1>1, <2>1 DEF IsWhatItIsCalled
  <2>3. result' = Success
    BY <2>2 DEF RunPaymentStep, RunStep, Outcomes, PlainOutcomes, InputTypes, MenuTypes
  <2> QED BY <1>1, <2>1, <2>3 DEF ConsentInv, Success, Outcome
<1>4. CASE GatherConfirmation
  <2>1. consent' = consent \/ consent' = "given" \/ (consent = "unsent" /\ consent' = "blind")
    BY <1>4 DEF GatherConfirmation, AgreeingTo
  <2> QED BY <1>1, <1>2, <2>1 DEF ConsentInv
<1>5. CASE RunAvantBasic
  <2>1. consent' = consent \/ consent' = "none"
    BY <1>5 DEF RunAvantBasic, NoAnswer, Answer, AcceptedUnheard, payment
  <2> QED BY <1>1, <1>2, <2>1 DEF ConsentInv
<1>6. CASE consent' = consent
  BY <1>1, <1>2, <1>6 DEF ConsentInv
<1> QED BY <1>2, <1>3, <1>4, <1>5, <1>6, RunDoes

\* From the terms the run goes on to the reply, and the request is answered, unless
\* it is cut short.
LEMMA TermsAsk ==
    ASSUME Tree = MakePaymentTree, EngineInv, SkipInv, [Next]_vars,
           pc = "handle", pc' \notin {"handle", "idle"}, result.kind = "success",
           Current.name = "show-confirmation-of-payment-terms"
    PROVE  /\ wsrs' # <<>> /\ Current'.name = "get-confirmation-of-payment-terms"
           /\ pc' = "respond" /\ reply'.kind = "prompt"
<1>b. PICK b : b = Current.branch
  OBVIOUS
<1>n. PICK n : n = Current.name
  OBVIOUS
<1>1. wsrs # <<>> /\ state # "finished" /\ HasStep(branch, n) /\ branch = b
  BY <1>b, <1>n DEF EngineInv, AtStep, SkipInv, OnBranch
<1>i. PICK i : i = IndexOf(b, n)
  OBVIOUS
<1>2. /\ CurrentStep.name = n /\ IsWhatItIsCalled(b, CurrentStep) /\ StepLeads(b, i)
      /\ CurrentStep = Tree[b].steps[i] /\ CurrentStep = Template(b, n)
      /\ b \in DOMAIN Tree
  BY <1>1, <1>n, <1>i, Placed DEF CurrentStep
<1>3. /\ ~IsBranch(CurrentStep) /\ ExitOfCurrent = NoExit
      /\ i + 1 \in DOMAIN Tree[b].steps
      /\ Tree[b].steps[i + 1].name = "get-confirmation-of-payment-terms"
  BY <1>2, <1>n, <1>b DEF IsWhatItIsCalled, StepLeads, IsBranch, BranchTypes, ExitOfCurrent
<1>4. IsInput(Tree[b].steps[i + 1])
  <2>1. StepLeads(b, i + 1)
    BY <1>2, <1>3, PaymentTreeLeads
  <2> QED BY <1>3, <2>1 DEF StepLeads, IsWhatItIsCalled, IsInput, InputTypes
<1>5. NextIndex(branch) = i + 1 /\ BranchAfterSuccess = branch
  BY <1>1, <1>3, <1>n, <1>i, NextAfterCurrent DEF BranchAfterSuccess
<1>6. CanAdvance(branch) /\ NextStep(branch) = Tree[b].steps[i + 1]
  <2>1. Tree[branch].steps \in Seq(StepTemplate)
    BY <1>1, <1>2, TreeAssumption DEF StepBranch
  <2> QED BY <1>1, <1>2, <1>3, <1>5, <2>1 DEF CanAdvance, NextStep
<1>7. ~DeadEnd
  BY <1>5, <1>6 DEF DeadEnd, OutOfRetries
<1>8. HandleNextInput \/ HandleNextStep
  <2>1. CASE Quiet
    BY <1>7, <2>1
       DEF Quiet, vars, request, Request, InitializeCurrent, InitializeRaises, Start, RejectState,
           AcceptInput, AskForInput, PrepareOtherStep, HandleDeadEnd, EndLeg, Respond, Fail
  <2>2. CASE HandleResult
    BY <1>3, <2>2 DEF HandleResult, HandlePressZero, HandleReplay, HandleExit, HandleRetry,
                      HandleErrorSwitch, HandleUnrecoverable, OutOfRetries
  <2>3. ~InitializeFirst /\ ~RunStep
    BY DEF InitializeFirst, RunStep
  <2> QED BY <2>1, <2>2, <2>3, Steps
<1>9. wsrs' # <<>> /\ Follows
  BY <1>3, <1>8, SuccessLeads, PaymentTreeIsSound DEF Branches
<1>10. Current'.name = "get-confirmation-of-payment-terms"
  BY <1>1, <1>3, <1>9, <1>n, <1>i DEF Follows
<1>11. HandleNextInput
  BY <1>4, <1>5, <1>6, <1>8 DEF HandleNextStep
<1>12. pc' = "respond" /\ reply'.kind = "prompt"
  BY <1>4, <1>5, <1>6, <1>11 DEF HandleNextInput, ContinueWith, Prompt
<1> QED BY <1>9, <1>10, <1>12

\* The branches past the zip code are entered only when it was found right.
LEMMA ConfirmedGoes ==
    ASSUME NEW b, NEW n, NEW c, NEW m, Goes(b, n, c, m), ConfirmedAt(b, n), pc' # "handle", UNCHANGED dealings
    PROVE  ConfirmedAt(c, m)'
<1>1. c \notin IdentityBranches => session.confirmed_zip_code = "True"
  BY MapFacts DEF Goes, ConfirmedAt, TakesTo, FallsBackTo
<1> QED BY <1>1 DEF ConfirmedAt, dealings

\* The steps past the early ones are reached only when a workflow was begun.
LEMMA UnderWayGoes ==
    ASSUME NEW b, NEW n, NEW c, NEW m, Goes(b, n, c, m), UnderWayAt(b, n), pc' # "handle", UNCHANGED dealings
    PROVE  UnderWayAt(c, m)'
<1>1. external = <<>> => Early(c, m)
  BY DEF Goes, UnderWayAt, TakesTo, FallsBackTo
<1> QED BY <1>1 DEF UnderWayAt, dealings, Early

-----------------------------------------------------------------------------
(* What was submitted *)

\* Of what was submitted and not heard of, a step that is run adds as much to both
\* sides; what is heard of is on its way to the customer.
LEMMA HeardRun ==
    ASSUME Tree = MakePaymentTree, EngineInv, SkipInv, RunPaymentStep, PaymentInv
    PROVE  DOMAIN session' = Fields /\ ExternalInv' /\ HeardInv'
<1>n. PICK n : n = Current.name
  OBVIOUS
<1>b. PICK b : b = Current.branch
  OBVIOUS
<1>1. /\ wsrs # <<>> /\ wsrs' # <<>> /\ pc' = "handle" /\ failures' = failures /\ Current'.name = n
      /\ CurrentStep.name = n /\ IsWhatItIsCalled(b, CurrentStep)
  BY <1>n, <1>b, Running DEF RunPaymentStep
<1>2. /\ DOMAIN session = Fields /\ submitted \in Nat /\ lost \in Nat /\ failures \in Nat /\ pc = "run"
      /\ submitted <= lost + failures \/ (submitted <= 1 + lost + failures /\ Telling(n))
      /\ Telling(n) => submitted > 0 /\ n = "play-confirmation-payment-submitted"
  BY <1>1, <1>n DEF PaymentInv, HeardInv, RunPaymentStep, RunStep, EngineInv, TypeOK, Telling
<1>3. Telling(n)' <=> \/ n = "play-confirmation-payment-submitted"
                      \/ n = "run-workflow-step-with-agreement" /\ result'.kind = "success"
  BY <1>1 DEF Telling
<1>4. CASE RunAvantBasic
  <2>1. /\ n # "play-confirmation-payment-submitted"
        /\ external = <<>> => n = "initialize-make-payment"
    BY <1>4, <1>n, CallsOutside DEF PaymentInv
  <2>2. /\ DOMAIN session' = Fields /\ ExternalInv'
        /\ IF n = "run-workflow-step-with-agreement" /\ result'.kind = "success"
              THEN submitted' = submitted + 1 /\ lost' = lost
              ELSE \/ submitted' = submitted /\ lost' = lost
                   \/ submitted' = submitted + 1 /\ lost' = lost + 1
    BY <1>2, <1>4, <1>n, <2>1, OutsideDoes DEF PaymentInv
  <2>3. submitted <= lost + failures
    BY <1>2, <2>1
  <2>4. /\ submitted' \in Nat /\ lost' \in Nat
        /\ submitted' <= lost' + failures' \/ (submitted' <= 1 + lost' + failures' /\ Telling(n)')
        /\ Telling(n)' => submitted' > 0
    BY <1>1, <1>2, <1>3, <2>1, <2>2, <2>3
  <2> QED BY <1>1, <2>2, <2>4 DEF HeardInv
<1>5. CASE ~RunAvantBasic
  <2>1. /\ DOMAIN session' = Fields /\ UNCHANGED <<external, submitted, lost>>
        /\ session'.Iivr_basic_step_name = session.Iivr_basic_step_name
    BY <1>2, <1>5, RunDoes
  <2>2. n # "run-workflow-step-with-agreement"
    <3>1. n = "run-workflow-step-with-agreement" =>
             CurrentStep.type = "AvantBasicWorkflowStep" /\ n \notin MapNames /\ n \notin DOMAIN Constants
      BY <1>1 DEF IsWhatItIsCalled, OutsideSteps, Constants
    <3> QED BY <1>5, <1>n, <3>1, MapFacts
            DEF RunPaymentStep, GatherZip, GatherAmount, GatherConfirmation, ShowTerms, SetField, CopyDate,
                LookUpCustomer, Decide, StoresNothing
  <2>3. ExternalInv'
    BY <2>1 DEF PaymentInv, ExternalInv
  <2>4. /\ submitted' <= lost' + failures' \/ (submitted' <= 1 + lost' + failures' /\ Telling(n)')
        /\ Telling(n)' => submitted' > 0
    <3>1. CASE n = "play-confirmation-payment-submitted"
      <4>1. Telling(n) /\ Telling(n)'
        BY <1>3, <3>1 DEF Telling
      <4>2. submitted <= 1 + lost + failures /\ submitted > 0
        BY <1>2, <4>1
      <4> QED BY <1>1, <2>1, <4>1, <4>2
    <3>2. CASE n # "play-confirmation-payment-submitted"
      <4>1. ~Telling(n) /\ ~Telling(n)'
        BY <1>2, <1>3, <2>2, <3>2
      <4>2. submitted <= lost + failures
        BY <1>2, <4>1
      <4> QED BY <1>1, <2>1, <4>1, <4>2
    <3> QED BY <3>1, <3>2
  <2> QED BY <1>1, <1>2, <2>1, <2>3, <2>4 DEF HeardInv
<1> QED BY <1>4, <1>5

\* A request that is cut short when its agreement was accepted is one of those that
\* the count allows for.
LEMMA HeardCutShort ==
    ASSUME Tree = MakePaymentTree, EngineInv, SkipInv, CutShortAtAnswer, PaymentInv
    PROVE  PaymentInv'
<1>n. PICK n : n = Current.name
  OBVIOUS
<1>b. PICK b : b = Current.branch
  OBVIOUS
<1>1. /\ wsrs # <<>> /\ branch = b /\ HasStep(b, n)
  BY <1>b, <1>n DEF CutShortAtAnswer, Fail, EngineInv, AtStep, SkipInv, OnBranch
<1>2. CurrentStep.name = n /\ IsWhatItIsCalled(b, CurrentStep)
  BY <1>1, <1>n, Placed DEF CurrentStep
<1>3. n \in OutsideSteps
  BY <1>2 DEF CutShortAtAnswer, IsWhatItIsCalled
<1>4. /\ wsrs' = wsrs /\ Current' = Current /\ pc = "run" /\ pc' = "idle" /\ failures' = failures + 1
      /\ submitted' = submitted + 1 /\ lost' = lost /\ session' = session /\ external' = external
      /\ consent' = consent
  <2>1. consent # "due" \/ pc # "run"
    BY DEF PaymentInv, ConsentInv
  <2> QED BY <2>1 DEF CutShortAtAnswer, Fail, AcceptedUnheard, TermsSent, run, Current, CurrentId
<1>5. ~Telling(n) /\ ~Telling(n)'
  BY <1>3, <1>4 DEF Telling, OutsideSteps
<1>6. submitted <= lost + failures /\ submitted \in Nat /\ lost \in Nat /\ failures \in Nat
  BY <1>1, <1>5, <1>n DEF PaymentInv, HeardInv, EngineInv, TypeOK
<1>7. HeardInv'
  BY <1>4, <1>5, <1>6, <1>n DEF HeardInv
<1>8. ExternalInv' /\ DOMAIN session' = Fields /\ ConsentInv'
  BY <1>4, <1>6 DEF PaymentInv, ExternalInv, ConsentInv
<1>9. AgreedAt(n) /\ ConfirmedAt(b, n) /\ UnderWayAt(b, n)
  BY <1>1, <1>n, <1>b DEF PaymentInv, PlaceInv
<1>10. AgreedAt(n)' /\ ConfirmedAt(b, n)' /\ UnderWayAt(b, n)'
  BY <1>4, <1>9 DEF AgreedAt, Agreed, ConfirmedAt, UnderWayAt, Early
<1> QED BY <1>4, <1>7, <1>8, <1>10, <1>n, <1>b DEF PaymentInv, PlaceInv

\* Requests that were cut short are not forgotten.
LEMMA FailuresGrow ==
    ASSUME Tree = MakePaymentTree, EngineInv, SkipInv, [Next]_vars
    PROVE  failures \in Nat /\ failures' \in Nat /\ failures <= failures'
<1>1. CASE Quiet
  BY <1>1 DEF Quiet, vars, outside, Request, InitializeCurrent, InitializeRaises, Start, RejectState,
              AcceptInput, AskForInput, PrepareOtherStep, HandleDeadEnd, EndLeg, Respond, Fail, EngineInv, TypeOK
<1>2. CASE InitializeFirst \/ RunStep
  BY <1>2 DEF InitializeFirst, RunStep, outside, EngineInv, TypeOK
<1>3. CASE HandleResult
  BY <1>3, HandlerDoes, PaymentTreeIsSound DEF EngineInv, TypeOK
<1> QED BY <1>1, <1>2, <1>3, Steps

\* The terms are sent with the answer, which only a request that is cut short does not
\* give.
LEMMA ConsentGoes ==
    ASSUME Tree = MakePaymentTree, EngineInv, SkipInv, ConsentInv, [Next]_vars, pc' # "handle", TermsSent
    PROVE  ConsentInv'
<1>1. failures \in Nat /\ failures' \in Nat /\ failures <= failures'
  BY FailuresGrow
<1>2. ASSUME consent' = "due"
      PROVE  /\ wsrs' # <<>> /\ Current'.name = "get-confirmation-of-payment-terms"
             /\ pc' = "respond" /\ reply'.kind = "prompt"
  <2>1. consent = "due" /\ pc' # "idle"
    BY <1>2 DEF TermsSent
  <2>2. CASE pc = "handle"
    BY <2>1, <2>2, TermsAsk DEF ConsentInv
  <2>3. CASE pc = "respond"
    <3>1. [Next]_vars => UNCHANGED vars \/ pc' = "idle"
      BY <2>3 DEF Next, Serve, Request, InitializeFirst, InitializeCurrent, InitializeRaises, Start,
                  RejectState, AcceptInput, AskForInput, PrepareOtherStep, RunStep, HandlePressZero,
                  HandleReplay, HandleExit, HandleNextInput, HandleNextStep, HandleRetry, HandleErrorSwitch,
                  HandleUnrecoverable, HandleDeadEnd, EndLeg, Respond, Fail
    <3>2. UNCHANGED vars
      BY <2>1, <3>1
    <3>3. pc' = pc /\ reply' = reply /\ wsrs' = wsrs /\ Current' = Current
      BY <3>2 DEF vars, run, request, Current, CurrentId
    <3> QED BY <2>1, <2>3, <3>3 DEF ConsentInv
  <2> QED BY <2>1, <2>2, <2>3 DEF ConsentInv
<1>3. ASSUME consent' \in {"unsent", "blind"} PROVE failures' > 0
  <2>1. CASE consent' = consent
    <3>1. failures > 0
      BY <1>3, <2>1 DEF ConsentInv
    <3> QED BY <1>1, <3>1
  <2>2. CASE consent' # consent
    <3>1. consent = "due" /\ pc' = "idle" /\ reply'.kind = "failed"
      BY <1>3, <2>2 DEF TermsSent
    <3>2. pc = "handle" \/ (pc = "respond" /\ reply.kind = "prompt")
      BY <3>1 DEF ConsentInv
    <3>3. Fail \/ reply' = reply
      BY <3>1, <3>2 DEF Next, Serve, vars, request, Request, InitializeFirst, InitializeCurrent,
                  InitializeRaises, Start, RejectState, AcceptInput, AskForInput, PrepareOtherStep, RunStep,
                  HandlePressZero, HandleReplay, HandleExit, HandleNextInput, HandleNextStep, HandleRetry,
                  HandleErrorSwitch, HandleUnrecoverable, HandleDeadEnd, EndLeg, Respond, ContinueWith
    <3>4. CASE Fail
      BY <1>1, <3>4 DEF Fail
    <3>5. CASE ~Fail
      <4>1. pc = "handle" => pc' # "idle"
        BY <3>5 DEF Next, Serve, vars, request, Request, InitializeFirst, InitializeCurrent,
                  InitializeRaises, Start, RejectState, AcceptInput, AskForInput, PrepareOtherStep, RunStep,
                  HandlePressZero, HandleReplay, HandleExit, HandleNextInput, HandleNextStep, HandleRetry,
                  HandleErrorSwitch, HandleUnrecoverable, HandleDeadEnd, EndLeg, Respond, ContinueWith
      <4> QED BY <3>1, <3>2, <3>3, <3>5, <4>1
    <3> QED BY <3>4, <3>5
  <2> QED BY <2>1, <2>2
<1> QED BY <1>2, <1>3 DEF ConsentInv

\* An agreement that the run heard of takes it to the step that tells the customer,
\* which it does not leave, unless the request is cut short.
LEMMA HeardGoes ==
    ASSUME Tree = MakePaymentTree, EngineInv, SkipInv, HeardInv, [Next]_vars, pc' # "handle",
           UNCHANGED dealings, wsrs # <<>>
    PROVE  HeardInv'
<1>p. PICK b, n, c, m : b = Current.branch /\ n = Current.name /\ c = Current'.branch /\ m = Current'.name
  OBVIOUS
<1>1. wsrs' # <<>> /\ Goes(b, n, c, m)
  BY <1>p, GoesNext
<1>2. submitted' = submitted /\ lost' = lost /\ failures \in Nat /\ failures' \in Nat /\ failures <= failures'
  BY FailuresGrow DEF dealings
<1>3. Telling(m)' <=> m = "play-confirmation-payment-submitted"
  BY DEF Telling
<1>4. CASE ~Telling(n)
  <2>1. ~(m = "play-confirmation-payment-submitted")
    BY <1>1, <1>4 DEF Goes, TakesTo, FallsBackTo, Telling
  <2>2. submitted \in Nat /\ lost \in Nat /\ submitted <= lost + failures
    BY <1>4, <1>p DEF HeardInv
  <2>3. submitted' \in Nat /\ lost' \in Nat /\ submitted' <= lost' + failures'
    <3>1. \A s, l, f, g \in Nat : f <= g /\ s <= l + f => s <= l + g
      OBVIOUS
    <3>2. submitted <= lost + failures'
      BY <1>2, <2>2, <3>1
    <3> QED BY <1>2, <2>2, <3>2
  <2> QED BY <1>1, <1>3, <1>p, <2>1, <2>3 DEF HeardInv
<1>5. CASE Telling(n)
  <2>1. submitted \in Nat /\ lost \in Nat /\ submitted <= 1 + lost + failures /\ submitted > 0
    BY <1>5, <1>2, <1>p DEF HeardInv
  <2>2. m = "play-confirmation-payment-submitted" \/ failures' = failures + 1
    <3>1. CASE n = "play-confirmation-payment-submitted"
      BY <1>1, <3>1 DEF Goes, TakesTo, FallsBackTo
    <3>2. CASE n = "run-workflow-step-with-agreement" /\ pc = "handle" /\ result.kind = "success"
      <4>1. CASE m # n
        BY <1>1, <3>2, <4>1 DEF Goes, TakesTo
      <4>2. CASE m = n
        <5>1. state # "finished" /\ HasStep(branch, n) /\ branch = b
          BY <3>2, <1>p DEF EngineInv, AtStep, SkipInv, OnBranch
        <5>2. /\ CurrentStep.name = n /\ IsWhatItIsCalled(b, CurrentStep) /\ StepLeads(b, IndexOf(b, n))
              /\ CurrentStep = Tree[b].steps[IndexOf(b, n)] /\ CurrentStep = Template(b, n)
          BY <5>1, <1>p, Placed DEF CurrentStep
        <5>3. /\ ~IsBranch(CurrentStep) /\ ExitOfCurrent = NoExit
              /\ IndexOf(b, n) + 1 \in DOMAIN Tree[b].steps
          BY <3>2, <5>2, <1>p DEF IsWhatItIsCalled, StepLeads, IsBranch, BranchTypes, ExitOfCurrent, OutsideSteps
        <5>4. Follows \/ failures' = failures + 1
          BY <3>2, <5>1, <5>3, <1>p, SuccessGoesOn, PaymentTreeIsSound
        <5>5. ~Follows
          <6>1. Follows => Goes(b, n, b, m) /\ m = Tree[b].steps[IndexOf(b, n) + 1].name
            BY <1>1, <5>1, <1>p DEF Follows
          <6>2. ComesNext(b, IndexOf(b, n), b, IndexOf(b, n) + 1)
            BY DEF ComesNext
          <6>3. b \in DOMAIN Tree
            BY <5>1 DEF HasStep
          <6>4. TakesTo(b, n, b, Tree[b].steps[IndexOf(b, n) + 1].name)
            BY <5>2, <5>3, <6>2, <6>3 DEF StepLeads
          <6> QED BY <3>2, <4>2, <6>1, <6>4 DEF TakesTo
        <5> QED BY <5>4, <5>5
      <4> QED BY <4>1, <4>2
    <3> QED BY <1>5, <3>1, <3>2 DEF Telling
  <2>3. /\ submitted' \in Nat /\ lost' \in Nat /\ submitted' > 0
        /\ \/ submitted' <= lost' + failures'
           \/ submitted' <= 1 + lost' + failures' /\ Telling(m)'
    <3>1. \A s, l, f, g \in Nat :
             f <= g /\ s <= 1 + l + f => s <= 1 + l + g /\ (g = f + 1 => s <= l + g)
      OBVIOUS
    <3>2. submitted <= 1 + lost + failures' /\ (failures' = failures + 1 => submitted <= lost + failures')
      BY <1>2, <2>1, <3>1
    <3> QED BY <1>2, <1>3, <2>1, <2>2, <3>2
  <2> QED BY <1>1, <1>p, <2>3 DEF HeardInv
<1> QED BY <1>4, <1>5

-----------------------------------------------------------------------------
(* The invariant *)

\* A step of the payment is a step of the engine or leaves it alone.
LEMMA PaymentSteps == [PaymentNext]_paymentVars => [Next]_vars
BY DEF PaymentNext, RunPaymentStep, CutShortAtAnswer, paymentVars, Next, Serve

\* A run that was not served has stored nothing and asked for no payment.
LEMMA PaymentInvInit ==
    ASSUME PaymentInit
    PROVE  PaymentInv
<1>1. wsrs = <<>> /\ submitted = 0 /\ lost = 0 /\ failures = 0 /\ external = <<>> /\ consent = "none"
  BY DEF PaymentInit, Init
<1>2. DOMAIN session = Fields
  BY DEF PaymentInit
<1> QED BY <1>1, <1>2 DEF PaymentInv, ExternalInv, HeardInv, ConsentInv, PlaceInv

\* Every step of the engine, with what it stores and what the external workflow does,
\* keeps them in step with the run.
LEMMA PaymentInvNext ==
    ASSUME Tree = MakePaymentTree, EngineInv, HistoryInv, PaymentInv, [PaymentNext]_paymentVars
    PROVE  PaymentInv'
<1>1. [Next]_vars /\ SkipInv
  BY PaymentSteps DEF HistoryInv
<1>p. PICK b, n, c, m : b = Current.branch /\ n = Current.name /\ c = Current'.branch /\ m = Current'.name
  OBVIOUS
<1>2. CASE UNCHANGED paymentVars
  <2>1. /\ UNCHANGED <<pc, result, reply, wsrs, stepRuns, failures, session, external, consent, submitted, lost>>
        /\ Current' = Current
    BY <1>2 DEF paymentVars, payment, dealings, vars, run, request, outside, Current, CurrentId
  <2>2. ExternalInv' /\ DOMAIN session' = Fields
    BY <2>1 DEF PaymentInv, ExternalInv
  <2>3. HeardInv' /\ ConsentInv'
    BY <2>1 DEF PaymentInv, HeardInv, ConsentInv, Telling
  <2>4. PlaceInv'
    BY <2>1 DEF PaymentInv, PlaceInv, AgreedAt, Agreed, ConfirmedAt, UnderWayAt, Early
  <2> QED BY <2>2, <2>3, <2>4 DEF PaymentInv
<1>3. CASE RunPaymentStep
  <2>1. wsrs # <<>> /\ c = b /\ m = n
    BY <1>1, <1>3, <1>p, Running DEF RunPaymentStep
  <2>2. DOMAIN session' = Fields /\ ExternalInv' /\ HeardInv' /\ ConsentInv'
    BY <1>1, <1>3, HeardRun, ConsentRun
  <2>3. AgreedAt(n)' /\ ConfirmedAt(b, n)' /\ UnderWayAt(b, n)'
    BY <1>1, <1>3, <1>p, AgreedRun, ConfirmedRun, UnderWayRun
  <2> QED BY <1>p, <2>1, <2>2, <2>3 DEF PaymentInv, PlaceInv
<1>4. CASE CutShortAtAnswer
  BY <1>1, <1>4, HeardCutShort
<1>5. CASE Next /\ pc' # "handle" /\ TermsSent /\ UNCHANGED dealings
  <2>1. ExternalInv' /\ DOMAIN session' = Fields /\ ConsentInv'
    BY <1>1, <1>5, ConsentGoes DEF PaymentInv, ExternalInv, dealings
  <2>2. CASE wsrs # <<>>
    <3>1. HeardInv'
      BY <1>1, <1>5, <2>2, HeardGoes DEF PaymentInv
    <3>2. Goes(b, n, c, m)
      BY <1>1, <1>p, <2>2, GoesNext
    <3>3. AgreedAt(n) /\ ConfirmedAt(b, n) /\ UnderWayAt(b, n)
      BY <1>p, <2>2 DEF PaymentInv, PlaceInv
    <3>4. AgreedAt(m)' /\ ConfirmedAt(c, m)' /\ UnderWayAt(c, m)'
      BY <1>5, <3>2, <3>3, AgreedGoes, ConfirmedGoes, UnderWayGoes
    <3> QED BY <1>p, <2>1, <3>1, <3>4 DEF PaymentInv, PlaceInv
  <2>3. CASE wsrs = <<>>
    <3>1. wsrs' # <<>> => m = "gather-zip-code" /\ c = "root"
      BY <1>1, <1>p, <2>3, StartsAtRoot, PaymentTreeLeads DEF Root
    <3>2. m = "gather-zip-code" /\ c = "root" => AgreedAt(m)' /\ ConfirmedAt(c, m)' /\ UnderWayAt(c, m)'
      BY <1>5 DEF AgreedAt, ConfirmedAt, UnderWayAt, Early, IdentityBranches, ZipCodeMaps
    <3>3. HeardInv'
      <4>1. failures \in Nat /\ failures' \in Nat /\ failures <= failures'
        BY <1>1, FailuresGrow
      <4>2. submitted \in Nat /\ lost \in Nat /\ submitted <= lost + failures
        BY <2>3 DEF PaymentInv, HeardInv
      <4>3. \A i, l, f, g \in Nat : f <= g /\ i <= l + f => i <= l + g
        OBVIOUS
      <4>4. submitted <= lost + failures'
        BY <4>1, <4>2, <4>3
      <4>5. submitted' = submitted /\ lost' = lost
        BY <1>5 DEF dealings
      <4>6. wsrs' # <<>> => ~Telling(m)'
        BY <1>5, <3>1 DEF Telling
      <4> QED BY <1>p, <4>2, <4>4, <4>5, <4>6 DEF HeardInv
    <3> QED BY <1>p, <2>1, <3>1, <3>2, <3>3 DEF PaymentInv, PlaceInv
  <2> QED BY <2>2, <2>3
<1> QED BY <1>2, <1>3, <1>4, <1>5 DEF PaymentNext

-----------------------------------------------------------------------------
(* What is stored *)

\* What steps store, by their names.
LEMMA StoresFacts ==
    /\ \A n : Stores(n) \subseteq Fields
    /\ \A b, n : Known(b, n) \subseteq Fields
    /\ \A n \in DOMAIN Constants : /\ Stores(n) = {Constants[n][1]} /\ Constants[n][1] \in Fields \ Dates
                                  /\ Constants[n][2] # "unset"
    /\ \A n \in {"check-zip-code", "recheck-zip-code"} : Stores(n) = {"confirmed_zip_code"}
    /\ Stores("get-product-info-for-customer") = {"loan_id", "loan_past_due_amount_cents"}
    /\ Stores("get-confirmation-of-payment-terms") = {"confirmation"}
    /\ Stores("evaluate-cutoff-possibility") = {"cutoff_occurred"}
    /\ Stores("copy-date-of-failed-payment") = {"original_date"}
    /\ \A n \in OutsideSteps : Stores(n) \subseteq {"Iivr_basic_step_name"}
    /\ \A n \in {"gather-zip-code", "regather-zip-code", "get-payment-amount",
                 "show-confirmation-of-payment-terms", "save-past-due-as-amount-in-workflow"}
                \cup MapNames : Stores(n) = {}
<1>1. \A n \in DOMAIN Constants : /\ Constants[n][1] \in Fields \ Dates /\ Constants[n][2] # "unset"
                                 /\ Stores(n) = {Constants[n][1]}
  BY DEF Constants, Fields, Dates, Stores
<1>2. \A n : n \notin DOMAIN Constants =>
          Stores(n) \subseteq {"confirmed_zip_code", "loan_id", "loan_past_due_amount_cents", "confirmation",
                              "Iivr_basic_step_name", "cutoff_occurred", "original_date"}
  BY DEF Stores
<1>3. \A n : Stores(n) \subseteq Fields
  BY <1>1, <1>2 DEF Fields, Dates
<1>4. \A b, n : Known(b, n) \subseteq Fields
  <2>1. \A b : KnownOn(b) \subseteq Fields
    BY DEF KnownOn, CustomerFields, Fields, Dates
  <2> QED BY <1>3, <2>1 DEF Known
<1>5. \A n \in {"check-zip-code", "recheck-zip-code", "get-product-info-for-customer",
               "get-confirmation-of-payment-terms", "evaluate-cutoff-possibility",
               "copy-date-of-failed-payment", "gather-zip-code", "regather-zip-code", "get-payment-amount",
               "show-confirmation-of-payment-terms", "save-past-due-as-amount-in-workflow"}
              \cup OutsideSteps \cup MapNames : n \notin DOMAIN Constants
  BY DEF Constants, OutsideSteps, MapNames
<1>6. /\ \A n \in {"check-zip-code", "recheck-zip-code"} : Stores(n) = {"confirmed_zip_code"}
      /\ Stores("get-product-info-for-customer") = {"loan_id", "loan_past_due_amount_cents"}
      /\ Stores("get-confirmation-of-payment-terms") = {"confirmation"}
      /\ Stores("evaluate-cutoff-possibility") = {"cutoff_occurred"}
      /\ Stores("copy-date-of-failed-payment") = {"original_date"}
      /\ \A n \in {"gather-zip-code", "regather-zip-code", "get-payment-amount",
                   "show-confirmation-of-payment-terms", "save-past-due-as-amount-in-workflow"} :
            Stores(n) = {}
  BY <1>5 DEF Stores
<1>7. \A n \in OutsideSteps : Stores(n) \subseteq {"Iivr_basic_step_name"}
  BY <1>5 DEF Stores, OutsideSteps
<1>8. \A n \in MapNames : Stores(n) = {}
  BY <1>5 DEF Stores, MapNames
<1> QED BY <1>1, <1>3, <1>4, <1>6, <1>7, <1>8

\* A workflow that asks for the date first is at no other dated step, and asks for it
\* first from its next step on.
LEMMA DatedTail ==
    ASSUME NEW plan, Agreeable(plan), DatedFirst(plan)
    PROVE  /\ Head(plan) \in DatedSteps => Head(plan) = "pay_on_earliest_date"
           /\ Head(plan) \notin {"end", "pay_on_earliest_date"} => DatedFirst(Tail(plan))
<1>1. plan \in Seq(STRING \ {"unset"}) /\ Len(plan) \in Nat \ {0} /\ DOMAIN plan = 1 .. Len(plan)
      /\ Head(plan) = plan[1]
  BY DEF Agreeable
<1>2. Head(plan) \in DatedSteps => Head(plan) = "pay_on_earliest_date"
  <2>1. 1 \in DOMAIN plan /\ \A j \in 1 .. 1 : j = 1
    BY <1>1
  <2> QED BY <1>1, <2>1 DEF DatedFirst, DatedSteps
<1>3. ASSUME Head(plan) # "pay_on_earliest_date" PROVE DatedFirst(Tail(plan))
  <2>1. /\ DOMAIN Tail(plan) = 1 .. Len(plan) - 1
        /\ \A i \in 1 .. Len(plan) - 1 : Tail(plan)[i] = plan[i + 1]
    BY <1>1
  <2>2. SUFFICES ASSUME NEW i \in 1 .. Len(plan) - 1, plan[i + 1] \in {"select_amount", "confirmation"}
                 PROVE  \E j \in 1 .. i : Tail(plan)[j] = "pay_on_earliest_date"
    BY <2>1 DEF DatedFirst
  <2>3. i + 1 \in DOMAIN plan
    BY <1>1, <2>2
  <2>4. PICK j \in 1 .. i + 1 : plan[j] = "pay_on_earliest_date"
    BY <2>2, <2>3 DEF DatedFirst
  <2>5. j # 1
    BY <1>1, <1>3, <2>4
  <2>6. j - 1 \in 1 .. i /\ j - 1 \in 1 .. Len(plan) - 1 /\ (j - 1) + 1 = j
    BY <1>1, <2>2, <2>4, <2>5
  <2> QED BY <2>1, <2>4, <2>6
<1> QED BY <1>2, <1>3

\* The external workflow answers with a step, and with the date when it comes to ask for it.
LEMMA OutsideStores ==
    ASSUME RunAvantBasic, NEW n, n = Current.name, DOMAIN session = Fields, ExternalInv, DateInv,
           \A plan \in Plans : DatedFirst(plan),
           external = <<>> => n = "initialize-make-payment"
    PROVE  /\ DateInv' /\ (Holds("date") => Holds("date")')
           /\ session'.Iivr_basic_step_name = session.Iivr_basic_step_name
                 \/ session'.Iivr_basic_step_name # "unset"
           /\ result'.kind = "success" => session'.Iivr_basic_step_name # "unset"
<1>1. CASE NoAnswer
  <2>1. result'.kind # "success" /\ session' = session /\ external' = external
    BY <1>1 DEF NoAnswer, AcceptedUnheard, payment, dealings, Fatal, Outcome
  <2> QED BY <2>1 DEF DateInv, Holds
<1>2. ASSUME NEW ahead \in Answered, Answer(ahead)
      PROVE  /\ DateInv' /\ (Holds("date") => Holds("date")')
             /\ session'.Iivr_basic_step_name = session.Iivr_basic_step_name
                   \/ session'.Iivr_basic_step_name # "unset"
             /\ result'.kind = "success" => session'.Iivr_basic_step_name # "unset"
  <2>1. external' = ahead
    BY <1>2 DEF Answer
  <2>2. Agreeable(ahead) /\ ahead # <<>> /\ Head(ahead) # "unset"
    <3>1. Agreeable(ahead) /\ ahead # <<>>
      BY NewOne, OneForward DEF ExternalInv
    <3> QED BY <3>1 DEF Agreeable
  <2>3. Holds("date") \/ DatedFirst(ahead)
    <3>1. CASE n = "initialize-make-payment"
      BY <3>1 DEF Answered
    <3>2. CASE n # "initialize-make-payment" /\ ahead = external
      BY <2>2, <3>2 DEF DateInv
    <3>3. CASE n # "initialize-make-payment" /\ ahead # external
      <4>1. ahead = Tail(external) /\ Head(external) # "end"
        BY <3>3 DEF Answered, Taken
      <4>2. Agreeable(external) /\ session.Iivr_basic_step_name = Head(external)
        BY <3>3 DEF ExternalInv
      <4>3. Holds("date") \/ (DatedFirst(external) /\ Head(external) # "pay_on_earliest_date")
        BY <3>3, <4>2 DEF DateInv, DatedSteps
      <4> QED BY <4>1, <4>2, <4>3, DatedTail
    <3> QED BY <3>1, <3>2, <3>3
  <2>4. CASE Accepts(ahead)
    <3>1. PICK day \in Days :
             session' = [session EXCEPT !.Iivr_basic_step_name = Head(ahead),
                                        !.date = IF Head(ahead) = "pay_on_earliest_date" THEN day ELSE @]
      BY <1>2, <2>4 DEF Answer
    <3>2. /\ session'.Iivr_basic_step_name = Head(ahead)
          /\ session'.date = IF Head(ahead) = "pay_on_earliest_date" THEN day ELSE session.date
      BY <3>1 DEF Fields, Dates
    <3>3. Holds("date") => Holds("date")'
      BY <3>2 DEF Holds, Dates, Days
    <3>4. Head(ahead) \in DatedSteps => Holds("date")'
      <4>1. Head(ahead) = "pay_on_earliest_date" => Holds("date")'
        BY <3>2 DEF Holds, Dates, Days
      <4> QED BY <2>2, <2>3, <3>3, <4>1, DatedTail
    <3> QED BY <2>1, <2>2, <2>3, <3>2, <3>3, <3>4 DEF DateInv
  <2>5. CASE ~Accepts(ahead)
    <3>1. session' = session /\ result'.kind = "error"
      BY <1>2, <2>5 DEF Answer, Retryable, Outcome
    <3> QED BY <2>1, <2>3, <3>1 DEF DateInv, Holds
  <2> QED BY <2>4, <2>5
<1> QED BY <1>1, <1>2 DEF RunAvantBasic

\* A field that is stored stays so, and a step that succeeds has stored its fields.
LEMMA RunStores ==
    ASSUME Tree = MakePaymentTree, EngineInv, SkipInv, RunPaymentStep, PaymentInv, DateInv,
           \A plan \in Plans : DatedFirst(plan),
           NEW b, b = Current.branch, NEW n, n = Current.name, KnownAt(b, n)
    PROVE  /\ DateInv' /\ \A f \in Fields : Holds(f) => Holds(f)'
           /\ result'.kind = "success" => \A f \in Stores(n) : Holds(f)'
<1>1. wsrs # <<>> /\ CurrentStep.name = n /\ IsWhatItIsCalled(b, CurrentStep)
  BY Running DEF RunPaymentStep
<1>2. DOMAIN session = Fields /\ ExternalInv /\ result' \in Outcomes(CurrentStep)
  BY DEF PaymentInv, RunPaymentStep, RunStep
<1>D. Dates \subseteq Fields /\ "Iivr_basic_step_name" \in Fields \ Dates /\ "date" \in Dates
  BY DEF Fields, Dates
<1>3. CASE RunAvantBasic
  <2>1. n \in OutsideSteps /\ (external = <<>> => n = "initialize-make-payment")
    BY <1>3, CallsOutside DEF PaymentInv
  <2>2. /\ DateInv' /\ (Holds("date") => Holds("date")')
        /\ session'.Iivr_basic_step_name = session.Iivr_basic_step_name
              \/ session'.Iivr_basic_step_name # "unset"
        /\ result'.kind = "success" => session'.Iivr_basic_step_name # "unset"
    BY <1>2, <1>3, <2>1, OutsideStores
  <2>3. \A f \in Fields \ {"Iivr_basic_step_name", "date"} : session'[f] = session[f]
    BY <1>3, <2>1, OutsideDoes DEF PaymentInv, HeardInv
  <2>4. ASSUME NEW f \in Fields, Holds(f) PROVE Holds(f)'
    <3>1. CASE f = "date"
      BY <2>2, <2>4, <3>1
    <3>2. CASE f = "Iivr_basic_step_name"
      BY <1>D, <2>2, <2>4, <3>2 DEF Holds
    <3>3. CASE f \notin {"Iivr_basic_step_name", "date"}
      BY <2>3, <2>4, <3>3 DEF Holds
    <3> QED BY <3>1, <3>2, <3>3
  <2>5. result'.kind = "success" => \A f \in Stores(n) : Holds(f)'
    <3>1. Stores(n) \subseteq {"Iivr_basic_step_name"}
      BY <2>1, StoresFacts
    <3> QED BY <1>D, <2>2, <3>1 DEF Holds
  <2> QED BY <2>2, <2>4, <2>5
<1>4. ASSUME external' = external, session'.Iivr_basic_step_name = session.Iivr_basic_step_name,
             Holds("date") => Holds("date")'
      PROVE  DateInv'
  BY <1>4 DEF DateInv
<1>5. ASSUME NEW f \in Fields, NEW v, session' = [session EXCEPT ![f] = v],
             IF f \in Dates THEN v # 0 ELSE v # "unset"
      PROVE  Holds(f)' /\ \A g \in Fields : Holds(g) => Holds(g)'
  BY <1>2, <1>5 DEF Holds
<1>6. CASE ~RunAvantBasic
  <2>1. external' = external /\ session'.Iivr_basic_step_name = session.Iivr_basic_step_name
    BY <1>2, <1>6, RunDoes
  <2>2. SUFFICES /\ \A f \in Fields : Holds(f) => Holds(f)'
                 /\ result'.kind = "success" => \A f \in Stores(n) : Holds(f)'
    BY <1>4, <1>D, <2>1
  <2>3. CASE GatherZip
    <3>1. Stores(n) = {}
      BY <2>3, StoresFacts DEF GatherZip
    <3>2. session' = session \/ \E v \in {"right", "wrong"} : session' = [session EXCEPT !["entered_zip_code"] = v]
      BY <2>3 DEF GatherZip, StoreInput, Store
    <3>3. "entered_zip_code" \in Fields \ Dates
      BY DEF Fields, Dates
    <3> QED BY <1>5, <3>1, <3>2, <3>3 DEF Holds
  <2>4. CASE GatherAmount \/ ShowTerms \/ Decide
    <3>1. Stores(n) = {}
      BY <2>4, StoresFacts, MapFacts DEF GatherAmount, ShowTerms, Decide
    <3>2. session' = session
      BY <2>4 DEF GatherAmount, ShowTerms, Decide, payment, dealings
    <3> QED BY <3>1, <3>2 DEF Holds
  <2>5. CASE StoresNothing
    <3>1. Stores(n) = {}
      <4>1. CASE n = "save-past-due-as-amount-in-workflow"
        BY <4>1, StoresFacts
      <4>2. CASE n # "save-past-due-as-amount-in-workflow"
        <5>1. CurrentStep.type \in {"JumpBranchStep", "NoopStep", "PlayMessageStep"}
          BY <2>5, <4>2 DEF StoresNothing
        <5> QED BY <1>1, <5>1 DEF IsWhatItIsCalled
      <4> QED BY <4>1, <4>2
    <3>2. session' = session
      BY <2>5 DEF StoresNothing, payment, dealings
    <3> QED BY <3>1, <3>2 DEF Holds
  <2>6. CASE GatherConfirmation
    <3>1. n = "get-confirmation-of-payment-terms" /\ Stores(n) = {"confirmation"}
      BY <2>6, StoresFacts DEF GatherConfirmation
    <3>2. result'.kind = "success" => result' = Success
      <4>1. CurrentStep.type = "InputStep"
        BY <1>1, <3>1 DEF IsWhatItIsCalled
      <4>2. result' \in InputOutcomes(CurrentStep)
        BY <1>2, <4>1 DEF Outcomes, InputTypes
      <4> QED BY <4>1, <4>2 DEF InputOutcomes, MenuTypes, Success, Retryable, Outcome
    <3>3. IF result' = Success THEN \E v \in {"pay", "other"} : session' = [session EXCEPT !["confirmation"] = v]
                               ELSE session' = session
      BY <2>6 DEF GatherConfirmation, StoreInput, Store
    <3>4. "confirmation" \in Fields \ Dates
      BY DEF Fields, Dates
    <3>5. CASE result' = Success
      BY <1>5, <3>1, <3>3, <3>4, <3>5
    <3>6. CASE result' # Success
      BY <3>1, <3>2, <3>3, <3>6 DEF Holds
    <3> QED BY <3>5, <3>6
  <2>7. CASE SetField
    <3>1. \E f \in Fields \ Dates : \E v : v # "unset" /\ Stores(n) = {f} /\ session' = [session EXCEPT ![f] = v]
      <4>1. CASE n \in DOMAIN Constants /\ Store(Constants[n][1], Constants[n][2])
        BY <4>1, StoresFacts DEF Store
      <4>2. CASE n \in {"check-zip-code", "recheck-zip-code"} /\ Store("confirmed_zip_code", Truth(session.entered_zip_code = "right"))
        <5>1. "confirmed_zip_code" \in Fields \ Dates /\ Truth(session.entered_zip_code = "right") # "unset"
          BY DEF Fields, Dates, Truth
        <5> QED BY <4>2, <5>1, StoresFacts DEF Store
      <4>3. CASE n = "evaluate-cutoff-possibility" /\ Store("cutoff_occurred", Truth(session.original_date < session.date))
        <5>1. "cutoff_occurred" \in Fields \ Dates /\ Truth(session.original_date < session.date) # "unset"
          BY DEF Fields, Dates, Truth
        <5> QED BY <4>3, <5>1, StoresFacts DEF Store
      <4> QED BY <2>7, <4>1, <4>2, <4>3 DEF SetField
    <3> QED BY <1>5, <3>1
  <2>8. CASE CopyDate
    <3>1. n = "copy-date-of-failed-payment" /\ Stores(n) = {"original_date"}
          /\ session' = [session EXCEPT !["original_date"] = session.date]
      BY <2>8, StoresFacts DEF CopyDate, Store
    <3>2. session.date # 0
      <4>1. "date" \in Known(b, n)
        BY <1>1, <3>1 DEF IsWhatItIsCalled
      <4> QED BY <1>D, <4>1 DEF KnownAt, Holds
    <3>3. "original_date" \in Fields /\ "original_date" \in Dates
      BY DEF Fields, Dates
    <3> QED BY <1>5, <3>1, <3>2, <3>3
  <2>9. CASE LookUpCustomer
    <3>1. n = "get-product-info-for-customer" /\ Stores(n) = {"loan_id", "loan_past_due_amount_cents"}
      BY <2>9, StoresFacts DEF LookUpCustomer
    <3>2. PICK loan \in {"None", "loan"}, due \in {"0", "due"} :
             session' = [session EXCEPT !.loan_id = loan, !.loan_past_due_amount_cents = due]
      BY <2>9 DEF LookUpCustomer
    <3>3. {"loan_id", "loan_past_due_amount_cents"} \subseteq Fields \ Dates
      BY DEF Fields, Dates
    <3>4. /\ session'["loan_id"] = loan /\ session'["loan_past_due_amount_cents"] = due
          /\ \A f \in Fields \ {"loan_id", "loan_past_due_amount_cents"} : session'[f] = session[f]
      BY <1>2, <3>2, <3>3
    <3>5. Holds("loan_id")' /\ Holds("loan_past_due_amount_cents")'
      BY <3>3, <3>4 DEF Holds
    <3>6. \A f \in Fields \ {"loan_id", "loan_past_due_amount_cents"} : Holds(f) => Holds(f)'
      BY <3>4 DEF Holds
    <3> QED BY <3>1, <3>5, <3>6
  <2> QED BY <1>6, <2>3, <2>4, <2>5, <2>6, <2>7, <2>8, <2>9 DEF RunPaymentStep
<1> QED BY <1>3, <1>6

\* The step of the external workflow picks the branch of its name.
LEMMA StepDecides ==
    ASSUME Tree = MakePaymentTree, EngineInv, SkipInv, RunPaymentStep,
           Current.name = "branch-on-Iivr-basic-workflow-step", result'.kind = "success"
    PROVE  /\ session' = session /\ external' = external
           /\ result'.branch = IF session.Iivr_basic_step_name \in AvantBasicSteps
                                 THEN session.Iivr_basic_step_name
                                 ELSE "error_processing"
<1>n. PICK b, n : b = Current.branch /\ n = Current.name
  OBVIOUS
<1>1. CurrentStep.name = n /\ IsWhatItIsCalled(b, CurrentStep)
  BY <1>n, Running DEF RunPaymentStep
<1>2. n \in MapNames
  BY <1>n DEF MapNames
<1>3. Maps["branch-on-Iivr-basic-workflow-step"] =
          FieldMap("Iivr_basic_step_name", [s \in AvantBasicSteps |-> s], "error_processing")
  BY <1>2, <1>n DEF Maps
<1>4. CurrentStep.type = "BranchMapWorkflowStep" /\ n \in DOMAIN Maps /\ n \notin DOMAIN Constants
  BY <1>1, <1>2, MapFacts DEF IsWhatItIsCalled
<1>5. Decide
  BY <1>4, <1>n DEF RunPaymentStep, GatherZip, GatherAmount, GatherConfirmation, ShowTerms, SetField, CopyDate,
                    LookUpCustomer, Decide, RunAvantBasic, StoresNothing
<1>m. PICK map : map = Maps[n]
  OBVIOUS
<1>6. /\ map.field = "Iivr_basic_step_name" /\ map.default = "error_processing"
      /\ map.branches = [s \in AvantBasicSteps |-> s]
  BY <1>3, <1>m, <1>n DEF FieldMap
<1>v. PICK value : value = session["Iivr_basic_step_name"]
  OBVIOUS
<1>t. PICK target : target = IF value \in DOMAIN map.branches THEN map.branches[value] ELSE map.default
  OBVIOUS
<1>7. result' = IF target = NoBranch THEN Retryable ELSE BranchTo(target)
  <2>1. session[map.field] = value
    BY <1>6, <1>v
  <2> QED BY <1>5, <1>m, <1>n, <1>t, <2>1 DEF Decide
<1>8. Retryable.kind # "success" /\ BranchTo(target).branch = target
  BY DEF Retryable, BranchTo, Outcome
<1>9. target = IF value \in AvantBasicSteps THEN value ELSE "error_processing"
  BY <1>6, <1>t
<1> QED BY <1>5, <1>v, <1>7, <1>8, <1>9 DEF Decide, payment, dealings

\* What the step has found, the place knows.
LEMMA KnownRun ==
    ASSUME Tree = MakePaymentTree, EngineInv, SkipInv, RunPaymentStep, PaymentInv, DateInv,
           \A plan \in Plans : DatedFirst(plan),
           NEW b, b = Current.branch, NEW n, n = Current.name, KnownAt(b, n)
    PROVE  KnownAt(b, n)'
<1>1. wsrs # <<>> /\ pc' = "handle" /\ CurrentStep.name = n /\ IsWhatItIsCalled(b, CurrentStep)
  BY Running DEF RunPaymentStep
<1>2. /\ \A f \in Fields : Holds(f) => Holds(f)'
      /\ result'.kind = "success" => \A f \in Stores(n) : Holds(f)'
  BY RunStores
<1>3. \A f \in Known(b, n) : Holds(f)'
  <2>1. Known(b, n) \subseteq Fields
    BY StoresFacts
  <2> QED BY <1>2, <2>1 DEF KnownAt
<1>4. n \in {"copy-date-of-failed-payment", "evaluate-cutoff-possibility"} => result'.kind = "success"
  <2>1. CASE n = "copy-date-of-failed-payment"
    <3>1. CurrentStep.type = "CopySessionVariable"
      BY <1>1, <2>1 DEF IsWhatItIsCalled
    <3>2. result' \in {Success}
      BY <3>1 DEF RunPaymentStep, RunStep, Outcomes, InputTypes, MenuTypes, PlainOutcomes
    <3> QED BY <3>2 DEF Success, Outcome
  <2>2. CASE n = "evaluate-cutoff-possibility"
    <3>1. CurrentStep.type = "BooleanLogicStep" /\ n \notin MapNames
      BY <1>1, <2>2 DEF IsWhatItIsCalled, MapNames
    <3>2. SetField
      BY <2>2, <3>1, MapFacts
         DEF RunPaymentStep, GatherZip, GatherAmount, GatherConfirmation, ShowTerms, CopyDate,
             LookUpCustomer, Decide, RunAvantBasic, StoresNothing
    <3> QED BY <3>2 DEF SetField, Success, Outcome
  <2> QED BY <2>1, <2>2
<1>5. n = "branch-on-Iivr-basic-workflow-step" /\ result'.kind = "success" /\ result'.branch \in DatedSteps
         => Holds("date")'
  <2> SUFFICES ASSUME n = "branch-on-Iivr-basic-workflow-step", result'.kind = "success",
                      result'.branch \in DatedSteps
               PROVE  Holds("date")'
    OBVIOUS
  <2>1. /\ session' = session
        /\ result'.branch = IF session.Iivr_basic_step_name \in AvantBasicSteps
                               THEN session.Iivr_basic_step_name
                               ELSE "error_processing"
    BY StepDecides
  <2>2. session.Iivr_basic_step_name \in DatedSteps
    BY <2>1 DEF DatedSteps
  <2> QED BY <2>1, <2>2 DEF DateInv, Holds
<1> QED BY <1>2, <1>3, <1>4, <1>5 DEF KnownAt

\* Where the run goes, what is known there is stored.
LEMMA KnownGoes ==
    ASSUME NEW b, NEW n, NEW c, NEW m, Goes(b, n, c, m), KnownAt(b, n), pc' # "handle", UNCHANGED dealings
    PROVE  KnownAt(c, m)'
<1>1. \A f \in Known(c, m) : Holds(f)
  <2>1. CASE c = b /\ m = n
    BY <2>1 DEF KnownAt
  <2>2. CASE /\ pc = "handle" /\ result.kind = "success" /\ TakesTo(b, n, c, m)
             /\ n \in MapNames => c = result.branch
    <3>1. "branch-on-Iivr-basic-workflow-step" \in MapNames
      BY DEF MapNames
    <3>2. \A f \in Known(c, m) :
             \/ f \in Known(b, n) \cup Stores(n)
             \/ f = "date" /\ n = "branch-on-Iivr-basic-workflow-step" /\ c \in DatedSteps
      BY <2>2 DEF TakesTo
    <3> QED BY <2>2, <3>1, <3>2 DEF KnownAt
  <2>3. CASE FallsBackTo(b, n, c, m)
    BY <2>3 DEF FallsBackTo, KnownAt
  <2> QED BY <2>1, <2>2, <2>3 DEF Goes
<1> QED BY <1>1 DEF KnownAt, Holds, dealings

\* A row of the cutoff branch past its first stands on an earlier one that is done.
LEMMA EarlierOnCutoff ==
    ASSUME Tree = MakePaymentTree, EngineInv, SkipInv, CutoffInv, NEW i \in DOMAIN wsrs,
           StepRunAt(i).branch = "cutoff", StepRunAt(i).name # "copy-date-of-failed-payment"
    PROVE  Holds("original_date")
<1>1. HasStep("cutoff", StepRunAt(i).name)
  BY DEF EngineInv, RowsResolve, StepRunAt
<1>2. IndexOf("cutoff", StepRunAt(i).name) # 1
  <2>n. PICK n : n = StepRunAt(i).name
    OBVIOUS
  <2>1. StepLeads("cutoff", IndexOf("cutoff", n)) /\ Tree["cutoff"].steps[IndexOf("cutoff", n)].name = n
    BY <1>1, <2>n, Placed
  <2> QED BY <2>n, <2>1 DEF StepLeads
<1>3. PICK j \in 1 .. i - 1 : StepRunAt(j).branch = "cutoff" /\ Done(j)
  BY <1>2 DEF SkipInv, NoStepSkipped
<1>4. j \in DOMAIN wsrs
  <2>1. DOMAIN wsrs = 1 .. Len(wsrs) /\ Len(wsrs) \in Nat
    BY DEF EngineInv, TypeOK
  <2> QED BY <2>1, <1>3
<1> QED BY <1>3, <1>4 DEF CutoffInv

\* A row of the cutoff branch is done once its step has stored what it stores.
LEMMA CutoffNext ==
    ASSUME Tree = MakePaymentTree, EngineInv, HistoryInv, FieldsInv, [Next]_vars,
           \A f \in Fields : Holds(f) => Holds(f)'
    PROVE  CutoffInv'
<1>1. WellNamed /\ SkipInv /\ CutoffInv /\ {"original_date", "cutoff_occurred"} \subseteq Fields
  BY PaymentTreeIsSound DEF HistoryInv, FieldsInv, Fields, Dates
<1>2. SUFFICES ASSUME NEW i \in DOMAIN wsrs', Done(i)'
               PROVE  /\ StepRunAt(i)'.branch = "cutoff" => Holds("original_date")'
                      /\ StepRunAt(i)'.name = "evaluate-cutoff-possibility" => Holds("cutoff_occurred")'
  BY DEF CutoffInv
<1>3. /\ i \in DOMAIN wsrs
      /\ StepRunAt(i)'.name = StepRunAt(i).name /\ StepRunAt(i)'.branch = StepRunAt(i).branch
      /\ Done(i) \/ (pc = "handle" /\ i = Len(wsrs) /\ StepRunAt(i) = Current)
  BY <1>1, <1>2, NewlyDone
<1>4. CASE Done(i)
  BY <1>1, <1>3, <1>4 DEF CutoffInv
<1>5. CASE pc = "handle" /\ StepRunAt(i) = Current
  <2>1. PICK b, n : b = Current.branch /\ n = Current.name
    OBVIOUS
  <2>2. KnownAt(b, n)
    BY <1>5, <2>1 DEF FieldsInv, EngineInv, AtStep
  <2>3. n = "copy-date-of-failed-payment" => Holds("original_date")
    BY <1>5, <2>2, StoresFacts DEF KnownAt
  <2>4. n = "evaluate-cutoff-possibility" => Holds("cutoff_occurred")
    BY <1>5, <2>2, StoresFacts DEF KnownAt
  <2>5. b = "cutoff" /\ n # "copy-date-of-failed-payment" => Holds("original_date")
    BY <1>1, <1>3, <1>5, <2>1, EarlierOnCutoff
  <2> QED BY <1>1, <1>3, <1>5, <2>1, <2>3, <2>4, <2>5
<1> QED BY <1>3, <1>4, <1>5

\* A run that was not served knows nothing.
LEMMA FieldsInvInit ==
    ASSUME PaymentInit
    PROVE  FieldsInv
<1>1. wsrs = <<>> /\ external = <<>> /\ session = [f \in Fields |-> IF f \in Dates THEN 0 ELSE "unset"]
  BY DEF PaymentInit, Init
<1>2. session.Iivr_basic_step_name \notin DatedSteps
  <2>1. session.Iivr_basic_step_name = "unset"
    BY <1>1 DEF Fields, Dates
  <2> QED BY <2>1 DEF DatedSteps
<1> QED BY <1>1, <1>2 DEF FieldsInv, DateInv, CutoffInv

\* Every step keeps what is stored, and stores what is known where the run goes.
LEMMA FieldsInvNext ==
    ASSUME Tree = MakePaymentTree, EngineInv, HistoryInv, PaymentInv, FieldsInv,
           \A plan \in Plans : DatedFirst(plan), [PaymentNext]_paymentVars
    PROVE  FieldsInv'
<1>1. [Next]_vars /\ SkipInv /\ DateInv
  BY PaymentSteps DEF HistoryInv, FieldsInv
<1>p. PICK b, n, c, m : b = Current.branch /\ n = Current.name /\ c = Current'.branch /\ m = Current'.name
  OBVIOUS
<1>k. wsrs # <<>> => KnownAt(b, n)
  BY <1>p DEF FieldsInv
<1>2. ASSUME session' = session, external' = external
      PROVE  DateInv' /\ CutoffInv'
  <2>1. \A f \in Fields : Holds(f) => Holds(f)'
    BY <1>2 DEF Holds
  <2> QED BY <1>1, <1>2, <2>1, CutoffNext DEF DateInv, Holds
<1>3. CASE UNCHANGED paymentVars
  <2>1. UNCHANGED <<pc, result, wsrs, session, external>> /\ Current' = Current
    BY <1>3 DEF paymentVars, payment, dealings, vars, run, request, Current, CurrentId
  <2>2. wsrs' # <<>> => KnownAt(b, n)'
    BY <1>k, <2>1 DEF KnownAt, Holds
  <2> QED BY <1>2, <1>p, <2>1, <2>2 DEF FieldsInv
<1>4. CASE RunPaymentStep
  <2>1. wsrs # <<>> /\ c = b /\ m = n
    BY <1>1, <1>4, <1>p, Running DEF RunPaymentStep
  <2>2. DateInv' /\ \A f \in Fields : Holds(f) => Holds(f)'
    BY <1>1, <1>4, <1>k, <1>p, <2>1, RunStores
  <2>3. CutoffInv'
    BY <1>1, <2>2, CutoffNext
  <2>4. KnownAt(b, n)'
    BY <1>1, <1>4, <1>k, <1>p, <2>1, KnownRun
  <2> QED BY <1>p, <2>1, <2>2, <2>3, <2>4 DEF FieldsInv
<1>5. CASE CutShortAtAnswer
  <2>1. /\ wsrs # <<>> /\ wsrs' = wsrs /\ Current' = Current /\ pc' = "idle"
        /\ session' = session /\ external' = external
    BY <1>5 DEF CutShortAtAnswer, Fail, AcceptedUnheard, run, Current, CurrentId, EngineInv, AtStep
  <2>2. KnownAt(b, n)'
    BY <1>k, <2>1 DEF KnownAt, Holds
  <2> QED BY <1>2, <1>p, <2>1, <2>2 DEF FieldsInv
<1>6. CASE Next /\ pc' # "handle" /\ TermsSent /\ UNCHANGED dealings
  <2>1. session' = session /\ external' = external
    BY <1>6 DEF dealings
  <2>2. CASE wsrs # <<>>
    <3>1. Goes(b, n, c, m)
      BY <1>1, <1>p, <2>2, GoesNext
    <3>2. KnownAt(c, m)'
      BY <1>6, <1>k, <2>2, <3>1, KnownGoes
    <3> QED BY <1>2, <1>p, <2>1, <3>2 DEF FieldsInv
  <2>3. CASE wsrs = <<>>
    <3>1. wsrs' # <<>> => m = "gather-zip-code" /\ c = Root
      BY <1>1, <1>p, <2>3, StartsAtRoot, PaymentTreeLeads
    <3>2. wsrs' # <<>> => KnownAt(c, m)'
      BY <1>6, <3>1, PaymentTreeLeads DEF KnownAt
    <3> QED BY <1>2, <1>p, <2>1, <3>2 DEF FieldsInv
  <2> QED BY <2>2, <2>3
<1> QED BY <1>3, <1>4, <1>5, <1>6 DEF PaymentNext

-----------------------------------------------------------------------------
(* Once the date is given *)

\* A workflow that asks for the date once is past it after it, and stays so.
LEMMA OnceTail ==
    ASSUME NEW plan, Agreeable(plan), DatedOnce(plan), Head(plan) # "end"
    PROVE  /\ DatedOnce(Tail(plan))
           /\ AsksForDate(Tail(plan)) => AsksForDate(plan) /\ Head(plan) \notin DatedSteps
<1>1. plan \in Seq(STRING) /\ Len(plan) \in Nat \ {0} /\ plan[Len(plan)] = "end" /\ Head(plan) = plan[1]
      /\ DOMAIN plan = 1 .. Len(plan)
  BY DEF Agreeable
<1>2. /\ DOMAIN Tail(plan) = 1 .. Len(plan) - 1
      /\ \A i \in 1 .. Len(plan) - 1 : Tail(plan)[i] = plan[i + 1]
  BY <1>1
<1>3. \A i \in 1 .. Len(plan) - 1 : i + 1 \in DOMAIN plan /\ 1 < i + 1
  BY <1>1
<1>4. DatedOnce(Tail(plan))
  <2> SUFFICES ASSUME NEW i \in 1 .. Len(plan) - 1, NEW j \in 1 .. Len(plan) - 1,
                      Tail(plan)[i] \in {"pay_on_earliest_date", "select_amount", "confirmation"}, i < j
               PROVE  Tail(plan)[j] # "pay_on_earliest_date"
    BY <1>2 DEF DatedOnce
  <2>1. i + 1 \in DOMAIN plan /\ j + 1 \in DOMAIN plan /\ i + 1 < j + 1
    BY <1>3
  <2> QED BY <1>2, <2>1 DEF DatedOnce
<1>5. ASSUME AsksForDate(Tail(plan))
      PROVE  AsksForDate(plan) /\ Head(plan) \notin DatedSteps
  <2>1. PICK i \in 1 .. Len(plan) - 1 : plan[i + 1] = "pay_on_earliest_date"
    BY <1>2, <1>5 DEF AsksForDate
  <2>2. i + 1 \in DOMAIN plan /\ 1 \in DOMAIN plan /\ 1 < i + 1
    BY <1>1, <1>3
  <2> QED BY <1>1, <2>1, <2>2 DEF AsksForDate, DatedOnce, DatedSteps
<1> QED BY <1>4, <1>5

\* One that is at the amount or the agreement is past it, and one that is at it is not.
LEMMA OnceHead ==
    ASSUME NEW plan, Agreeable(plan), DatedOnce(plan)
    PROVE  /\ Head(plan) \in DatedSteps \ {"pay_on_earliest_date"} => ~AsksForDate(plan)
           /\ Head(plan) = "pay_on_earliest_date" => AsksForDate(plan)
<1>1. plan \in Seq(STRING) /\ Len(plan) \in Nat \ {0} /\ Head(plan) = plan[1] /\ DOMAIN plan = 1 .. Len(plan)
  BY DEF Agreeable
<1>2. \A i \in DOMAIN plan : i = 1 \/ 1 < i
  BY <1>1
<1>3. 1 \in DOMAIN plan
  BY <1>1
<1> QED BY <1>1, <1>2, <1>3 DEF AsksForDate, DatedOnce, DatedSteps

\* A call of the external workflow takes it past the date only by its step for it, and
\* back to it only when a new one is begun.
LEMMA OutsideDates ==
    ASSUME RunAvantBasic, NEW n, n = Current.name, ExternalInv,
           external # <<>> => DatedOnce(external), \A plan \in Plans : DatedOnce(plan),
           external = <<>> => n = "initialize-make-payment"
    PROVE  /\ external' # <<>> => DatedOnce(external')
           /\ n # "initialize-make-payment" =>
                 /\ Past => Past'
                 /\ Head(external) = "pay_on_earliest_date" => Head(external') = Head(external) \/ Past'
                 /\ Head(external) = "pay_on_earliest_date" /\ result'.kind = "success" => Past'
<1>1. CASE NoAnswer
  <2>1. external' = external /\ result'.kind # "success"
    BY <1>1 DEF NoAnswer, AcceptedUnheard, payment, dealings, Fatal, Outcome
  <2> QED BY <2>1 DEF Past
<1>2. ASSUME NEW ahead \in Answered, Answer(ahead)
      PROVE  /\ external' # <<>> => DatedOnce(external')
             /\ n # "initialize-make-payment" =>
                   /\ Past => Past'
                   /\ Head(external) = "pay_on_earliest_date" => Head(external') = Head(external) \/ Past'
                   /\ Head(external) = "pay_on_earliest_date" /\ result'.kind = "success" => Past'
  <2>1. external' = ahead
    BY <1>2 DEF Answer
  <2>2. CASE n = "initialize-make-payment"
    BY <2>1, <2>2 DEF Answered
  <2>3. CASE n # "initialize-make-payment" /\ ahead = external
    <3>1. Head(ahead) = session.Iivr_basic_step_name
      BY <2>3 DEF ExternalInv
    <3>2. result'.kind # "success"
      <4>1. ~Accepts(ahead)
        BY <3>1 DEF Accepts
      <4>2. result' = Retryable
        BY <1>2, <4>1 DEF Answer
      <4> QED BY <4>2 DEF Retryable, Outcome
    <3> QED BY <2>1, <2>3, <3>2 DEF Past
  <2>4. CASE n # "initialize-make-payment" /\ ahead # external
    <3>1. ahead = Tail(external) /\ Head(external) # "end"
      BY <2>4 DEF Answered, Taken
    <3>2. Agreeable(external) /\ DatedOnce(external)
      BY <2>4 DEF ExternalInv
    <3>3. /\ DatedOnce(ahead)
          /\ AsksForDate(ahead) => AsksForDate(external) /\ Head(external) \notin DatedSteps
      BY <3>1, <3>2, OnceTail
    <3> QED BY <2>1, <3>3 DEF Past, DatedSteps
  <2> QED BY <2>2, <2>3, <2>4
<1> QED BY <1>1, <1>2 DEF RunAvantBasic

\* Where the run is, the external workflow is still after a step was run.
LEMMA DatedRun ==
    ASSUME Tree = MakePaymentTree, EngineInv, SkipInv, RunPaymentStep, PaymentInv,
           external # <<>> => DatedOnce(external), \A plan \in Plans : DatedOnce(plan),
           NEW b, b = Current.branch, NEW n, n = Current.name, DatedAt(b, n)
    PROVE  /\ external' # <<>> => DatedOnce(external')
           /\ DatedAt(b, n)'
           /\ n # "initialize-make-payment" /\ Past => Past'
<1>1. wsrs # <<>> /\ CurrentStep.name = n /\ IsWhatItIsCalled(b, CurrentStep) /\ pc = "run"
  BY Running DEF RunPaymentStep, RunStep
<1>2. DOMAIN session = Fields /\ ExternalInv
  BY DEF PaymentInv
<1>3. CASE RunAvantBasic
  <2>1. n \in OutsideSteps /\ (external = <<>> => n = "initialize-make-payment")
    BY <1>3, CallsOutside DEF PaymentInv
  <2>2. /\ external' # <<>> => DatedOnce(external')
        /\ n # "initialize-make-payment" =>
              /\ Past => Past'
              /\ Head(external) = "pay_on_earliest_date" => Head(external') = Head(external) \/ Past'
              /\ Head(external) = "pay_on_earliest_date" /\ result'.kind = "success" => Past'
    BY <1>2, <1>3, <2>1, OutsideDates
  <2>3. n # "branch-on-Iivr-basic-workflow-step"
    BY <2>1 DEF OutsideSteps
  <2>4. CASE n = "initialize-make-payment"
    <3>1. b = "initialize_payment"
      BY <1>1, <2>4 DEF IsWhatItIsCalled
    <3>2. ~Dated(b, n)
      BY <2>4, <3>1 DEF Dated, DatedBranches, DatedSteps, ReturnToCutoff
    <3> QED BY <2>2, <2>4, <3>1, <3>2 DEF DatedAt, Dated
  <2>5. CASE n # "initialize-make-payment"
    <3>1. n = "agree-to-pay-on-earliest-date" => b = "pay_on_earliest_date"
      BY <1>1 DEF IsWhatItIsCalled
    <3> QED BY <2>1, <2>2, <2>3, <2>5, <3>1 DEF DatedAt, Dated
  <2> QED BY <2>4, <2>5
<1>4. CASE ~RunAvantBasic
  <2>1. external' = external /\ session'.Iivr_basic_step_name = session.Iivr_basic_step_name
    BY <1>2, <1>4, RunDoes
  <2>2. n # "agree-to-pay-on-earliest-date"
    <3>1. n = "agree-to-pay-on-earliest-date" =>
             CurrentStep.type = "AvantBasicWorkflowStep" /\ n \notin MapNames /\ n \notin DOMAIN Constants
      BY <1>1 DEF IsWhatItIsCalled, OutsideSteps, Constants
    <3> QED BY <1>4, <3>1, MapFacts
            DEF RunPaymentStep, GatherZip, GatherAmount, GatherConfirmation, ShowTerms, SetField, CopyDate,
                LookUpCustomer, Decide, StoresNothing
  <2>3. n = "branch-on-Iivr-basic-workflow-step" /\ result'.kind = "success"
              /\ result'.branch \in AvantBasicSteps /\ external # <<>>
          => result'.branch = Head(external)
    <3>1. "error_processing" \notin AvantBasicSteps
      BY DEF AvantBasicSteps
    <3> QED BY <1>2, <3>1, StepDecides DEF ExternalInv
  <2> QED BY <2>1, <2>2, <2>3 DEF DatedAt, Dated, Past
<1> QED BY <1>3, <1>4

\* Where the run goes, the external workflow is.
LEMMA DatedGoes ==
    ASSUME NEW b, NEW n, NEW c, NEW m, Goes(b, n, c, m), DatedAt(b, n), ExternalInv,
           external # <<>> => DatedOnce(external), pc' # "handle", UNCHANGED dealings
    PROVE  DatedAt(c, m)'
<1>1. SUFFICES ASSUME external # <<>>
               PROVE  /\ Dated(c, m) => Past
                      /\ c = "pay_on_earliest_date" => Head(external) = c \/ Past
  BY DEF DatedAt, Dated, Past, dealings
<1>2. /\ Dated(b, n) => Past
      /\ b = "pay_on_earliest_date" => Head(external) = b \/ Past
  BY <1>1 DEF DatedAt
<1>3. CASE c = b /\ m = n
  BY <1>2, <1>3
<1>4. CASE /\ pc = "handle" /\ result.kind = "success" /\ TakesTo(b, n, c, m)
           /\ n \in MapNames => c = result.branch
  <2>1. n = "branch-on-Iivr-basic-workflow-step" /\ c \in DatedSteps => c = Head(external)
    <3>1. "branch-on-Iivr-basic-workflow-step" \in MapNames /\ DatedSteps \subseteq AvantBasicSteps
      BY DEF MapNames, DatedSteps, AvantBasicSteps
    <3> QED BY <1>1, <1>4, <3>1 DEF DatedAt
  <2>2. Head(external) \in DatedSteps \ {"pay_on_earliest_date"} => Past
    BY <1>1, OnceHead DEF ExternalInv, Past
  <2>3. Dated(c, m) => Past
    BY <1>1, <1>2, <1>4, <2>1, <2>2 DEF TakesTo, DatedAt
  <2>4. c = "pay_on_earliest_date" => Head(external) = c \/ Past
    <3>1. b = "cutoff" => Dated(b, n)
      BY DEF Dated, DatedBranches
    <3>2. "pay_on_earliest_date" \in Undated
      BY DEF Undated
    <3> QED BY <1>2, <1>4, <2>1, <3>1, <3>2 DEF TakesTo
  <2> QED BY <2>3, <2>4
<1>5. CASE FallsBackTo(b, n, c, m)
  <2>1. "pay_on_earliest_date" \in Undated
    BY DEF Undated
  <2> QED BY <1>2, <1>5, <2>1 DEF FallsBackTo
<1> QED BY <1>3, <1>4, <1>5 DEF Goes

\* A run that was in the cutoff branch to its end is past the date, and comes to no
\* branch that is before it.
LEMMA OverNext ==
    ASSUME Tree = MakePaymentTree, EngineInv, HistoryInv, PaymentInv, OnceDatedInv,
           \A plan \in Plans : DatedOnce(plan), [PaymentNext]_paymentVars,
           wsrs' # <<>> => DatedAt(Current.branch, Current.name)'
    PROVE  OverInv'
<1>1. [Next]_vars /\ SkipInv /\ WellNamed /\ ExternalInv
  BY PaymentSteps, PaymentTreeIsSound DEF HistoryInv, PaymentInv
<1>p. PICK b, n, c, m : b = Current.branch /\ n = Current.name /\ c = Current'.branch /\ m = Current'.name
  OBVIOUS
<1>2. SUFFICES ASSUME BeenToEnd("cutoff")' PROVE Past' /\ c \notin Undated
  BY <1>p DEF OverInv
<1>3. CASE ~BeenToEnd("cutoff")
  <2>1. wsrs' # <<>> /\ c = "cutoff"
    BY <1>1, <1>2, <1>3, <1>p, EndReached
  <2>2. Dated("cutoff", m) /\ "cutoff" \notin Undated
    BY DEF Dated, DatedBranches, Undated
  <2>3. external' # <<>> => Past'
    <3>1. DatedAt(c, m)'
      BY <1>p, <2>1
    <3> QED BY <2>1, <2>2, <3>1 DEF DatedAt, Dated
  <2>4. external' = <<>> => Past'
    BY DEF Past, AsksForDate
  <2> QED BY <2>1, <2>2, <2>3, <2>4
<1>4. CASE BeenToEnd("cutoff")
  <2>1. wsrs # <<>> /\ Past /\ b \notin Undated
    BY <1>4, <1>p DEF OnceDatedInv, OverInv, BeenToEnd, VisitsOf
  <2>2. CASE UNCHANGED paymentVars
    <3>1. external' = external /\ Current' = Current
      BY <2>2 DEF paymentVars, payment, dealings, vars, run, request, Current, CurrentId
    <3> QED BY <1>p, <2>1, <3>1 DEF Past
  <2>3. CASE RunPaymentStep
    <3>1. c = b /\ IsWhatItIsCalled(b, CurrentStep) /\ CurrentStep.name = n
      BY <1>1, <1>p, <2>3, Running DEF RunPaymentStep
    <3>2. n # "initialize-make-payment"
      BY <2>1, <3>1 DEF IsWhatItIsCalled, Undated
    <3>3. DatedAt(b, n) /\ (external # <<>> => DatedOnce(external))
      BY <1>p, <2>1 DEF OnceDatedInv
    <3>4. Past'
      BY <1>1, <1>p, <2>1, <2>3, <3>2, <3>3, DatedRun
    <3> QED BY <2>1, <3>1, <3>4
  <2>4. CASE CutShortAtAnswer
    <3>1. external' = external /\ Current' = Current
      BY <2>4 DEF CutShortAtAnswer, Fail, AcceptedUnheard, run, Current, CurrentId
    <3> QED BY <1>p, <2>1, <3>1 DEF Past
  <2>5. CASE Next /\ pc' # "handle" /\ TermsSent /\ UNCHANGED dealings
    <3>1. Past' /\ Goes(b, n, c, m)
      BY <1>1, <1>p, <2>1, <2>5, GoesNext DEF Past, dealings
    <3>2. CASE c = b
      BY <2>1, <3>1, <3>2
    <3>3. CASE FallsBackTo(b, n, c, m)
      BY <2>1, <3>1, <3>3 DEF FallsBackTo
    <3>4. CASE /\ pc = "handle" /\ result.kind = "success" /\ TakesTo(b, n, c, m)
               /\ n \in MapNames => c = result.branch
      <4>1. SUFFICES ASSUME c \in Undated PROVE FALSE
        BY <3>1
      <4>2. \/ n = "branch-on-Iivr-basic-workflow-step" /\ c \in DatedSteps
            \/ n = "jump-to-initialize-payment" /\ b = "cutoff"
        BY <2>1, <3>4, <4>1 DEF TakesTo
      <4>3. CASE n = "branch-on-Iivr-basic-workflow-step" /\ c \in DatedSteps
        <5>1. HasStep(b, n)
          BY <1>1, <1>p, <3>4 DEF EngineInv, AtStep, SkipInv, OnBranch
        <5>2. ~Early(b, n)
          BY <4>3, <5>1, Placed DEF IsWhatItIsCalled
        <5>3. external # <<>>
          BY <1>p, <2>1, <5>2 DEF PaymentInv, PlaceInv, UnderWayAt
        <5>4. c = result.branch /\ c \in AvantBasicSteps
          BY <3>4, <4>3 DEF MapNames, DatedSteps, AvantBasicSteps
        <5>5. c = Head(external) /\ DatedOnce(external)
          BY <1>p, <2>1, <3>4, <4>3, <5>3, <5>4 DEF OnceDatedInv, DatedAt
        <5>6. c = "pay_on_earliest_date"
          BY <4>1, <4>3 DEF Undated, DatedSteps
        <5>7. AsksForDate(external)
          BY <1>1, <5>3, <5>5, <5>6, OnceHead DEF ExternalInv
        <5> QED BY <2>1, <5>7 DEF Past
      <4>4. CASE n = "jump-to-initialize-payment" /\ b = "cutoff"
        <5>1. n = LastStep("cutoff")
          BY <1>1, <1>4, <1>p, <2>1, <4>4, AtEnd DEF OnceDatedInv
        <5> QED BY <4>4, <5>1, PaymentTreeLeads DEF LastStep
      <4> QED BY <4>2, <4>3, <4>4
    <3> QED BY <3>1, <3>2, <3>3, <3>4 DEF Goes
  <2> QED BY <2>2, <2>3, <2>4, <2>5 DEF PaymentNext
<1> QED BY <1>3, <1>4

\* A run that was not served is nowhere, and neither is the external workflow.
LEMMA OnceDatedInit ==
    ASSUME PaymentInit
    PROVE  OnceDatedInv
<1>1. wsrs = <<>> /\ external = <<>>
  BY DEF PaymentInit, Init
<1>2. VisitsOf("cutoff") = {}
  BY <1>1 DEF VisitsOf
<1> QED BY <1>1, <1>2 DEF OnceDatedInv, Onward, OverInv, BeenToEnd

\* The run and the external workflow stay in step over the date.
LEMMA OnceDatedNext ==
    ASSUME Tree = MakePaymentTree, EngineInv, HistoryInv, PaymentInv, OnceDatedInv,
           \A plan \in Plans : DatedOnce(plan), [PaymentNext]_paymentVars
    PROVE  OnceDatedInv'
<1>1. [Next]_vars /\ SkipInv /\ WellNamed /\ ExternalInv
  BY PaymentSteps, PaymentTreeIsSound DEF HistoryInv, PaymentInv
<1>p. PICK b, n, c, m : b = Current.branch /\ n = Current.name /\ c = Current'.branch /\ m = Current'.name
  OBVIOUS
<1>o. (external # <<>> => DatedOnce(external)) /\ (wsrs # <<>> => DatedAt(b, n))
  BY <1>p DEF OnceDatedInv
<1>2. Onward("cutoff")'
  <2>1. /\ "cutoff" \in DOMAIN Tree /\ ~Tree["cutoff"].reset_on_switch
        /\ \A x \in DOMAIN Tree["cutoff"].steps : Tree["cutoff"].steps[x].reset_to = NoStep
    BY PaymentTreeIsSound, PaymentTreeLeads DEF LeadsOnBut
  <2> QED BY <1>1, <2>1, OnwardNext DEF OnceDatedInv
<1>3. (external' # <<>> => DatedOnce(external')) /\ (wsrs' # <<>> => DatedAt(c, m)')
  <2>1. CASE UNCHANGED paymentVars
    <3>1. UNCHANGED <<pc, result, wsrs, external>> /\ c = b /\ m = n
      BY <1>p, <2>1 DEF paymentVars, payment, dealings, vars, run, request, Current, CurrentId
    <3> QED BY <1>o, <3>1 DEF DatedAt, Dated, Past
  <2>2. CASE RunPaymentStep
    <3>1. wsrs # <<>> /\ c = b /\ m = n
      BY <1>1, <1>p, <2>2, Running DEF RunPaymentStep
    <3> QED BY <1>1, <1>o, <1>p, <2>2, <3>1, DatedRun
  <2>3. CASE CutShortAtAnswer
    <3>1. wsrs' = wsrs /\ external' = external /\ pc' = "idle" /\ c = b /\ m = n
      BY <1>p, <2>3 DEF CutShortAtAnswer, Fail, AcceptedUnheard, run, Current, CurrentId
    <3> QED BY <1>o, <3>1 DEF DatedAt, Dated, Past
  <2>4. CASE Next /\ pc' # "handle" /\ TermsSent /\ UNCHANGED dealings
    <3>1. external' = external
      BY <2>4 DEF dealings
    <3>2. CASE wsrs # <<>>
      <4>1. Goes(b, n, c, m)
        BY <1>1, <1>p, <3>2, GoesNext
      <4> QED BY <1>1, <1>o, <2>4, <3>1, <3>2, <4>1, DatedGoes
    <3>3. CASE wsrs = <<>>
      <4>1. wsrs' # <<>> => m = "gather-zip-code" /\ c = "root"
        BY <1>1, <1>p, <3>3, StartsAtRoot, PaymentTreeLeads DEF Root
      <4>2. m = "gather-zip-code" /\ c = "root" => DatedAt(c, m)'
        BY DEF DatedAt, Dated, DatedBranches, DatedSteps, ReturnToCutoff
      <4> QED BY <1>o, <3>1, <4>1, <4>2
    <3> QED BY <3>2, <3>3
  <2> QED BY <2>1, <2>2, <2>3, <2>4 DEF PaymentNext
<1>4. OverInv'
  <2>1. wsrs' # <<>> => DatedAt(Current.branch, Current.name)'
    BY <1>3, <1>p
  <2> QED BY <2>1, OverNext
<1> QED BY <1>2, <1>3, <1>4, <1>p DEF OnceDatedInv

-----------------------------------------------------------------------------
(* The only dead end *)

\* A handler finds no step to go on with only when the agreement or the amount is
\* refused after the cutoff branch was gone through to its end.
LEMMA DeadEndOfCutoff ==
    ASSUME Tree = MakePaymentTree, EngineInv, HistoryInv, pc = "handle", DeadEnd
    PROVE  /\ ~IsInput(CurrentStep) /\ LeftAtEnd("cutoff")
           /\ OnceDatedInv => CurrentStep.switch_to = "cutoff"
<1>1. SkipInv /\ LastOpen /\ WentOn /\ LeadsOnBut({"cutoff"})
  BY PaymentTreeIsSound DEF HistoryInv
<1>2. /\ "cutoff" # branch /\ LeftAtEnd("cutoff")
      /\ \/ result.kind = "success" /\ BranchAfterSuccess = "cutoff"
         \/ result.kind = "error" /\ CurrentStep.switch_to = "cutoff"
  BY <1>1, DeadEndAtHandle
<1>p. PICK b, n : b = Current.branch /\ n = Current.name
  OBVIOUS
<1>i. PICK i, t : i = IndexOf(b, n) /\ t = Template(b, n)
  OBVIOUS
<1>3. HasStep(b, n) /\ branch = b /\ result \in Outcomes(t) /\ t = CurrentStep
  BY <1>1, <1>p, <1>i, AtHandle
<1>4. /\ b \in DOMAIN Tree /\ i \in DOMAIN Tree[b].steps /\ t = Tree[b].steps[i] /\ t.name = n
      /\ StepLeads(b, i) /\ IsWhatItIsCalled(b, t)
  <2>1. HasStep(b, n)
    BY <1>3
  <2> QED BY <1>i, <2>1, Placed
<1>5. CASE result.kind = "error" /\ CurrentStep.switch_to = "cutoff"
  BY <1>2, <1>3, <1>4, <1>5 DEF IsWhatItIsCalled
<1>6. CASE result.kind = "success" /\ BranchAfterSuccess = "cutoff"
  <2>1. IsBranch(t) /\ result.branch = "cutoff"
    BY <1>2, <1>3, <1>6 DEF BranchAfterSuccess
  <2>2. ~IsInput(t)
    BY <2>1 DEF IsBranch, IsInput, BranchTypes, InputTypes, MenuTypes
  <2>3. "cutoff" \in t.targets
    BY <1>3, <1>6, <2>1, BranchLeads
  <2>4. ASSUME OnceDatedInv PROVE FALSE
    <3>1. /\ "cutoff" \in DOMAIN Tree /\ 1 \in DOMAIN Tree["cutoff"].steps
      <4>1. "cutoff" \in DOMAIN Tree /\ Len(Tree["cutoff"].steps) > 0
        BY <1>1 DEF LeadsOnBut
      <4>2. Tree["cutoff"].steps \in Seq(StepTemplate)
        BY <4>1, TreeAssumption DEF StepBranch
      <4> QED BY <4>1, <4>2
    <3>2. ComesNext(b, i, "cutoff", 1)
      BY <1>2, <1>3 DEF ComesNext
    <3>3. TakesTo(b, n, "cutoff", Tree["cutoff"].steps[1].name)
      BY <1>4, <2>1, <2>3, <3>1, <3>2 DEF StepLeads
    <3>4. b = "pay_on_earliest_date"
      BY <1>2, <1>3, <1>4, <3>3 DEF TakesTo, IsWhatItIsCalled
    <3>5. b \notin Undated
      BY <1>2, <1>p, <2>4, LeftBeen DEF OnceDatedInv, OverInv
    <3> QED BY <3>4, <3>5 DEF Undated
  <2> QED BY <1>2, <1>3, <2>2, <2>4
<1> QED BY <1>2, <1>5, <1>6

\* As long as no request is cut short, one that no handler answers comes from there.
LEMMA FailsNext ==
    ASSUME Tree = MakePaymentTree, EngineInv, HistoryInv, OnceDatedInv, ResumedInv, FailsOnlyAfterCutoff,
           [Next]_vars
    PROVE  FailsOnlyAfterCutoff'
<1>1. SUFFICES ASSUME pc' = "respond", reply'.kind = "failed", failures' = 0
               PROVE  FailsOnlyAfterCutoff'
  BY DEF FailsOnlyAfterCutoff
<1>2. /\ wsrs' = wsrs /\ stepRuns' = stepRuns /\ branch' = branch /\ failures = 0
      /\ (pc = "respond" /\ reply.kind = "failed") \/ (pc = "handle" /\ DeadEnd)
  BY <1>1, NotServed
<1>3. /\ CurrentStep.switch_to = "cutoff"
      /\ StepRunAt(LastVisit("cutoff")).name = "jump-to-Iivr-basic-workflow-branch-step"
  <2>1. CASE pc = "respond" /\ reply.kind = "failed"
    BY <1>2, <2>1 DEF FailsOnlyAfterCutoff
  <2>2. CASE pc = "handle" /\ DeadEnd
    <3>1. LeftAtEnd("cutoff") /\ CurrentStep.switch_to = "cutoff"
      BY <2>2, DeadEndOfCutoff
    <3> QED BY <3>1, PaymentTreeLeads DEF LeftAtEnd, LastStep
  <2> QED BY <1>2, <2>1, <2>2
<1>4. CurrentStep' = CurrentStep /\ StepRunAt(LastVisit("cutoff"))' = StepRunAt(LastVisit("cutoff"))
  BY <1>2 DEF CurrentStep, Current, CurrentId, StepRunAt, LastVisit, VisitsOf
<1> QED BY <1>3, <1>4 DEF FailsOnlyAfterCutoff

-----------------------------------------------------------------------------
(* The theorems *)

\* The invariant holds beside those of the engine.
LEMMA PaymentInvHolds ==
    ASSUME Tree = MakePaymentTree
    PROVE  PaymentSpec => [](EngineInv /\ HistoryInv /\ PaymentInv)
<1>1. PaymentSpec => Spec
  <2>1. PaymentInit => Init
    BY DEF PaymentInit
  <2> QED BY <2>1, PaymentSteps, PTL DEF PaymentSpec, Spec
<1>2. WellNamed
  BY PaymentTreeIsSound
<1>3. Spec => []EngineInv
  BY EngineInvariant
<1>4. Spec => []HistoryInv
  BY <1>2, HistoryInvHolds
<1>5. PaymentInit => PaymentInv
  BY PaymentInvInit
<1>6. EngineInv /\ HistoryInv /\ PaymentInv /\ [PaymentNext]_paymentVars => PaymentInv'
  BY PaymentInvNext
<1> QED BY <1>1, <1>3, <1>4, <1>5, <1>6, PTL DEF PaymentSpec

\* By text message a customer pays only after a PAY that came next after the terms of
\* this very payment were put together, terms that the customer had been sent unless a
\* request was cut short, and only after the zip code was found right: for every
\* external workflow that takes its agreement last, and for every number of requests,
\* of requests that are cut short and of answers that are lost.
THEOREM PaysWhatWasAgreedHolds ==
    ASSUME Tree = MakePaymentTree
    PROVE  PaymentSpec => []PaysWhatWasAgreed
<1>1. EngineInv /\ HistoryInv /\ PaymentInv => PaysWhatWasAgreed
  <2> SUFFICES ASSUME EngineInv, HistoryInv, PaymentInv, pc = "run",
                      Current.name = "run-workflow-step-with-agreement", Head(external) = "confirmation"
               PROVE  /\ consent = "given" \/ (consent = "blind" /\ failures > 0)
                      /\ session.confirmed_zip_code = "True"
    BY DEF PaysWhatWasAgreed
  <2>b. PICK b, n : b = Current.branch /\ n = Current.name
    OBVIOUS
  <2>1. wsrs # <<>> /\ branch = b /\ HasStep(b, n)
    BY <2>b DEF EngineInv, AtStep, HistoryInv, SkipInv, OnBranch
  <2>2. AgreedAt(n) /\ ConfirmedAt(b, n)
    BY <2>1, <2>b DEF PaymentInv, PlaceInv
  <2>3. b \notin IdentityBranches
    <3>1. IsWhatItIsCalled(b, Template(b, n)) /\ Template(b, n).name = n
      BY <2>1, Placed
    <3>2. ~Early(b, n)
      BY <2>b, <3>1 DEF IsWhatItIsCalled, OutsideSteps
    <3> QED BY <3>2 DEF Early
  <2>4. consent = "blind" => failures > 0
    BY DEF PaymentInv, ConsentInv
  <2> QED BY <2>b, <2>2, <2>3, <2>4 DEF AgreedAt, Agreed, ConfirmedAt
<1> QED BY <1>1, PaymentInvHolds, PTL

\* A customer who reads that the payment was submitted has submitted one; and one whose
\* payment was submitted is told so next, unless a request was cut short or an answer
\* was lost.
THEOREM ToldOnlyWhenSubmittedHolds ==
    ASSUME Tree = MakePaymentTree
    PROVE  PaymentSpec => []ToldOnlyWhenSubmitted
<1>1. EngineInv /\ HistoryInv /\ PaymentInv => ToldOnlyWhenSubmitted
  <2> SUFFICES ASSUME EngineInv, PaymentInv, pc = "run" PROVE ToldOnlyWhenSubmitted
    BY DEF ToldOnlyWhenSubmitted
  <2>1. wsrs # <<>>
    BY DEF EngineInv, AtStep
  <2>2. Telling(Current.name) <=> Current.name = "play-confirmation-payment-submitted"
    BY DEF Telling
  <2>3. submitted > 0 /\ failures = 0 /\ lost = 0 => Telling(Current.name)
    BY DEF PaymentInv, HeardInv
  <2>4. Telling(Current.name) => submitted > 0
    BY <2>1 DEF PaymentInv, HeardInv
  <2> QED BY <2>2, <2>3, <2>4 DEF ToldOnlyWhenSubmitted
<1> QED BY <1>1, PaymentInvHolds, PTL

\* However often the run goes through the branches, their retries and the cutoff, it
\* agrees to a payment again only for an answer that was lost or a request that was cut
\* short.
THEOREM PaysAgainOnlyWhenUnheardHolds ==
    ASSUME Tree = MakePaymentTree
    PROVE  PaymentSpec => []PaysAgainOnlyWhenUnheard
<1>1. EngineInv /\ HistoryInv /\ PaymentInv => PaysAgainOnlyWhenUnheard
  <2> SUFFICES ASSUME EngineInv, PaymentInv PROVE PaysAgainOnlyWhenUnheard
    OBVIOUS
  <2>1. submitted \in Nat /\ lost \in Nat /\ failures \in Nat
    BY DEF PaymentInv, HeardInv, EngineInv, TypeOK
  <2> QED BY <2>1 DEF PaymentInv, HeardInv, PaysAgainOnlyWhenUnheard
<1> QED BY <1>1, PaymentInvHolds, PTL

\* No step reads a field of the session that no step has stored, however the run came
\* to it, be it through the cutoff branch that goes on where it was left: for every
\* external workflow that asks for the date before what depends on it, and for every
\* number of requests, of requests that are cut short and of answers that are lost.
THEOREM FieldsStoredBeforeReadHolds ==
    ASSUME Tree = MakePaymentTree, \A plan \in Plans : DatedFirst(plan)
    PROVE  PaymentSpec => []FieldsStoredBeforeRead
<1>1. PaymentInit => FieldsInv
  BY FieldsInvInit
<1>2. EngineInv /\ HistoryInv /\ PaymentInv /\ FieldsInv /\ [PaymentNext]_paymentVars => FieldsInv'
  BY FieldsInvNext
<1>3. EngineInv /\ HistoryInv /\ FieldsInv => FieldsStoredBeforeRead
  <2> SUFFICES ASSUME EngineInv, HistoryInv, FieldsInv, pc = "run" PROVE FieldsStoredBeforeRead
    BY DEF FieldsStoredBeforeRead
  <2>p. PICK b, n : b = Current.branch /\ n = Current.name
    OBVIOUS
  <2>i. PICK i : i = IndexOf(b, n)
    OBVIOUS
  <2>k. PICK k : k = Len(wsrs)
    OBVIOUS
  <2>1. wsrs # <<>> /\ branch = b /\ HasStep(b, n) /\ SkipInv
    BY <2>p DEF EngineInv, AtStep, HistoryInv, SkipInv, OnBranch
  <2>2. StepLeads(b, i) /\ IsWhatItIsCalled(b, Tree[b].steps[i]) /\ Tree[b].steps[i].name = n
    BY <2>1, <2>i, Placed
  <2>3. KnownAt(b, n) /\ CutoffInv
    BY <2>1, <2>p DEF FieldsInv
  <2>4. k \in DOMAIN wsrs /\ DOMAIN wsrs = 1 .. k /\ k \in Nat /\ StepRunAt(k) = Current
    BY <2>1, <2>k DEF EngineInv, TypeOK, StepRunAt, Current, CurrentId
  <2>5. n \in {"copy-date-of-failed-payment", "evaluate-cutoff-possibility"} => session.date # 0
    BY <2>2, <2>3 DEF IsWhatItIsCalled, KnownAt, Holds, Dates
  <2>6. n = "evaluate-cutoff-possibility" => session.original_date # 0
    <3>1. n = "evaluate-cutoff-possibility" => b = "cutoff"
      BY <2>2 DEF StepLeads
    <3>2. n = "evaluate-cutoff-possibility" => Holds("original_date")
      BY <2>1, <2>3, <2>4, <2>p, <3>1, EarlierOnCutoff
    <3> QED BY <3>2 DEF Holds, Dates
  <2>7. n \in MapNames => session[Maps[n].field] # "unset"
    <3>1. CASE n \in MapNames \ {"branch-on-cutoff-or-error"}
      BY <2>2, <2>3, <3>1 DEF IsWhatItIsCalled, KnownAt, Holds
    <3>2. CASE n = "branch-on-cutoff-or-error"
      <4>1. i > 1 /\ Tree[b].steps[i - 1].name = "evaluate-cutoff-possibility"
        BY <2>2, <3>2 DEF StepLeads
      <4>2. PICK j \in 1 .. k - 1 :
               StepRunAt(j).branch = b /\ IndexOf(b, StepRunAt(j).name) = i - 1 /\ Done(j)
        BY <2>1, <2>4, <2>p, <2>i, <4>1 DEF SkipInv, NoStepSkipped
      <4>3. j \in DOMAIN wsrs
        BY <2>4
      <4>4. HasStep(b, StepRunAt(j).name)
        BY <4>2, <4>3 DEF EngineInv, RowsResolve, StepRunAt
      <4>5. StepRunAt(j).name = "evaluate-cutoff-possibility"
        BY <4>1, <4>2, <4>4, IndexOfFirst
      <4>6. Holds("cutoff_occurred")
        BY <2>3, <4>2, <4>3, <4>5 DEF CutoffInv
      <4>7. Maps["branch-on-cutoff-or-error"].field = "cutoff_occurred"
        <5>1. "branch-on-cutoff-or-error" \in MapNames
          BY DEF MapNames
        <5>2. Maps["branch-on-cutoff-or-error"] =
                  FieldMap("cutoff_occurred", TrueOrFalse("cutoff", "error_processing"), NoBranch)
          BY <5>1 DEF Maps
        <5> QED BY <5>2 DEF FieldMap
      <4> QED BY <3>2, <4>6, <4>7 DEF Holds, Dates
    <3> QED BY <3>1, <3>2
  <2> QED BY <2>p, <2>5, <2>6, <2>7, MapFacts DEF FieldsStoredBeforeRead
<1> QED BY <1>1, <1>2, <1>3, PaymentInvHolds, PTL DEF PaymentSpec

\* As long as no request is cut short, the only request that no handler answers is one
\* in which a payment is refused again by a run that was in the cutoff branch to its
\* end, whose steps there is none after: for every external workflow that asks for
\* the date once, before the amount and the agreement, and for every number of
\* requests and of answers that are lost.
THEOREM FailsOnlyAfterCutoffHolds ==
    ASSUME Tree = MakePaymentTree, \A plan \in Plans : DatedOnce(plan)
    PROVE  PaymentSpec => []FailsOnlyAfterCutoff
<1>1. PaymentInit => OnceDatedInv /\ ResumedInv /\ FailsOnlyAfterCutoff
  <2>1. PaymentInit => pc = "idle" /\ state = "uninitialized"
    BY DEF PaymentInit, Init
  <2> QED BY <2>1, OnceDatedInit DEF ResumedInv, FailsOnlyAfterCutoff
<1>2. EngineInv /\ HistoryInv /\ PaymentInv /\ OnceDatedInv /\ [PaymentNext]_paymentVars => OnceDatedInv'
  BY OnceDatedNext
<1>3. EngineInv /\ HistoryInv /\ ResumedInv /\ [PaymentNext]_paymentVars => ResumedInv'
  BY PaymentSteps, DeadEndOfCutoff, ResumedInvNext
<1>4. EngineInv /\ HistoryInv /\ OnceDatedInv /\ ResumedInv /\ FailsOnlyAfterCutoff
          /\ [PaymentNext]_paymentVars => FailsOnlyAfterCutoff'
  BY PaymentSteps, FailsNext
<1> QED BY <1>1, <1>2, <1>3, <1>4, PaymentInvHolds, PTL DEF PaymentSpec
=============================================================================
