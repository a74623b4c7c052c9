------------------------- MODULE ContractCallsProofs -------------------------
(***************************************************************************)
(* What holds of ContractCalls for any number of calls, any uses and any   *)
(* prices: details and access lists serve one call, a transaction is       *)
(* broadcast once, and a call that nothing disturbs is simulated with what *)
(* was set when it was made; and what a result asks for pays for its gas.  *)
(*                                                                         *)
(* Each action has a lemma that says what it does to its call and that it  *)
(* leaves the others alone; the invariants follow from those.              *)
(***************************************************************************)
EXTENDS ContractCalls, Integers, TLAPS

Key == {"stage", "fn", "args", "meant", "alone", "took", "seen", "promise", "gasAt", "wantedAt",
        "events", "sim", "options", "coins", "retried", "broadcasts", "buffer"}

\* The calls are records with those fields.
Shape ==
  /\ DOMAIN call = Caller
  /\ \A c \in Caller : DOMAIN call[c] = Key

Others(c) == \A d \in Caller \ {c} : call'[d] = call[d]

\* Call c goes from stage s to one of the stages in T, and all else is kept.
Goes(c, s, T) ==
  /\ Shape'
  /\ Others(c)
  /\ call[c].stage = s /\ call'[c].stage \in T
  /\ call'[c].took = call[c].took
  /\ call'[c].broadcasts = call[c].broadcasts

LEMMA FailedGoes ==
  ASSUME Shape, NEW c \in Caller
  PROVE  LET new == Failed(c) IN
         /\ DOMAIN new = Caller /\ \A d \in Caller : DOMAIN new[d] = Key
         /\ \A d \in Caller \ {c} : new[d] = call[d]
         /\ new[c].stage = "failed" /\ new[c].took = call[c].took
         /\ new[c].broadcasts = call[c].broadcasts
  BY DEF Shape, Failed, NoCall, Key

LEMMA SendGoes ==
  ASSUME Shape, NEW c \in Caller, NEW p, Send(c, p)
  PROVE  Goes(c, "ready", {"failed", "coins"})
<1>1. CASE call' = Failed(c)
  BY <1>1, FailedGoes DEF Send, Goes, Shape, Others
<1>2. CASE call' = [call EXCEPT ![c].stage = "coins", ![c].options = <<p>>]
  BY <1>2 DEF Send, Goes, Shape, Others, Key
<1> QED
  BY <1>1, <1>2 DEF Send

LEMMA ExportGoes ==
  ASSUME Shape, NEW c \in Caller, Export(c)
  PROVE  Goes(c, "ready", {"failed", "coins"})
<1>1. CASE call' = Failed(c)
  BY <1>1, FailedGoes DEF Export, Goes, Shape, Others
<1>2. CASE call' = [call EXCEPT ![c].stage = "coins"]
  BY <1>2 DEF Export, Goes, Shape, Others, Key
<1> QED
  BY <1>1, <1>2 DEF Export

LEMMA AskChallengeGoes ==
  ASSUME Shape, NEW c \in Caller, NEW coins, NEW s, call[c].stage = s, AskChallenge(c, coins)
  PROVE  Goes(c, s, {"challenge"})
  BY DEF AskChallenge, Goes, Shape, Others, Key

LEMMA CoinsKnownGoes ==
  ASSUME Shape, NEW c \in Caller, CoinsKnown(c)
  PROVE  Goes(c, "coins", {"failed", "challenge", "moreCoins"})
<1>1. call[c].stage = "coins"
  BY DEF CoinsKnown
<1>2. PICK coins : \/ call' = Failed(c)
                   \/ AskChallenge(c, coins)
                   \/ call' = [call EXCEPT ![c].stage = "moreCoins", ![c].coins = coins]
  BY DEF CoinsKnown
<1>3. CASE call' = Failed(c)
  BY <1>1, <1>3, FailedGoes DEF Goes, Shape, Others
<1>4. CASE AskChallenge(c, coins)
  BY <1>1, <1>4, AskChallengeGoes DEF Goes
<1>5. CASE call' = [call EXCEPT ![c].stage = "moreCoins", ![c].coins = coins]
  BY <1>1, <1>5 DEF Goes, Shape, Others, Key
<1> QED
  BY <1>2, <1>3, <1>4, <1>5

LEMMA MoreCoinsKnownGoes ==
  ASSUME Shape, NEW c \in Caller, MoreCoinsKnown(c)
  PROVE  Goes(c, "moreCoins", {"failed", "challenge"})
<1>1. call[c].stage = "moreCoins"
  BY DEF MoreCoinsKnown
<1>2. PICK coins : call' = Failed(c) \/ AskChallenge(c, coins)
  BY DEF MoreCoinsKnown
<1>3. CASE call' = Failed(c)
  BY <1>1, <1>3, FailedGoes DEF Goes, Shape, Others
<1>4. CASE AskChallenge(c, coins)
  BY <1>1, <1>4, AskChallengeGoes DEF Goes
<1> QED
  BY <1>2, <1>3, <1>4

LEMMA ChallengeKnownGoes ==
  ASSUME Shape, NEW c \in Caller, ChallengeKnown(c)
  PROVE  Goes(c, "challenge", {"failed", "exported", "signing"})
<1> DEFINE buffer == ToOfflineBuffer(call[c].sim, call[c].coins, Challenge)
<1>1. CASE call' = Failed(c)
  BY <1>1, FailedGoes DEF ChallengeKnown, Goes, Shape, Others
<1>2. CASE call' = [call EXCEPT ![c].stage = "exported", ![c].buffer = buffer]
  <2> HIDE DEF buffer
  <2> QED BY <1>2 DEF ChallengeKnown, Goes, Shape, Others, Key
<1>3. CASE call' = [call EXCEPT ![c].stage = "signing"]
  BY <1>3 DEF ChallengeKnown, Goes, Shape, Others, Key
<1> QED
  BY <1>1, <1>2, <1>3 DEF ChallengeKnown

LEMMA BroadcastReturnsGoes ==
  ASSUME Shape, NEW c \in Caller, BroadcastReturns(c)
  PROVE  /\ Goes(c, "sending", {"failed", "sent", "coins"})
         /\ PhraseApart => call'[c].stage # "coins"
<1>1. CASE call' = Failed(c)
  BY <1>1, FailedGoes DEF BroadcastReturns, Goes, Shape, Others
<1>2. CASE call' = [call EXCEPT ![c].stage = "sent"]
  BY <1>2 DEF BroadcastReturns, Goes, Shape, Others, Key
<1>3. CASE /\ ~PhraseApart
           /\ call' = [call EXCEPT ![c].stage = "coins", ![c].coins = <<>>,
                                   ![c].retried = TRUE]
  BY <1>3 DEF BroadcastReturns, Goes, Shape, Others, Key
<1> QED
  BY <1>1, <1>2, <1>3 DEF BroadcastReturns, Caught, Retries, PhraseApart

\* Sign() broadcasts, or tries again, or fails.
LEMMA SignGoes ==
  ASSUME Shape, NEW c \in Caller, Sign(c)
  PROVE  \/ Goes(c, "signing", {"failed", "coins"})
         \/ /\ Shape' /\ Others(c)
            /\ call[c].stage = "signing" /\ call'[c].stage = "sending"
            /\ call'[c].took = call[c].took
            /\ call'[c].broadcasts = call[c].broadcasts + 1
<1>1. CASE call' = Failed(c)
  BY <1>1, FailedGoes DEF Sign, Goes, Shape, Others
<1>2. CASE call' = [call EXCEPT ![c].stage = "coins", ![c].coins = <<>>, ![c].retried = TRUE]
  BY <1>2 DEF Sign, Goes, Shape, Others, Key
<1>3. CASE call' = [call EXCEPT ![c].stage = "sending", ![c].broadcasts = @ + 1]
  BY <1>3 DEF Sign, Shape, Others, Key
<1> QED
  BY <1>1, <1>2, <1>3 DEF Sign, Caught

LEMMA GasKnownGoes ==
  ASSUME Shape, NEW c \in Caller, GasKnown(c)
  PROVE  Goes(c, "gas", {"failed", "ready"})
<1> DEFINE params == req[GasSlot(call[c].promise)]
           price == GasPerSat[params.value]
           decoded == DecodeEvents(use.abi, call[c].events)
           asked == params.value
           satGas == Estimate(Zero(call[c].sim.gas), price)
           satRefunded == Estimate(Zero(call[c].sim.refunded), price)
<1>1. CASE call' = Failed(c)
  BY <1>1, FailedGoes DEF GasKnown, Goes, Shape, Others
<1>2. CASE call' = [call EXCEPT
                ![c].stage = "ready", ![c].gasAt = asked,
                ![c].events = decoded, ![c].sim.fees = <<Fees>>,
                ![c].sim.satGas = satGas, ![c].sim.satRefunded = satRefunded]
  <2>1. call[c].stage = "gas"
    BY DEF GasKnown
  <2> HIDE DEF asked, decoded, satGas, satRefunded
  <2> QED BY <1>2, <2>1 DEF Goes, Shape, Others, Key
<1> QED
  BY <1>1, <1>2 DEF GasKnown

LEMMA AwaitGasGoes ==
  ASSUME Shape, NEW c \in Caller, NEW rs, NEW r, DOMAIN r = Key, r.took = call[c].took,
         r.broadcasts = call[c].broadcasts, call[c].stage = "calling", AwaitGas(c, rs, r)
  PROVE  Goes(c, "calling", {"gas"})
  BY DEF AwaitGas, Goes, Shape, Others, Key

LEMMA CallReturnsGoes ==
  ASSUME Shape, NEW c \in Caller, CallReturns(c)
  PROVE  Goes(c, "calling", {"failed", "gas"})
<1>1. call[c].stage = "calling"
  BY DEF CallReturns
<1>2. CASE call' = Failed(c)
  BY <1>1, <1>2, FailedGoes DEF Goes, Shape, Others
<1>3. CASE \E rs, events, sim :
             AwaitGas(c, rs, [call[c] EXCEPT !.args = <<>>, !.events = events, !.sim = sim])
  <2>1. PICK rs, events, sim :
          AwaitGas(c, rs, [call[c] EXCEPT !.args = <<>>, !.events = events, !.sim = sim])
    BY <1>3
  <2> DEFINE r == [call[c] EXCEPT !.args = <<>>, !.events = events, !.sim = sim]
  <2>2. DOMAIN r = Key /\ r.took = call[c].took /\ r.broadcasts = call[c].broadcasts
    BY DEF Shape, Key
  <2> HIDE DEF r
  <2>3. AwaitGas(c, rs, r)
    BY <2>1 DEF r
  <2> QED
    BY <1>1, <2>2, <2>3, AwaitGasGoes DEF Goes
<1> QED
  BY <1>2, <1>3 DEF CallReturns

\* A call goes from "address" with the settings, which are used up, or fails without.
TakesSettings(c) ==
  /\ Shape' /\ Others(c)
  /\ call[c].stage = "address" /\ call'[c].stage \in {"failed", "calling"}
  /\ call'[c].broadcasts = call[c].broadcasts
  /\ sets' = sets
  /\ \/ call'[c].took = settings /\ settings' = SettingsLeft
     \/ call'[c].took = call[c].took /\ settings' = settings

LEMMA CallNodeGoes ==
  ASSUME Shape, NEW c \in Caller, CallNode(c)
  PROVE  /\ Shape' /\ Others(c)
         /\ call'[c].stage \in {"failed", "calling"}
         /\ call'[c].broadcasts = call[c].broadcasts
         /\ call'[c].took = settings
<1>1. CASE call' = [Failed(c) EXCEPT ![c].took = settings]
  <2> DEFINE new == Failed(c)
  <2>1. /\ DOMAIN new = Caller /\ \A d \in Caller : DOMAIN new[d] = Key
        /\ \A d \in Caller \ {c} : new[d] = call[d]
        /\ new[c].stage = "failed" /\ new[c].broadcasts = call[c].broadcasts
    BY FailedGoes
  <2>2. call' = [new EXCEPT ![c].took = settings]
    BY <1>1
  <2> HIDE DEF new
  <2> QED BY <2>1, <2>2 DEF Shape, Others, Key
<1>2. CASE \E sim : call' = [call EXCEPT ![c].stage = "calling", ![c].took = settings,
                                        ![c].seen = SeenByNode, ![c].sim = sim]
  BY <1>2 DEF Shape, Others, Key
<1> QED
  BY <1>1, <1>2 DEF CallNode

LEMMA AddressKnownGoes ==
  ASSUME Shape, NEW c \in Caller, AddressKnown(c)
  PROVE  TakesSettings(c)
<1>1. call[c].stage = "address" /\ sets' = sets
  BY DEF AddressKnown
<1>2. CASE CallNode(c) /\ settings' = SettingsLeft
  BY <1>1, <1>2, CallNodeGoes DEF TakesSettings
<1>3. CASE call' = Failed(c) /\ settings' = settings
  BY <1>1, <1>3, FailedGoes DEF TakesSettings, Shape, Others
<1> QED
  BY <1>2, <1>3 DEF AddressKnown

LEMMA StartGoes ==
  ASSUME Shape, NEW c \in Caller, NEW fn, NEW args, Start(c, fn, args)
  PROVE  /\ Shape' /\ Others(c)
         /\ call[c].stage = "idle" /\ call'[c].stage = "address"
         /\ call'[c].took = NoSettings /\ call'[c].broadcasts = 0
         /\ UNCHANGED <<settings, sets>>
  BY DEF Start, Shape, Others, NoCall, Key

LEMMA SetGoes ==
  ASSUME Shape, NEW x \in Setting, Set(x)
  PROVE  /\ Shape'
         /\ \A c \in Caller : /\ call'[c].stage = call[c].stage /\ call'[c].took = call[c].took
                               /\ call'[c].broadcasts = call[c].broadcasts
         /\ sets' = sets + 1 /\ settings' = [settings EXCEPT ![x] = sets']
  BY DEF Set, Disturbed, Shape, Key

-----------------------------------------------------------------------------
(* The steps there are, as far as the calls and the settings go            *)

\* A call that broadcasts ends with that, if a refusal is not taken for want of fees.
AfterBroadcast == {"sending", "sent", "failed"}

Keeps == UNCHANGED <<call, settings, sets>>

SetsSetting(x) ==
  /\ Shape'
  /\ \A c \in Caller : /\ call'[c].stage = call[c].stage /\ call'[c].took = call[c].took
                        /\ call'[c].broadcasts = call[c].broadcasts
  /\ sets' = sets + 1 /\ settings' = [settings EXCEPT ![x] = sets']

Starts(c) ==
  /\ Shape' /\ Others(c)
  /\ call[c].stage = "idle" /\ call'[c].stage = "address"
  /\ call'[c].took = NoSettings /\ call'[c].broadcasts = 0
  /\ UNCHANGED <<settings, sets>>

\* Any step of a call that neither takes settings nor broadcasts.
Moves(c) ==
  /\ Shape' /\ Others(c)
  /\ \/ call[c].stage = "sending" /\ (PhraseApart => call'[c].stage \in AfterBroadcast)
     \/ call[c].stage \notin AfterBroadcast
  /\ call'[c].took = call[c].took /\ call'[c].broadcasts = call[c].broadcasts
  /\ UNCHANGED <<settings, sets>>

Broadcasting(c) ==
  /\ Shape' /\ Others(c)
  /\ call[c].stage = "signing" /\ call'[c].stage = "sending"
  /\ call'[c].took = call[c].took /\ call'[c].broadcasts = call[c].broadcasts + 1
  /\ UNCHANGED <<settings, sets>>

Step ==
  \/ Keeps
  \/ \E x \in Setting : SetsSetting(x)
  \/ \E c \in Caller : Starts(c) \/ TakesSettings(c) \/ Moves(c) \/ Broadcasting(c)

LEMMA CallStepIsStep ==
  ASSUME Shape, NEW c \in Caller, CallStep(c)
  PROVE  Step
<1>1. CASE AddressKnown(c)
  BY <1>1, AddressKnownGoes DEF Step
<1>2. CASE CallReturns(c)
  BY <1>2, CallReturnsGoes DEF CallReturns, Goes, Moves, AfterBroadcast, Step
<1>3. CASE GasKnown(c)
  BY <1>3, GasKnownGoes DEF GasKnown, Goes, Moves, AfterBroadcast, Step
<1>4. CASE CoinsKnown(c)
  BY <1>4, CoinsKnownGoes DEF CoinsKnown, Goes, Moves, AfterBroadcast, Step
<1>5. CASE MoreCoinsKnown(c)
  BY <1>5, MoreCoinsKnownGoes DEF MoreCoinsKnown, Goes, Moves, AfterBroadcast, Step
<1>6. CASE ChallengeKnown(c)
  BY <1>6, ChallengeKnownGoes DEF ChallengeKnown, Goes, Moves, AfterBroadcast, Step
<1>7. CASE Sign(c)
  BY <1>7, SignGoes DEF Sign, Goes, Moves, Broadcasting, AfterBroadcast, Step
<1>8. CASE BroadcastReturns(c)
  BY <1>8, BroadcastReturnsGoes DEF BroadcastReturns, Goes, Moves, AfterBroadcast, Step
<1> QED
  BY <1>1, <1>2, <1>3, <1>4, <1>5, <1>6, <1>7, <1>8 DEF CallStep

LEMMA ApplicationStepIsStep ==
  ASSUME Shape, ApplicationStep
  PROVE  Step
<1>1. CASE Open
  BY <1>1 DEF Open, Step, Keeps
<1>2. CASE \E x \in Setting : Set(x)
  BY <1>2, SetGoes DEF Step, SetsSetting
<1>3. CASE \E c \in Caller : \E fn, args : Start(c, fn, args)
  BY <1>3, StartGoes DEF Step, Starts
<1>4. CASE \E c \in Caller : \E p : Send(c, p)
  BY <1>4, SendGoes DEF Send, Goes, Moves, AfterBroadcast, Step
<1>5. CASE \E c \in Caller : Export(c)
  BY <1>5, ExportGoes DEF Export, Goes, Moves, AfterBroadcast, Step
<1>6. CASE UNCHANGED callVars
  BY <1>6 DEF callVars, Step, Keeps
<1> QED
  BY <1>1, <1>2, <1>3, <1>4, <1>5, <1>6 DEF ApplicationStep

LEMMA NextIsStep ==
  ASSUME Shape, [Next]_vars
  PROVE  Step
<1>1. CASE ApplicationStep
  BY <1>1, ApplicationStepIsStep
<1>2. CASE \E c \in Caller : CallStep(c)
  BY <1>2, CallStepIsStep
<1>3. CASE UNCHANGED callVars
  BY <1>3 DEF callVars, Step, Keeps
<1>4. CASE UNCHANGED vars
  BY <1>4 DEF vars, callVars, Step, Keeps
<1> QED
  BY <1>1, <1>2, <1>3, <1>4 DEF Next, RpcStep

LEMMA StepKeepsShape ==
  ASSUME Shape, Step
  PROVE  Shape'
  BY DEF Step, Keeps, SetsSetting, Starts, TakesSettings, Moves, Broadcasting, Shape

LEMMA AtFirst ==
  Init => /\ DOMAIN call = Caller
          /\ \A c \in Caller : /\ DOMAIN call[c] = Key
                                /\ call[c].stage = "idle" /\ call[c].broadcasts = 0
                                /\ call[c].took = NoSettings
          /\ settings = NoSettings /\ sets = 0
<1>1. /\ DOMAIN NoCall = Key
      /\ NoCall.stage = "idle" /\ NoCall.broadcasts = 0 /\ NoCall.took = NoSettings
  BY DEF NoCall, Key
<1>2. Init => call = [c \in Caller |-> NoCall] /\ settings = NoSettings /\ sets = 0
  BY DEF Init
<1> QED
  BY <1>1, <1>2

LEMMA InitShape == Init => Shape
  BY AtFirst DEF Shape

\* The calls keep their shape.
THEOREM ShapeKept == Spec => []Shape
<1>1. Shape /\ [Next]_vars => Shape'
  BY NextIsStep, StepKeepsShape
<1> QED
  BY <1>1, InitShape, PTL DEF Spec

-----------------------------------------------------------------------------
(* A transaction is broadcast once                                         *)

\* What makes BroadcastOnce inductive: nothing that can still be signed was broadcast.
NotYetBroadcast ==
  \A c \in Caller :
    /\ call[c].broadcasts \in {0, 1}
    /\ call[c].broadcasts = 1 => call[c].stage \in AfterBroadcast

\* A transaction is broadcast once, whatever goes wrong with it, as long as no refusal of a
\* broadcast reads like the error a retry is for: that one is then thrown before anything is
\* broadcast.  (CallResult.sendTransaction())
THEOREM SendsOnce ==
  ASSUME PhraseApart
  PROVE  Spec => []BroadcastOnce
<1>1. Init => NotYetBroadcast
  BY AtFirst DEF NotYetBroadcast
<1>2. ASSUME Shape, NotYetBroadcast, [Next]_vars
      PROVE  NotYetBroadcast'
  <2>1. CASE Keeps
    BY <1>2, <2>1 DEF NotYetBroadcast, Keeps
  <2>2. CASE \E x \in Setting : SetsSetting(x)
    BY <1>2, <2>2 DEF NotYetBroadcast, SetsSetting
  <2>3. ASSUME NEW c \in Caller, Starts(c) \/ TakesSettings(c) \/ Moves(c) \/ Broadcasting(c)
        PROVE  NotYetBroadcast'
    <3>1. \A d \in Caller \ {c} : call'[d] = call[d]
      BY <2>3 DEF Starts, TakesSettings, Moves, Broadcasting, Others
    <3>2. /\ call'[c].broadcasts \in {0, 1}
          /\ call'[c].broadcasts = 1 => call'[c].stage \in AfterBroadcast
      BY <1>2, <2>3 DEF NotYetBroadcast, Starts, TakesSettings, Moves, Broadcasting, AfterBroadcast
    <3> QED
      BY <1>2, <3>1, <3>2 DEF NotYetBroadcast
  <2> QED
    BY <1>2, <2>1, <2>2, <2>3, NextIsStep DEF Step
<1>3. NotYetBroadcast => BroadcastOnce
  BY DEF NotYetBroadcast, BroadcastOnce
<1> QED
  BY <1>1, <1>2, <1>3, ShapeKept, PTL DEF Spec

-----------------------------------------------------------------------------
(* Details and access list serve one call                                  *)

\* Settings are numbered as they are made.
Numbered ==
  /\ sets \in Nat
  /\ settings \in [Setting -> 0..sets]
  /\ \A c \in Caller : call[c].took \in [Setting -> 0..sets]

\* What makes UsedOnce inductive: what is set now has not been taken.
Untaken ==
  \A c \in Caller : \A x \in {"details", "list"} :
    settings[x] = call[c].took[x] => settings[x] = 0

OnceInv == Numbered /\ Untaken /\ UsedOnce

LEMMA LeftInRange ==
  ASSUME sets \in Nat, settings \in [Setting -> 0..sets]
  PROVE  /\ SettingsLeft \in [Setting -> 0..sets]
         /\ SettingsLeft["details"] = 0 /\ SettingsLeft["list"] = 0
<1>1. 0 \in 0..sets /\ "details" \in Setting /\ "list" \in Setting
  BY DEF Setting
<1> QED
  BY <1>1 DEF SettingsLeft

LEMMA OnceStep ==
  ASSUME Shape, OnceInv, Step
  PROVE  OnceInv'
<1> USE DEF Setting
<1>1. CASE Keeps
  BY <1>1 DEF OnceInv, Numbered, Untaken, UsedOnce, Keeps
<1>2. ASSUME NEW x \in Setting, SetsSetting(x)
      PROVE  OnceInv'
  <2>1. Numbered'
    BY <1>2 DEF OnceInv, Numbered, SetsSetting
  <2>2. Untaken'
    BY <1>2 DEF OnceInv, Numbered, Untaken, SetsSetting
  <2>3. UsedOnce'
    BY <1>2 DEF OnceInv, UsedOnce, SetsSetting
  <2> QED
    BY <2>1, <2>2, <2>3 DEF OnceInv
<1>3. ASSUME NEW c \in Caller, Moves(c) \/ Broadcasting(c)
      PROVE  OnceInv'
  <2>1. settings' = settings /\ sets' = sets /\ \A d \in Caller : call'[d].took = call[d].took
    BY <1>3 DEF Moves, Broadcasting, Others
  <2> QED
    BY <2>1 DEF OnceInv, Numbered, Untaken, UsedOnce
<1>4. ASSUME NEW c \in Caller, Starts(c)
      PROVE  OnceInv'
  <2>1. /\ settings' = settings /\ sets' = sets
        /\ call'[c].took = [x \in Setting |-> 0]
        /\ \A d \in Caller \ {c} : call'[d].took = call[d].took
    BY <1>4 DEF Starts, Others, NoSettings
  <2> QED
    BY <2>1 DEF OnceInv, Numbered, Untaken, UsedOnce
<1>5. ASSUME NEW c \in Caller, TakesSettings(c)
      PROVE  OnceInv'
  <2>1. sets' = sets /\ \A d \in Caller \ {c} : call'[d].took = call[d].took
    BY <1>5 DEF TakesSettings, Others
  <2>2. CASE call'[c].took = call[c].took /\ settings' = settings
    BY <2>1, <2>2 DEF OnceInv, Numbered, Untaken, UsedOnce
  <2>3. CASE call'[c].took = settings /\ settings' = SettingsLeft
    <3>0. /\ settings' \in [Setting -> 0..sets]
          /\ settings'["details"] = 0 /\ settings'["list"] = 0
      BY <2>3, LeftInRange DEF OnceInv, Numbered
    <3>1. Numbered'
      BY <2>1, <2>3, <3>0 DEF OnceInv, Numbered
    <3>2. Untaken'
      BY <3>0 DEF Untaken
    <3>3. UsedOnce'
      BY <2>1, <2>3 DEF OnceInv, Untaken, UsedOnce
    <3> QED
      BY <3>1, <3>2, <3>3 DEF OnceInv
  <2> QED
    BY <1>5, <2>2, <2>3 DEF TakesSettings
<1> QED
  BY <1>1, <1>2, <1>3, <1>4, <1>5 DEF Step

\* Details and access list serve one call at most, however many calls overlap and whichever
\* of them fail.  (Contract.callFunction())
THEOREM SettingsServeOnce == Spec => []UsedOnce
<1>1. Init => OnceInv
  BY AtFirst DEF OnceInv, Numbered, Untaken, UsedOnce, NoSettings, Setting
<1>2. Shape /\ OnceInv /\ [Next]_vars => OnceInv'
  BY NextIsStep, OnceStep
<1>3. OnceInv => UsedOnce
  BY DEF OnceInv
<1> QED
  BY <1>1, <1>2, <1>3, ShapeKept, PTL DEF Spec

-----------------------------------------------------------------------------
(* A call that nothing disturbs                                            *)
(*                                                                         *)
(* The settings are read after an await.  What makes this safe is that the *)
(* calls that await the address go on in the order they were made: one     *)
(* that was made while none waited is the first to take the settings.      *)

Watched == {"address", "calling", "gas"}

\* A call that was made while none waited, and that no setting has met.
FirstToGo(c) ==
  /\ contract.waiting # <<>> /\ Head(contract.waiting) = c
  /\ call[c].meant = settings

Simulating(c) ==
  /\ call[c].took = call[c].meant
  /\ transport # "ws" => call[c].seen = call[c].meant
  /\ settings["sender"] = call[c].meant.sender

\* What makes UndisturbedCall inductive.
Undisturbed ==
  \A c \in Caller : call[c].alone =>
    /\ call[c].stage = "address" => FirstToGo(c)
    /\ call[c].stage = "calling" => Simulating(c)
    /\ call[c].stage = "gas" => call[c].sim.from = call[c].meant.sender

Queue ==
  /\ DOMAIN contract = {"open", "waiting", "known", "gas"}
  /\ contract.waiting \in Seq(Caller)
  /\ settings = [x \in Setting |-> settings[x]]

\* The calls that wait are in line; so none of them finds the line empty.
InLine ==
  \A c \in Caller : call[c].stage = "address" =>
    \E i \in 1..Len(contract.waiting) : contract.waiting[i] = c

CallsInv == Shape /\ Queue /\ InLine /\ Undisturbed

\* A step that meets none of the calls that are watched.
Aside ==
  /\ Queue' /\ settings' = settings /\ transport' = transport
  /\ contract'.waiting = contract.waiting
  /\ \A c \in Caller : call'[c].stage \notin Watched \/ call'[c] = call[c]

LEMMA AsideKeeps ==
  ASSUME CallsInv, Aside
  PROVE  Queue' /\ InLine' /\ Undisturbed'
<1>1. Queue' /\ InLine'
  BY DEF CallsInv, InLine, Aside, Watched
<1>2. Undisturbed'
  BY DEF CallsInv, Undisturbed, FirstToGo, Simulating, Aside, Watched
<1> QED
  BY <1>1, <1>2

LEMMA AppendKeepsHead ==
  ASSUME NEW S, NEW w \in Seq(S), NEW x \in S
  PROVE  /\ Append(w, x) \in Seq(S) /\ Append(w, x) # <<>>
         /\ Len(Append(w, x)) = Len(w) + 1 /\ Append(w, x)[Len(w) + 1] = x
         /\ \A i \in 1..Len(w) : Append(w, x)[i] = w[i]
         /\ w = <<>> => Head(Append(w, x)) = x
         /\ w # <<>> => Head(Append(w, x)) = Head(w)
  OBVIOUS

LEMMA CallParams == Method["call"].params = CallParameters
<1>1. /\ "call" \notin DOMAIN InfoMethods
      /\ "call" \notin DOMAIN BlockMethods /\ "call" \notin DOMAIN BlocksMethods
      /\ "call" \notin DOMAIN StateMethods /\ "call" \notin DOMAIN BroadcastMethods
      /\ "call" \notin DOMAIN WitnessMethods /\ "call" \notin DOMAIN KeyMethods
      /\ "call" \notin DOMAIN EpochMethods /\ "call" \notin DOMAIN MempoolMethods
      /\ "call" \notin DOMAIN CoinMethods
  BY DEF InfoMethods, BlockMethods, BlocksMethods, StateMethods, BroadcastMethods,
         WitnessMethods, KeyMethods, EpochMethods, MempoolMethods, CoinMethods
<1>2. "call" \in DOMAIN CallMethods /\ CallMethods["call"].params = CallParameters
  BY DEF CallMethods, Asks
<1>3. /\ CallMethods \in MethodGroups
      /\ \A group \in MethodGroups : "call" \in DOMAIN group => group = CallMethods
  BY <1>1, <1>2 DEF MethodGroups
<1>4. (CHOOSE group \in MethodGroups : "call" \in DOMAIN group) = CallMethods
  BY <1>2, <1>3
<1>5. Method["call"] = CallMethods["call"]
  BY <1>2, <1>3, <1>4 DEF Method
<1> QED
  BY <1>2, <1>5

\* Over HTTP the node is sent all of the settings.
LEMMA AllSeen ==
  ASSUME transport # "ws", settings = [x \in Setting |-> settings[x]]
  PROVE  SeenByNode = settings
<1>1. Carried("call", transport) = CallParameters
  BY CallParams DEF Carried, Unsent
<1>2. SeenByNode = [sender |-> settings["sender"], height |-> settings["height"],
                    details |-> settings["details"], list |-> settings["list"]]
  BY <1>1 DEF SeenByNode, CallParameters
<1> QED
  BY <1>2 DEF Setting

-----------------------------------------------------------------------------
(* The steps                                                               *)

LEMMA UnchangedAside ==
  ASSUME CallsInv, UNCHANGED callVars, transport' = transport
  PROVE  Aside
  BY DEF callVars, Aside, CallsInv, Queue

LEMMA CallStepAside ==
  ASSUME CallsInv, NEW c \in Caller,
         \/ (\E p : Send(c, p)) \/ Export(c) \/ GasKnown(c) \/ CoinsKnown(c)
         \/ MoreCoinsKnown(c) \/ ChallengeKnown(c) \/ Sign(c) \/ BroadcastReturns(c)
  PROVE  Aside
<1>1. transport' = transport /\ settings' = settings /\ contract' = contract
  BY DEF Send, Export, GasKnown, CoinsKnown, MoreCoinsKnown, ChallengeKnown, Sign,
         BroadcastReturns, rpcVars
<1>2. Others(c) /\ call'[c].stage \notin Watched
  BY SendGoes, ExportGoes, GasKnownGoes, CoinsKnownGoes, MoreCoinsKnownGoes,
     ChallengeKnownGoes, SignGoes, BroadcastReturnsGoes DEF CallsInv, Goes, Watched
<1>3. Queue'
  BY <1>1 DEF CallsInv, Queue
<1> QED
  BY <1>1, <1>2, <1>3 DEF Aside, Others

LEMMA OpenAside ==
  ASSUME CallsInv, Open
  PROVE  Aside
<1>1. /\ \E yes : contract' = [contract EXCEPT !.open = yes]
      /\ transport' = transport /\ settings' = settings /\ call' = call
  BY DEF Open, rpcVars
<1> QED
  BY <1>1 DEF CallsInv, Queue, Aside

\* A setting that is made disturbs the calls that could meet it.
LEMMA SetKeeps ==
  ASSUME CallsInv, NEW x \in Setting, Set(x)
  PROVE  Queue' /\ InLine' /\ Undisturbed'
<1>1. /\ call' = Disturbed /\ contract' = contract
      /\ settings' = [settings EXCEPT ![x] = sets']
  BY DEF Set
<1>2. Queue'
  BY <1>1 DEF CallsInv, Queue
<1>3. ASSUME NEW c \in Caller
      PROVE  \/ call'[c] = call[c] /\ call[c].stage \notin {"address", "calling"}
             \/ ~call'[c].alone
  BY <1>1 DEF Disturbed, CallsInv, Shape, Key
<1>4. InLine'
  BY <1>1, SetGoes DEF CallsInv, InLine
<1> QED
  BY <1>2, <1>3, <1>4 DEF CallsInv, Undisturbed

LEMMA StartKeeps ==
  ASSUME CallsInv, NEW c \in Caller, NEW fn, NEW args, Start(c, fn, args)
  PROVE  Queue' /\ InLine' /\ Undisturbed'
<1>1. /\ contract' = [contract EXCEPT !.waiting = Append(@, c)]
      /\ settings' = settings /\ transport' = transport
  BY DEF Start
<1>2. /\ contract.waiting \in Seq(Caller)
      /\ contract'.waiting = Append(contract.waiting, c)
      /\ DOMAIN contract' = DOMAIN contract
  BY <1>1 DEF CallsInv, Queue
<1>3. /\ contract'.waiting \in Seq(Caller) /\ contract'.waiting # <<>>
      /\ contract.waiting = <<>> => Head(contract'.waiting) = c
      /\ contract.waiting # <<>> => Head(contract'.waiting) = Head(contract.waiting)
  BY <1>2, AppendKeepsHead
<1>4. Queue'
  BY <1>1, <1>2, <1>3 DEF CallsInv, Queue
<1>5. /\ Others(c) /\ call'[c].stage = "address" /\ call'[c].meant = settings
      /\ call'[c].alone => contract.waiting = <<>>
  BY DEF Start, CallsInv, Shape, Others, NoCall
<1>6. ASSUME NEW d \in Caller, call'[d].alone, call'[d].stage = "address"
      PROVE  FirstToGo(d)'
  <2>1. CASE d = c
    BY <1>1, <1>3, <1>5, <1>6, <2>1 DEF FirstToGo
  <2>2. CASE d # c
    BY <1>1, <1>3, <1>5, <1>6, <2>2 DEF Others, CallsInv, Undisturbed, FirstToGo
  <2> QED
    BY <2>1, <2>2
<1>7. ASSUME NEW d \in Caller, call'[d].alone, call'[d].stage \in {"calling", "gas"}
      PROVE  call'[d] = call[d]
  BY <1>5, <1>7 DEF Others
<1>8. ASSUME NEW d \in Caller, call'[d].stage = "address"
      PROVE  \E i \in 1..Len(contract'.waiting) : contract'.waiting[i] = d
  <2> DEFINE w == contract.waiting
             w2 == contract'.waiting
  <2>1. /\ Len(w) \in Nat /\ Len(w2) = Len(w) + 1 /\ w2[Len(w) + 1] = c
        /\ \A i \in 1..Len(w) : w2[i] = w[i]
    BY <1>2, AppendKeepsHead
  <2>2. CASE d = c
    BY <2>1, <2>2
  <2>3. CASE d # c
    <3>1. \E i \in 1..Len(w) : w[i] = d
      BY <1>5, <1>8, <2>3 DEF Others, CallsInv, InLine
    <3> QED
      BY <2>1, <3>1
  <2> QED
    BY <2>2, <2>3
<1>9. InLine'
  BY <1>8 DEF InLine
<1> QED
  BY <1>1, <1>4, <1>6, <1>7, <1>9 DEF CallsInv, Undisturbed, Simulating

\* The first of the calls that wait takes the settings.
LEMMA AddressKnownKeeps ==
  ASSUME CallsInv, NEW c \in Caller, AddressKnown(c)
  PROVE  Queue' /\ InLine' /\ Undisturbed'
<1>1. PICK known : contract' = [contract EXCEPT !.waiting = Tail(@), !.known = known]
  BY DEF AddressKnown
<1>2. /\ call[c].stage = "address" /\ Head(contract.waiting) = c
      /\ transport' = transport
  BY DEF AddressKnown, Resumes
<1>3. Others(c)
  BY AddressKnownGoes DEF CallsInv, TakesSettings
<1>4. DOMAIN contract' = DOMAIN contract /\ contract'.waiting = Tail(contract.waiting)
  BY <1>1 DEF CallsInv, Queue
<1>5. /\ contract.waiting \in Seq(Caller) /\ contract.waiting # <<>>
      /\ Tail(contract.waiting) \in Seq(Caller)
      /\ Len(Tail(contract.waiting)) = Len(contract.waiting) - 1
      /\ \A i \in 2..Len(contract.waiting) :
           Tail(contract.waiting)[i - 1] = contract.waiting[i]
      /\ contract.waiting[1] = c
  <2>1. contract.waiting \in Seq(Caller)
    BY DEF CallsInv, Queue
  <2>2. contract.waiting # <<>>
    BY <1>2, <2>1 DEF CallsInv, InLine
  <2> QED
    BY <1>2, <2>1, <2>2
<1>6. ASSUME NEW d \in Caller \ {c}, call'[d].alone
      PROVE  call'[d].stage # "address"
  BY <1>2, <1>3, <1>6 DEF Others, CallsInv, Undisturbed, FirstToGo
<1>7. ASSUME settings' = settings \/ settings' = SettingsLeft
      PROVE  /\ settings' = [x \in Setting |-> settings'[x]]
             /\ settings'["sender"] = settings["sender"]
  BY <1>7 DEF CallsInv, Queue, SettingsLeft, Setting
<1>8. settings' = settings \/ settings' = SettingsLeft
  BY DEF AddressKnown
<1>9. Queue'
  BY <1>4, <1>5, <1>7, <1>8 DEF CallsInv, Queue
<1>10. ASSUME call'[c].alone
       PROVE  call'[c].stage = "calling" => Simulating(c)'
  <2>1. ASSUME CallNode(c), call'[c].stage = "calling"
        PROVE  Simulating(c)'
    <3>1. PICK sim : call' = [call EXCEPT ![c].stage = "calling", ![c].took = settings,
                                          ![c].seen = SeenByNode, ![c].sim = sim]
      <4> DEFINE new == Failed(c)
      <4>0. /\ DOMAIN new = Caller /\ \A d \in Caller : DOMAIN new[d] = Key
            /\ new[c].stage = "failed"
        BY FailedGoes DEF CallsInv
      <4> HIDE DEF new
      <4>1. call' # [new EXCEPT ![c].took = settings]
        BY <2>1, <4>0 DEF Key
      <4> USE DEF new
      <4> QED
        BY <2>1, <4>1 DEF CallNode
    <3>2. /\ call'[c].took = settings /\ call'[c].seen = SeenByNode
          /\ call'[c].meant = call[c].meant /\ call'[c].alone = call[c].alone
      BY <3>1 DEF CallsInv, Shape, Key
    <3>3. call[c].meant = settings
      BY <1>2, <1>10, <3>2 DEF CallsInv, Undisturbed, FirstToGo
    <3>4. transport # "ws" => SeenByNode = settings
      BY AllSeen DEF CallsInv, Queue
    <3> QED
      BY <1>2, <1>7, <1>8, <3>2, <3>3, <3>4 DEF Simulating
  <2>2. CASE call' = Failed(c)
    BY <2>2, FailedGoes DEF CallsInv
  <2> QED
    BY <2>1, <2>2 DEF AddressKnown
<1>11. call'[c].stage \in {"failed", "calling"}
  BY AddressKnownGoes DEF CallsInv, TakesSettings
<1>12. ASSUME NEW d \in Caller \ {c}, call'[d].alone
       PROVE  /\ call'[d].stage = "calling" => Simulating(d)'
              /\ call'[d].stage = "gas" => call'[d].sim.from = call'[d].meant.sender
  BY <1>2, <1>3, <1>7, <1>8, <1>12 DEF Others, CallsInv, Undisturbed, Simulating
<1>13. ASSUME NEW d \in Caller, call'[d].stage = "address"
       PROVE  \E i \in 1..Len(contract'.waiting) : contract'.waiting[i] = d
  <2>1. d # c /\ call[d].stage = "address"
    BY <1>3, <1>11, <1>13 DEF Others
  <2>2. PICK i \in 1..Len(contract.waiting) : contract.waiting[i] = d
    BY <2>1 DEF CallsInv, InLine
  <2>3. i \in 2..Len(contract.waiting) /\ i - 1 \in 1..Len(Tail(contract.waiting))
    BY <1>5, <2>1, <2>2
  <2>4. Tail(contract.waiting)[i - 1] = d
    BY <1>5, <2>2, <2>3
  <2> QED
    BY <1>4, <2>3, <2>4
<1>14. InLine'
  BY <1>13 DEF InLine
<1> QED
  BY <1>6, <1>9, <1>10, <1>11, <1>12, <1>14 DEF Undisturbed

\* A result names the sender that is set when the answer is there.
LEMMA CallReturnsKeeps ==
  ASSUME CallsInv, NEW c \in Caller, CallReturns(c)
  PROVE  Queue' /\ InLine' /\ Undisturbed'
<1>1. /\ call[c].stage = "calling"
      /\ settings' = settings /\ transport' = transport
  BY DEF CallReturns
<1>2. CASE call' = Failed(c) /\ contract' = contract
  <2>1. Aside
    BY <1>1, <1>2, FailedGoes DEF CallsInv, Queue, Aside, Watched
  <2> QED
    BY <2>1, AsideKeeps
<1>3. ASSUME NEW output, NEW values, NEW gas, NEW events,
             AwaitGas(c, Answered(CallSlot(c)),
               [call[c] EXCEPT !.args = <<>>, !.events = events,
                               !.sim = Simulated(c, output, values, gas, gas \div 2)])
      PROVE  Queue' /\ InLine' /\ Undisturbed'
  <2> DEFINE rs == Answered(CallSlot(c))
             sim == Simulated(c, output, values, gas, gas \div 2)
             r == [call[c] EXCEPT !.args = <<>>, !.events = events, !.sim = sim]
  <2>1. sim.from = settings.sender
    BY DEF Simulated
  <2>2. AwaitGas(c, rs, r)
    BY <1>3
  <2> HIDE DEF sim
  <2>3. /\ DOMAIN r = Key /\ r.sim = sim
        /\ r.alone = call[c].alone /\ r.meant = call[c].meant
    BY DEF CallsInv, Shape, Key
  <2> HIDE DEF r, rs
  <2>4. \E promise : call' = [call EXCEPT ![c] = [r EXCEPT !.stage = "gas", !.wantedAt = now,
                                                         !.promise = promise]]
    BY <2>2 DEF AwaitGas
  <2>5. /\ call'[c].stage = "gas" /\ call'[c].sim.from = settings.sender
        /\ call'[c].alone = call[c].alone /\ call'[c].meant = call[c].meant
        /\ Others(c)
    BY <2>1, <2>3, <2>4 DEF CallsInv, Shape, Key, Others
  <2>6. /\ DOMAIN contract' = DOMAIN contract /\ contract'.waiting = contract.waiting
    BY <2>2 DEF AwaitGas, CallsInv, Queue
  <2>7. Queue'
    BY <1>1, <2>6 DEF CallsInv, Queue
  <2>8. InLine'
    BY <2>5, <2>6 DEF CallsInv, InLine, Others
  <2>9. Undisturbed'
    <3>1. call'[c].alone => call'[c].sim.from = call'[c].meant.sender
      BY <1>1, <2>5 DEF CallsInv, Undisturbed, Simulating
    <3> QED
      BY <1>1, <2>5, <2>6, <3>1
         DEF CallsInv, Undisturbed, Simulating, FirstToGo, Others
  <2> QED
    BY <2>7, <2>8, <2>9
<1> QED
  BY <1>2, <1>3 DEF CallReturns

LEMMA CallsStep ==
  ASSUME CallsInv, [Next]_vars
  PROVE  CallsInv'
<1>1. Shape'
  BY NextIsStep, StepKeepsShape DEF CallsInv
<1>2. CASE ApplicationStep
  <2>1. CASE Open
    BY <1>1, <2>1, OpenAside, AsideKeeps DEF CallsInv
  <2>2. CASE \E x \in Setting : Set(x)
    BY <1>1, <2>2, SetKeeps DEF CallsInv
  <2>3. CASE \E c \in Caller : \E fn, args : Start(c, fn, args)
    BY <1>1, <2>3, StartKeeps DEF CallsInv
  <2>4. CASE \E c \in Caller : (\E p : Send(c, p)) \/ Export(c)
    <3>1. Aside
      BY <2>4, CallStepAside
    <3> QED
      BY <1>1, <3>1, AsideKeeps DEF CallsInv
  <2>5. CASE UNCHANGED callVars /\ transport' = transport
    <3>1. Aside
      BY <2>5, UnchangedAside
    <3> QED
      BY <1>1, <3>1, AsideKeeps DEF CallsInv
  <2> QED
    BY <1>2, <2>1, <2>2, <2>3, <2>4, <2>5 DEF ApplicationStep, Ask
<1>3. ASSUME NEW c \in Caller, CallStep(c)
      PROVE  CallsInv'
  <2>1. CASE AddressKnown(c)
    BY <1>1, <2>1, AddressKnownKeeps DEF CallsInv
  <2>2. CASE CallReturns(c)
    BY <1>1, <2>2, CallReturnsKeeps DEF CallsInv
  <2>3. CASE ~AddressKnown(c) /\ ~CallReturns(c)
    <3>1. Aside
      BY <1>3, <2>3, CallStepAside DEF CallStep
    <3> QED
      BY <1>1, <3>1, AsideKeeps DEF CallsInv
  <2> QED
    BY <2>1, <2>2, <2>3
<1>4. CASE UNCHANGED callVars /\ transport' = transport
  <2>1. Aside
    BY <1>4, UnchangedAside
  <2> QED
    BY <1>1, <2>1, AsideKeeps DEF CallsInv
<1>5. ASSUME NEW s \in Slot, RpcStep(s)
      PROVE  UNCHANGED callVars /\ transport' = transport
  BY <1>5 DEF RpcStep, Dispatch, Lost, Headers, Fails, Expire, Arrives
<1>6. CASE Tick /\ UNCHANGED callVars
  BY <1>4, <1>6 DEF Tick
<1>7. CASE UNCHANGED vars
  BY <1>4, <1>7 DEF vars, rpcVars
<1> QED
  BY <1>2, <1>3, <1>4, <1>5, <1>6, <1>7 DEF Next

LEMMA CallsInit == Init => CallsInv
<1> SUFFICES ASSUME Init PROVE CallsInv
  OBVIOUS
<1>1. settings = [x \in Setting |-> settings[x]]
  BY DEF Init, NoSettings
<1>2. /\ DOMAIN contract = {"open", "waiting", "known", "gas"}
      /\ contract.waiting = <<>>
  BY DEF Init
<1> QED
  BY <1>1, <1>2, AtFirst, InitShape DEF CallsInv, Queue, InLine, Undisturbed

\* A call that nothing disturbs is simulated with what was set when it was made, and its
\* result names that sender, however many calls there are.  (Contract.callFunction())
THEOREM UndisturbedCallKept == Spec => []UndisturbedCall
<1>1. CallsInv => UndisturbedCall
  BY DEF CallsInv, Undisturbed, UndisturbedCall, Simulating
<1> QED
  BY <1>1, CallsInit, CallsStep, PTL DEF Spec

(***************************************************************************)
(* Estimates: what a result asks for pays for its gas, whatever gas costs  *)
(* and in whatever parts of a sat its price is given                       *)
(* (Contract.estimateGas()).                                               *)
(*                                                                         *)
(* Half of it is arithmetic.  The other half is that a result never meets  *)
(* a price that nobody asked for: every answer that is handed out, also of *)
(* the caches and of the promise a contract keeps, is of a time there was. *)
(***************************************************************************)

-----------------------------------------------------------------------------
(* Arithmetic                                                              *)

LEMMA QuotientBelow ==
  ASSUME NEW v \in Nat, NEW s \in Nat \ {0}
  PROVE  v \div s \in Nat /\ v <= (v \div s + 1) * s
<1>1. v \div s \in Nat /\ v % s \in 0..s-1 /\ v = s * (v \div s) + (v % s)
  OBVIOUS
<1>2. (v \div s + 1) * s = s * (v \div s) + s
  BY <1>1
<1> QED
  BY <1>1, <1>2

LEMMA ProductGrows ==
  ASSUME NEW a \in Nat, NEW b \in Nat, NEW s \in Nat, a >= b
  PROVE  a * s >= b * s
<1>1. a * s = b * s + (a - b) * s
  OBVIOUS
<1>2. (a - b) * s >= 0
  OBVIOUS
<1> QED
  BY <1>1, <1>2

\* An estimate covers its gas: where the divisions lose a sat, the 297 make up for it or the
\* 15% do.
LEMMA EstimateEnough ==
  ASSUME NEW gas \in Nat, NEW price \in Nat
  PROVE  Estimate(gas, price) * Scale >= gas * price
<1> DEFINE v == gas * price
           q == v \div Scale
           e == Most((q * 100) \div 85, 297)
<1>1. v \in Nat
  OBVIOUS
<1>2. q \in Nat /\ v <= (q + 1) * Scale
  BY <1>1, ScaleAssumption, QuotientBelow
<1> HIDE DEF q
<1>3. e \in Nat /\ e >= q + 1
  BY <1>2 DEF Most
<1>4. Estimate(gas, price) = e
  BY DEF Estimate, q
<1> HIDE DEF e, v
<1>5. e * Scale >= (q + 1) * Scale
  BY <1>2, <1>3, ScaleAssumption, ProductGrows
<1>6. e * Scale >= v
  BY <1>1, <1>2, <1>3, <1>5, ScaleAssumption
<1> QED
  BY <1>4, <1>6 DEF v

-----------------------------------------------------------------------------
(* Answers are of a time there was                                         *)

Time == 0..MaxTime

ReqKey == {"stage", "api", "seen", "since", "done", "heard", "value", "end"}

Timed(rs) ==
  /\ DOMAIN rs = Slot
  /\ \A s \in Slot : DOMAIN rs[s] = ReqKey /\ rs[s].since \in Time /\ rs[s].value \in Time

TimedCache == [
  gas : [cached : BOOLEAN, asked : Time, arrived : Time, last : Time],
  challenge : [cached : BOOLEAN, asked : Time, arrived : Time, expireAt : Nat],
  chain : BOOLEAN]

RpcTimed == now \in Time /\ Timed(req) /\ cache \in TimedCache

LEMMA SlotsThere ==
  /\ Lookup \in Slot
  /\ \A i \in 1..MaxAsks : AskSlot(i) \in Slot
  /\ \A c \in Caller : CallSlot(c) \in Slot /\ GasSlot(c) \in Slot
  BY SlotAssumption

LEMMA ServedTimed ==
  ASSUME RpcTimed, NEW api
  PROVE  ServedValue(api) \in Time
<1>1. cache.gas.asked \in Time /\ cache.challenge.arrived \in Time /\ 0 \in Time
  BY TimeAssumption DEF RpcTimed, TimedCache, Time
<1> QED
  BY <1>1 DEF ServedValue

LEMMA AskedTimed ==
  ASSUME RpcTimed, NEW rs, Timed(rs), NEW s \in Slot, NEW api
  PROVE  Timed(Asked(rs, s, api))
<1> DEFINE seen == Carried(api, transport)
           params == Method[api].params
           value == ServedValue(api)
           stage == IF transport \in Pooled THEN "queued" ELSE "asked"
           asked == [Unused EXCEPT !.api = api, !.since = now, !.seen = seen, !.stage = stage]
           served == [Unused EXCEPT !.api = api, !.since = now, !.done = now,
                                    !.stage = "settled", !.seen = params, !.end = "value",
                                    !.heard = "cached", !.value = value]
<1>1. value \in Time /\ now \in Time /\ 0 \in Time
  BY ServedTimed, TimeAssumption DEF RpcTimed, Time
<1> HIDE DEF seen, params, value, stage
<1>2. /\ DOMAIN asked = ReqKey /\ asked.since \in Time /\ asked.value \in Time
      /\ DOMAIN served = ReqKey /\ served.since \in Time /\ served.value \in Time
  BY <1>1 DEF Unused, ReqKey
<1>3. Asked(rs, s, api) = [rs EXCEPT ![s] = IF Served(api) THEN served ELSE asked]
  BY DEF Asked, seen, params, value, stage
<1> HIDE DEF asked, served
<1> QED
  BY <1>2, <1>3 DEF Timed

LEMMA AnsweredTimed ==
  ASSUME RpcTimed, NEW s \in Slot
  PROVE  Timed(Answered(s))
<1>1. DOMAIN Unused = ReqKey /\ Unused.since \in Time /\ Unused.value \in Time
  BY TimeAssumption DEF Unused, ReqKey, Time
<1> QED
  BY <1>1 DEF RpcTimed, Timed, Answered

LEMMA SettleTimed ==
  ASSUME RpcTimed, NEW s \in Slot, NEW end, NEW heard, NEW value \in Time
  PROVE  Timed(Settle(s, end, heard, value))
  BY DEF RpcTimed, Timed, Settle, ReqKey

LEMMA NotedTimed ==
  ASSUME RpcTimed, NEW api
  PROVE  NotedInCache(api) \in TimedCache
<1> DEFINE noted == NotedFetchTime(cache.gas, api)
<1>1. noted \in [cached : BOOLEAN, asked : Time, arrived : Time, last : Time]
  BY DEF RpcTimed, TimedCache, NotedFetchTime
<1>2. NotedInCache(api) = [cache EXCEPT !.gas = noted]
  BY DEF NotedInCache
<1> HIDE DEF noted
<1> QED
  BY <1>1, <1>2 DEF RpcTimed, TimedCache

LEMMA CachedTimed ==
  ASSUME RpcTimed, NEW s \in Slot
  PROVE  CachedAnswer(s) \in TimedCache
<1>1. req[s].since \in Time /\ now \in Time /\ now + Fresh \in Nat
  BY TimeAssumption DEF RpcTimed, Timed, Time
<1>2. [cache EXCEPT !.gas.cached = TRUE, !.gas.asked = req[s].since, !.gas.arrived = now]
        \in TimedCache
  BY <1>1 DEF RpcTimed, TimedCache
<1>3. [cache EXCEPT !.challenge = [cached |-> TRUE, asked |-> req[s].since, arrived |-> now,
                                   expireAt |-> now + Fresh]] \in TimedCache
  BY <1>1 DEF RpcTimed, TimedCache
<1>4. [cache EXCEPT !.chain = TRUE] \in TimedCache
  BY DEF RpcTimed, TimedCache
<1> QED
  BY <1>2, <1>3, <1>4 DEF CachedAnswer, RpcTimed

\* What a provider does by itself keeps that.
LEMMA RpcStepTimed ==
  ASSUME RpcTimed, NEW s \in Slot, RpcStep(s)
  PROVE  RpcTimed'
<1>1. CASE Dispatch(s) \/ Lost(s) \/ Headers(s)
  <2>1. PICK stage : req' = [req EXCEPT ![s].stage = stage] /\ now' = now /\ cache' = cache
    BY <1>1 DEF Dispatch, Lost, Headers
  <2>2. Timed(req')
    BY <2>1 DEF RpcTimed, Timed, ReqKey
  <2> QED
    BY <2>1, <2>2 DEF RpcTimed
<1>2. CASE Fails(s) \/ Expire(s)
  <2>0. 0 \in Time
    BY TimeAssumption DEF Time
  <2>1. Timed(Settle(s, Failure(req[s].api), "", 0))
    BY <2>0, SettleTimed
  <2> QED
    BY <1>2, <2>1 DEF Fails, Expire, RpcTimed
<1>3. ASSUME NEW answer, Arrives(s, answer)
      PROVE  RpcTimed'
  <2>1. PICK end : /\ req' = Settle(s, end, answer, req[s].since)
                   /\ cache' = IF end = "value" THEN CachedAnswer(s) ELSE cache
                   /\ now' = now
    BY <1>3 DEF Arrives
  <2>2. req[s].since \in Time
    BY DEF RpcTimed, Timed
  <2>3. Timed(req')
    BY <2>1, <2>2, SettleTimed
  <2>4. cache' \in TimedCache
    BY <2>1, CachedTimed DEF RpcTimed
  <2> QED
    BY <2>1, <2>3, <2>4 DEF RpcTimed
<1> QED
  BY <1>1, <1>2, <1>3 DEF RpcStep

LEMMA TickTimed ==
  ASSUME RpcTimed, Tick
  PROVE  RpcTimed'
  BY TimeAssumption DEF RpcTimed, Tick, Time

LEMMA AskTimed ==
  ASSUME RpcTimed, NEW s \in Slot, NEW api, Ask(s, api)
  PROVE  RpcTimed'
<1>1. Timed(req') /\ cache' \in TimedCache /\ now' = now
  BY AskedTimed, NotedTimed DEF Ask, RpcTimed
<1> QED
  BY <1>1 DEF RpcTimed

-----------------------------------------------------------------------------
(* Calls that wait for the price of gas, and results that know it          *)

\* A promise a contract keeps was made by one of its calls.
ContractKeeps ==
  /\ DOMAIN contract = {"open", "waiting", "known", "gas"}
  /\ contract.gas.made => contract.gas.by \in Caller

SimKey == {"to", "address", "calldata", "from", "csv", "revert", "constant", "payable", "satGas",
           "satRefunded", "gas", "refunded", "fees", "network", "result", "values",
           "accessList"}

\* A call that waits for the price does so of a promise of gas parameters, with a simulation.
AwaitsGas(r) ==
  /\ r.promise \in Caller
  /\ DOMAIN r.sim = SimKey /\ Zero(r.sim.gas) \in Nat

Covered(r) ==
  r.sim.satGas * Scale >= Zero(r.sim.gas) * GasPerSat[r.gasAt]

\* What makes EstimateCovers inductive.
Estimating ==
  /\ use \in Uses
  /\ ContractKeeps
  /\ \A c \in Caller :
       /\ call[c].stage = "gas" => AwaitsGas(call[c])
       /\ call[c].stage = "ready" => Covered(call[c])

GasInv == Shape /\ RpcTimed /\ Estimating

\* The calls but for those that come to wait for the price, or to know it.
Quiet ==
  /\ use' = use /\ ContractKeeps'
  /\ \A c \in Caller : call'[c].stage \notin {"gas", "ready"} \/ call'[c] = call[c]

LEMMA QuietKeeps ==
  ASSUME Estimating, Quiet
  PROVE  Estimating'
  BY DEF Estimating, Quiet, Covered, AwaitsGas, Zero

LEMMA GoesQuiet ==
  ASSUME NEW c \in Caller, NEW s, NEW T, Goes(c, s, T), T \cap {"gas", "ready"} = {},
         use' = use, ContractKeeps'
  PROVE  Quiet
  BY DEF Goes, Others, Quiet

\* The steps of a call that neither come to wait for the price nor to know it.
LEMMA CallStepQuiet ==
  ASSUME GasInv, NEW c \in Caller,
         \/ AddressKnown(c) \/ CoinsKnown(c) \/ MoreCoinsKnown(c) \/ ChallengeKnown(c)
         \/ Sign(c) \/ BroadcastReturns(c)
  PROVE  RpcTimed' /\ Quiet
<1> USE SlotsThere DEF GasInv
<1>1. CASE AddressKnown(c)
  <2>1. TakesSettings(c)
    BY <1>1, AddressKnownGoes
  <2>2. PICK known : contract' = [contract EXCEPT !.waiting = Tail(@), !.known = known]
    BY <1>1 DEF AddressKnown
  <2>3. ContractKeeps'
    BY <2>2 DEF Estimating, ContractKeeps
  <2>4. req' = req \/ req' = Asked(req, CallSlot(c), "call")
    BY <1>1 DEF AddressKnown, CallNode
  <2>5. now' = now /\ cache' = cache /\ use' = use
    BY <1>1 DEF AddressKnown
  <2>6. Timed(req')
    BY <2>4, AskedTimed DEF RpcTimed
  <2> QED
    BY <2>1, <2>3, <2>5, <2>6 DEF TakesSettings, Others, Quiet, RpcTimed
<1>2. ASSUME CoinsKnown(c) \/ MoreCoinsKnown(c) \/ ChallengeKnown(c)
               \/ Sign(c) \/ BroadcastReturns(c)
      PROVE  RpcTimed' /\ Quiet
  <2>1. now' = now /\ cache' = cache /\ use' = use /\ contract' = contract
    BY <1>2 DEF CoinsKnown, MoreCoinsKnown, ChallengeKnown, Sign, BroadcastReturns
  <2>2. ContractKeeps'
    BY <2>1 DEF Estimating, ContractKeeps
  <2>3. \/ req' = req \/ req' = Answered(CallSlot(c))
        \/ \E api : req' = Asked(req, CallSlot(c), api)
    BY <1>2 DEF CoinsKnown, MoreCoinsKnown, AskChallenge, ChallengeKnown, Sign,
                BroadcastReturns
  <2>4. Timed(req')
    BY <2>3, AskedTimed, AnsweredTimed DEF RpcTimed
  <2>5. Quiet
    BY <1>2, <2>1, <2>2, CoinsKnownGoes, MoreCoinsKnownGoes, ChallengeKnownGoes, SignGoes,
       BroadcastReturnsGoes DEF Goes, Others, Quiet
  <2> QED
    BY <2>1, <2>4, <2>5 DEF RpcTimed
<1> QED
  BY <1>1, <1>2

LEMMA SetQuiet ==
  ASSUME GasInv, NEW x \in Setting, Set(x)
  PROVE  RpcTimed' /\ Quiet
<1>1. /\ call' = Disturbed
      /\ now' = now /\ cache' = cache /\ req' = req /\ use' = use /\ contract' = contract
  BY DEF Set, rpcVars
<1>2. ASSUME NEW c \in Caller
      PROVE  call'[c].stage \notin {"gas", "ready"} \/ call'[c] = call[c]
  BY <1>1, SetGoes DEF Disturbed, GasInv
<1> QED
  BY <1>1, <1>2 DEF Quiet, GasInv, Estimating, ContractKeeps, RpcTimed

LEMMA StartQuiet ==
  ASSUME GasInv, NEW c \in Caller, NEW fn, NEW args, Start(c, fn, args)
  PROVE  RpcTimed' /\ Quiet
<1>1. /\ contract' = [contract EXCEPT !.waiting = Append(@, c)]
      /\ now' = now /\ cache' = cache /\ use' = use
      /\ req' = req \/ req' = Asked(req, Lookup, LookupMethod)
  BY DEF Start
<1>2. ContractKeeps'
  BY <1>1 DEF GasInv, Estimating, ContractKeeps
<1>3. Timed(req')
  BY <1>1, AskedTimed, SlotsThere DEF GasInv, RpcTimed
<1>4. Others(c) /\ call'[c].stage = "address"
  BY StartGoes DEF GasInv
<1> QED
  BY <1>1, <1>2, <1>3, <1>4 DEF Others, Quiet, GasInv, RpcTimed

LEMMA UnchangedQuiet ==
  ASSUME GasInv, UNCHANGED callVars
  PROVE  Quiet
  BY DEF callVars, Quiet, GasInv, Estimating, ContractKeeps

LEMMA ApplicationStepQuiet ==
  ASSUME GasInv, ApplicationStep
  PROVE  RpcTimed' /\ Quiet
<1>1. CASE Open
  <2>1. /\ \E yes : contract' = [contract EXCEPT !.open = yes]
        /\ now' = now /\ cache' = cache /\ req' = req /\ use' = use /\ call' = call
    BY <1>1 DEF Open, rpcVars
  <2> QED
    BY <2>1 DEF GasInv, RpcTimed, Estimating, ContractKeeps, Quiet
<1>2. CASE \E x \in Setting : Set(x)
  BY <1>2, SetQuiet
<1>3. CASE \E c \in Caller : \E fn, args : Start(c, fn, args)
  BY <1>3, StartQuiet
<1>4. ASSUME NEW c \in Caller, (\E p : Send(c, p)) \/ Export(c)
      PROVE  RpcTimed' /\ Quiet
  <2>1. Goes(c, "ready", {"failed", "coins"})
    BY <1>4, SendGoes, ExportGoes DEF GasInv
  <2>2. /\ now' = now /\ cache' = cache /\ req' = req /\ use' = use /\ contract' = contract
    BY <1>4 DEF Send, Export, rpcVars
  <2>3. ContractKeeps'
    BY <2>2 DEF GasInv, Estimating, ContractKeeps
  <2> QED
    BY <2>1, <2>2, <2>3 DEF Goes, Others, Quiet, GasInv, RpcTimed
<1>5. ASSUME NEW i \in 1..MaxAsks, NEW api, Ask(AskSlot(i), api), UNCHANGED callVars
      PROVE  RpcTimed' /\ Quiet
  BY <1>5, AskTimed, SlotsThere, UnchangedQuiet DEF GasInv
<1> QED
  BY <1>1, <1>2, <1>3, <1>4, <1>5 DEF ApplicationStep

LEMMA CallReturnsEstimating ==
  ASSUME GasInv, NEW c \in Caller, CallReturns(c)
  PROVE  RpcTimed' /\ Estimating'
<1>1. call[c].stage = "calling" /\ now' = now /\ use' = use
  BY DEF CallReturns
<1>2. CASE /\ call' = Failed(c) /\ req' = Answered(CallSlot(c))
           /\ UNCHANGED <<contract, cache>>
  <2>1. Quiet
    BY <1>1, <1>2, FailedGoes DEF GasInv, Quiet, Estimating, ContractKeeps
  <2>2. Timed(req')
    BY <1>2, AnsweredTimed, SlotsThere DEF GasInv
  <2> QED
    BY <1>1, <1>2, <2>1, <2>2, QuietKeeps DEF GasInv, RpcTimed
<1>3. ASSUME NEW output, NEW values, NEW gas \in use.gas, NEW events,
             AwaitGas(c, Answered(CallSlot(c)),
               [call[c] EXCEPT !.args = <<>>, !.events = events,
                               !.sim = Simulated(c, output, values, gas, gas \div 2)])
      PROVE  RpcTimed' /\ Estimating'
  <2> DEFINE rs == Answered(CallSlot(c))
             sim == Simulated(c, output, values, gas, gas \div 2)
             r == [call[c] EXCEPT !.args = <<>>, !.events = events, !.sim = sim]
  <2>1. gas \in Nat
    BY UsesAssumption DEF GasInv, Estimating
  <2>2. DOMAIN sim = SimKey /\ Zero(sim.gas) = gas
    BY DEF Simulated, SimKey, Zero
  <2> HIDE DEF sim
  <2>3. DOMAIN r = Key /\ r.sim = sim
    BY DEF GasInv, Shape, Key
  <2>4. Timed(rs)
    BY AnsweredTimed, SlotsThere DEF GasInv
  <2>5. AwaitGas(c, rs, r)
    BY <1>3 DEF sim
  <2> HIDE DEF rs, r
  <2>6. CASE /\ PromiseKept /\ req' = rs /\ UNCHANGED <<contract, cache>>
             /\ call' = [call EXCEPT ![c] = [r EXCEPT !.stage = "gas", !.wantedAt = now,
                                                     !.promise = contract.gas.by]]
    <3>1. contract.gas.by \in Caller
      BY <2>6 DEF PromiseKept, GasInv, Estimating, ContractKeeps
    <3>2. AwaitsGas(call'[c]) /\ call'[c].stage = "gas" /\ Others(c)
      BY <2>1, <2>2, <2>3, <2>6, <3>1 DEF AwaitsGas, GasInv, Shape, Key, Others
    <3>3. ContractKeeps' /\ use' \in Uses
      BY <1>1, <2>6 DEF GasInv, Estimating, ContractKeeps
    <3> QED
      BY <1>1, <2>4, <2>6, <3>2, <3>3 DEF GasInv, RpcTimed, Estimating, Others, AwaitsGas, Covered
  <2>7. CASE /\ req' = Asked(rs, GasSlot(c), "gasParameters")
             /\ cache' = NotedInCache("gasParameters")
             /\ contract' = [contract EXCEPT
                               !.gas = [made |-> TRUE, cachedAt |-> now, by |-> c]]
             /\ call' = [call EXCEPT ![c] = [r EXCEPT !.stage = "gas", !.wantedAt = now,
                                                     !.promise = c]]
    <3>1. AwaitsGas(call'[c]) /\ call'[c].stage = "gas" /\ Others(c)
      BY <2>1, <2>2, <2>3, <2>7 DEF AwaitsGas, GasInv, Shape, Key, Others
    <3>2. ContractKeeps' /\ use' \in Uses
      BY <1>1, <2>7 DEF GasInv, Estimating, ContractKeeps
    <3>3. Timed(req') /\ cache' \in TimedCache
      BY <2>4, <2>7, AskedTimed, NotedTimed, SlotsThere DEF GasInv
    <3> QED
      BY <1>1, <3>1, <3>2, <3>3 DEF GasInv, RpcTimed, Estimating, Others, AwaitsGas, Covered
  <2> QED
    BY <2>5, <2>6, <2>7 DEF AwaitGas
<1> QED
  BY <1>2, <1>3 DEF CallReturns

\* A result is estimated with a price there was.
LEMMA GasKnownEstimating ==
  ASSUME GasInv, NEW c \in Caller, GasKnown(c)
  PROVE  RpcTimed' /\ Estimating'
<1>1. /\ call[c].stage = "gas" /\ use' = use /\ contract' = contract
      /\ now' = now /\ cache' = cache /\ req' = req
  BY DEF GasKnown, rpcVars
<1>2. ContractKeeps' /\ RpcTimed'
  BY <1>1 DEF GasInv, Estimating, ContractKeeps, RpcTimed
<1>3. AwaitsGas(call[c])
  BY <1>1 DEF GasInv, Estimating
<1>4. CASE call' = Failed(c)
  <2>1. Quiet
    BY <1>1, <1>2, <1>4, FailedGoes DEF GasInv, Quiet
  <2> QED
    BY <1>2, <2>1, QuietKeeps DEF GasInv
<1> DEFINE params == req[GasSlot(call[c].promise)]
           asked == params.value
           price == GasPerSat[asked]
           decoded == DecodeEvents(use.abi, call[c].events)
           satGas == Estimate(Zero(call[c].sim.gas), price)
           satRefunded == Estimate(Zero(call[c].sim.refunded), price)
<1>5. CASE call' = [call EXCEPT
                ![c].stage = "ready", ![c].gasAt = asked,
                ![c].events = decoded, ![c].sim.fees = <<Fees>>,
                ![c].sim.satGas = satGas, ![c].sim.satRefunded = satRefunded]
  <2>1. asked \in Time
    BY <1>3, SlotsThere DEF AwaitsGas, GasInv, RpcTimed, Timed
  <2>2. price \in Nat
    BY <2>1, PriceAssumption DEF Time
  <2>3. satGas * Scale >= Zero(call[c].sim.gas) * price
    BY <1>3, <2>2, EstimateEnough DEF AwaitsGas
  <2>4. price = GasPerSat[asked]
    OBVIOUS
  <2> HIDE DEF asked, price, decoded, satGas, satRefunded
  <2>5. /\ call'[c].stage = "ready" /\ call'[c].gasAt = asked
        /\ call'[c].sim.satGas = satGas /\ call'[c].sim.gas = call[c].sim.gas
        /\ Others(c)
    BY <1>3, <1>5 DEF GasInv, Shape, Key, AwaitsGas, SimKey, Others
  <2>6. Covered(call'[c])
    BY <2>3, <2>4, <2>5 DEF Covered, Zero
  <2> QED
    BY <1>1, <1>2, <2>5, <2>6 DEF GasInv, Estimating, Others, AwaitsGas, Covered
<1> QED
  BY <1>4, <1>5 DEF GasKnown

LEMMA GasStep ==
  ASSUME GasInv, [Next]_vars
  PROVE  GasInv'
<1>1. Shape'
  BY NextIsStep, StepKeepsShape DEF GasInv
<1>2. CASE ApplicationStep
  BY <1>1, <1>2, ApplicationStepQuiet, QuietKeeps DEF GasInv
<1>3. ASSUME NEW c \in Caller, CallStep(c)
      PROVE  RpcTimed' /\ Estimating'
  <2>1. CASE CallReturns(c)
    BY <2>1, CallReturnsEstimating
  <2>2. CASE GasKnown(c)
    BY <2>2, GasKnownEstimating
  <2> QED
    BY <1>3, <2>1, <2>2, CallStepQuiet, QuietKeeps DEF CallStep, GasInv
<1>4. ASSUME NEW s \in Slot, RpcStep(s)
      PROVE  RpcTimed' /\ Estimating'
  BY <1>4, RpcStepTimed, UnchangedQuiet, QuietKeeps DEF RpcStep, GasInv
<1>5. CASE Tick /\ UNCHANGED callVars
  <2>1. RpcTimed'
    BY <1>5, TickTimed DEF GasInv
  <2>2. Quiet
    BY <1>5, UnchangedQuiet
  <2> QED
    BY <1>1, <2>1, <2>2, QuietKeeps DEF GasInv
<1>6. CASE UNCHANGED vars
  <2>1. UNCHANGED callVars /\ now' = now /\ cache' = cache /\ req' = req
    BY <1>6 DEF vars, rpcVars
  <2>2. RpcTimed'
    BY <2>1 DEF GasInv, RpcTimed
  <2>3. Quiet
    BY <2>1, UnchangedQuiet
  <2> QED
    BY <1>1, <2>2, <2>3, QuietKeeps DEF GasInv
<1> QED
  BY <1>1, <1>2, <1>3, <1>4, <1>5, <1>6 DEF Next, GasInv

LEMMA GasInit == Init => GasInv
<1> SUFFICES ASSUME Init PROVE GasInv
  OBVIOUS
<1>1. 0 \in Time
  BY TimeAssumption DEF Time
<1>2. RpcTimed
  BY <1>1 DEF Init, RpcInit, RpcTimed, Timed, TimedCache, EmptyCache, Unused, ReqKey
<1>3. Estimating
  BY AtFirst DEF Init, Estimating, ContractKeeps, NoPromise
<1> QED
  BY <1>2, <1>3, InitShape DEF GasInv

\* The sat a result asks for are worth the gas its simulation needed, whatever the price is
\* and whichever cache it is from.  (Contract.estimateGas())
THEOREM GasIsCovered == Spec => []EstimateCovers
<1>1. GasInv => EstimateCovers
  BY DEF GasInv, Estimating, EstimateCovers, Covered
<1> QED
  BY <1>1, GasInit, GasStep, PTL DEF Spec

=============================================================================
