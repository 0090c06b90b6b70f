------------------------------ MODULE LabProofs ------------------------------
(***************************************************************************)
(* What is proved of the user's side of plc-cape-lab: first the references *)
(* between its objects (LabObjects), for any plug-ins and definitions of   *)
(* their settings, any document of profiles, any command line and any      *)
(* order of dialogs, profiles and communications; then the screen that its *)
(* threads share (TerminalUi), for any depth of panels.                    *)
(***************************************************************************)
EXTENDS LabObjects, TerminalUi, SequenceTheorems, TLAPS

(***************************************************************************)
(*                                LabObjects                               *)
(***************************************************************************)

Fates == {"null", "live", "freed"}
IsPair(f) == f = [side \in Sides |-> f[side]]

TypeInv ==
  /\ ref \in [Refs -> Fates]
  /\ IsPair(sel) /\ IsPair(plugin) /\ IsPair(swapped)
  /\ app \in {"off", "up", "crashed", "exited"}

(* Nothing exists before the start. *)
NothingYet == app = "off" => \A r \in Refs : ref[r] = "null"

IInv == TypeInv /\ NothingYet /\ OnlyKnownDangling /\ ObjectsMatchSettings
-----------------------------------------------------------------------------
(* What the helpers on references do to each of them. *)
Kinds == {"encoder", "decoder", "plc_tx", "plc_adc", "rx", "analysis"}

LEMMA RefsAre ==
  /\ Refs = {"ctl_enc", "tx_enc", "ctl_dec", "rx_dec", "ctl_tx", "mon_tx", "ctl_adc", "rx_adc",
             "mon_adc", "ctl_rx", "rx_ana", "mon_ana"}
  /\ \A r \in Refs : Target[r] = "encoder" <=> r \in {"ctl_enc", "tx_enc"}
  /\ \A r \in Refs : Target[r] = "decoder" <=> r \in {"ctl_dec", "rx_dec"}
  /\ Own["enc"] = "ctl_enc" /\ Own["dec"] = "ctl_dec"
  /\ Copy["enc"] = "tx_enc" /\ Copy["dec"] = "rx_dec"
  /\ Sides = {"enc", "dec"}
BY DEF Refs, Target, Own, Copy, Sides

(* controller_terminate: all but the analysis of the monitor is forgotten, *)
(* and the plug-ins too when they are released.                            *)
LEMMA TerminatedAll ==
  ASSUME NEW rf \in [Refs -> Fates]
  PROVE  /\ Terminated(rf, TRUE) \in [Refs -> Fates]
         /\ \A r \in Refs \ {"mon_ana"} : Terminated(rf, TRUE)[r] = "null"
         /\ Terminated(rf, TRUE)["mon_ana"] # "live"
BY RefsAre DEF Terminated, Free, Set, Target, Fates

LEMMA TerminatedKeepingPlugins ==
  ASSUME NEW rf \in [Refs -> Fates]
  PROVE  /\ Terminated(rf, FALSE) \in [Refs -> Fates]
         /\ \A r \in Refs \ {"ctl_enc", "ctl_dec", "mon_ana"} : Terminated(rf, FALSE)[r] = "null"
         /\ \A side \in Sides : Terminated(rf, FALSE)[Own[side]] = rf[Own[side]]
         /\ Terminated(rf, FALSE)["mon_ana"] # "live"
BY RefsAre DEF Terminated, Free, Set, Target, Fates

(* The creation of a plug-in in place of the one there was. *)
LEMMA ReloadedRefs ==
  ASSUME NEW rf \in [Refs -> Fates], NEW side \in Sides
  PROVE  LET after == Reloaded(rf, side) IN
         /\ after \in [Refs -> Fates]
         /\ after[Own[side]] = "live"
         /\ after[Copy[side]] = IF rf[Copy[side]] = "live" THEN "freed" ELSE rf[Copy[side]]
         /\ \A r \in Refs \ {Own[side], Copy[side]} : after[r] = rf[r]
<1>1. CASE side = "enc"  BY <1>1, RefsAre DEF Reloaded, Free, Set, Fates
<1>2. CASE side = "dec"  BY <1>2, RefsAre DEF Reloaded, Free, Set, Fates
<1> QED  BY <1>1, <1>2, RefsAre

LEMMA PluginsMadeRefs ==
  ASSUME NEW rf \in [Refs -> Fates], NEW on \in SUBSET Sides,
         \A r \in {"tx_enc", "rx_dec"} : rf[r] = "null"
  PROVE  LET after == PluginsMade(rf, on) IN
         /\ after \in [Refs -> Fates]
         /\ \A side \in on : after[Own[side]] = "live"
         /\ \A side \in Sides \ on : after[Own[side]] = rf[Own[side]]
         /\ \A r \in Refs \ {"ctl_enc", "ctl_dec"} : after[r] = rf[r]
<1> DEFINE withEncoder == IF "enc" \in on THEN Reloaded(rf, "enc") ELSE rf
<1>1. /\ withEncoder \in [Refs -> Fates]
      /\ "enc" \in on => withEncoder["ctl_enc"] = "live"
      /\ "enc" \notin on => withEncoder["ctl_enc"] = rf["ctl_enc"]
      /\ \A r \in Refs \ {"ctl_enc"} : withEncoder[r] = rf[r]
  <2>1. CASE "enc" \in on  BY <2>1, RefsAre, ReloadedRefs
  <2>2. CASE "enc" \notin on  BY <2>2, RefsAre
  <2> QED  BY <2>1, <2>2
<1> HIDE DEF withEncoder
<1> DEFINE after == IF "dec" \in on THEN Reloaded(withEncoder, "dec") ELSE withEncoder
<1>2. /\ after \in [Refs -> Fates]
      /\ "dec" \in on => after["ctl_dec"] = "live"
      /\ "dec" \notin on => after["ctl_dec"] = withEncoder["ctl_dec"]
      /\ \A r \in Refs \ {"ctl_dec"} : after[r] = withEncoder[r]
  <2>1. CASE "dec" \in on  BY <2>1, <1>1, RefsAre, ReloadedRefs
  <2>2. CASE "dec" \notin on  BY <2>2, <1>1, RefsAre
  <2> QED  BY <2>1, <2>2
<1>3. after = PluginsMade(rf, on)  BY DEF PluginsMade, withEncoder
<1> HIDE DEF after
<1>4. /\ \A side \in on : after[Own[side]] = "live"
      /\ \A side \in Sides \ on : after[Own[side]] = rf[Own[side]]
  BY <1>1, <1>2, RefsAre
<1>5. \A r \in Refs \ {"ctl_enc", "ctl_dec"} : after[r] = rf[r]
  BY <1>1, <1>2, RefsAre
<1> QED  BY <1>2, <1>3, <1>4, <1>5

(* plc_tx_create and the capture's objects with rx_create. *)
LEMMA CreatedRefs ==
  ASSUME NEW rf \in [Refs -> Fates]
  PROVE  /\ Transmitting(rf) \in [Refs -> Fates]
         /\ Transmitting(rf)["tx_enc"] = rf["ctl_enc"]
         /\ \A r \in {"ctl_tx", "mon_tx"} : Transmitting(rf)[r] = "live"
         /\ \A r \in Refs \ {"ctl_tx", "mon_tx", "tx_enc"} : Transmitting(rf)[r] = rf[r]
         /\ Receiving(rf) \in [Refs -> Fates]
         /\ Receiving(rf)["rx_dec"] = rf["ctl_dec"]
         /\ \A r \in {"ctl_adc", "mon_adc", "rx_adc", "ctl_rx", "rx_ana", "mon_ana"} :
              Receiving(rf)[r] = "live"
         /\ \A r \in {"ctl_enc", "tx_enc", "ctl_dec", "ctl_tx", "mon_tx"} :
              Receiving(rf)[r] = rf[r]
<1>1. rf["ctl_enc"] \in Fates /\ rf["ctl_dec"] \in Fates  BY RefsAre
<1> QED  BY <1>1, RefsAre DEF Transmitting, Receiving, Set, Fates

(***************************************************************************)
(* controller_initialize, on the references a termination left: what the   *)
(* modes ask for is created and nothing else, with the plug-ins selected.  *)
(***************************************************************************)
Left(rf) ==
  /\ rf \in [Refs -> Fates]
  /\ \A r \in Refs \ {"ctl_enc", "ctl_dec", "mon_ana"} : rf[r] = "null"
  /\ rf["mon_ana"] # "live"
  /\ \A side \in Sides : rf[Own[side]] # "freed"
NoPlugins(rf) == \A side \in Sides : rf[Own[side]] = "null"
PluginsAre(rf, s, pl) == \A side \in Sides : rf[Own[side]] = "live" => pl[side] = s[side]

Clean(rf) ==
  \A r \in Refs : rf[r] = "freed" => r = "mon_ana" /\ rf["ctl_rx"] = "null"

Matches(rf, m, s, pl) ==
  /\ m.tx <=> rf["ctl_tx"] = "live"
  /\ m.rx <=> rf["ctl_rx"] = "live" /\ rf["ctl_adc"] = "live"
  /\ \A side \in Sides :
       /\ NeedsSide(m, side) => rf[Own[side]] = "live"
       /\ rf[Own[side]] = "live" => pl[side] = s[side]

IsMode(m) == m.tx \in BOOLEAN /\ m.rx \in BOOLEAN

LEMMA Initialized ==
  ASSUME NEW rf, NEW m, NEW s, NEW reload \in BOOLEAN, NEW pushed, NEW cu, NEW pl,
         IsMode(m), IsPair(plugin), IsPair(pl),
         Left(rf), reload => NoPlugins(rf), ~ reload => PluginsAre(rf, s, pl),
         Initialize(rf, m, s, reload, pushed, cu, pl)
  PROVE  /\ ref' \in [Refs -> Fates] /\ Clean(ref') /\ IsPair(plugin')
         /\ app' \in {"up", "crashed", "exited"}
         /\ app' = "up" => Matches(ref', m, s, plugin')
<1> DEFINE on == {side \in Sides : NeedsSide(m, side)}
           made == IF reload THEN PluginsMade(rf, on) ELSE rf
           withTx == IF m.tx THEN Transmitting(made) ELSE made
           final == IF m.rx THEN Receiving(withTx) ELSE withTx
           gone(how) == app' = how /\ ref' = rf /\ UNCHANGED <<custom, plugin>>
           newPlugin == [side \in Sides |-> IF reload /\ side \in on THEN s[side] ELSE pl[side]]
<1>0. m.tx \in BOOLEAN /\ m.rx \in BOOLEAN  BY DEF IsMode
<1>1. \/ gone("exited") \/ gone("crashed")
      \/ /\ \A side \in on : made[Own[side]] # "null"
         /\ AfterUse(final, {"mon_ana"})
         /\ plugin' = newPlugin
         /\ ref' = final
  BY DEF Initialize
<1>2. Clean(rf)  BY RefsAre DEF Left, Clean, Fates
<1>3. CASE gone("exited") \/ gone("crashed")
  BY <1>2, <1>3 DEF Left, IsPair
<1>4. CASE /\ \A side \in on : made[Own[side]] # "null"
           /\ AfterUse(final, {"mon_ana"})
           /\ plugin' = newPlugin
           /\ ref' = final
  <2>1. /\ made \in [Refs -> Fates]
        /\ \A side \in on : made[Own[side]] = "live"
        /\ \A side \in Sides : made[Own[side]] # "freed"
        /\ \A side \in Sides \ on : made[Own[side]] = rf[Own[side]]
        /\ ~ reload => \A side \in Sides : made[Own[side]] = rf[Own[side]]
        /\ \A r \in Refs \ {"ctl_enc", "ctl_dec"} : made[r] = rf[r]
    <3>1. CASE reload
      <4>1. rf \in [Refs -> Fates] /\ \A r \in {"tx_enc", "rx_dec"} : rf[r] = "null"
        BY RefsAre DEF Left
      <4>2. on \in SUBSET Sides  OBVIOUS
      <4> HIDE DEF on
      <4>3. /\ made \in [Refs -> Fates]
            /\ \A side \in on : made[Own[side]] = "live"
            /\ \A side \in Sides \ on : made[Own[side]] = rf[Own[side]]
            /\ \A r \in Refs \ {"ctl_enc", "ctl_dec"} : made[r] = rf[r]
        BY <3>1, <4>1, <4>2, PluginsMadeRefs
      <4> QED  BY <3>1, <4>3, RefsAre DEF NoPlugins, Fates
    <3>2. CASE ~ reload  BY <1>4, <3>2, RefsAre DEF Left, Fates
    <3> QED  BY <3>1, <3>2
  <2> HIDE DEF made
  <2>2. /\ withTx \in [Refs -> Fates]
        /\ IF m.tx THEN withTx["ctl_tx"] = "live" /\ withTx["mon_tx"] = "live"
                          /\ withTx["tx_enc"] = made["ctl_enc"]
                   ELSE withTx["ctl_tx"] = made["ctl_tx"] /\ withTx["mon_tx"] = made["mon_tx"]
                          /\ withTx["tx_enc"] = made["tx_enc"]
        /\ \A r \in Refs \ {"ctl_tx", "mon_tx", "tx_enc"} : withTx[r] = made[r]
    BY <1>0, <2>1, CreatedRefs
  <2> HIDE DEF withTx
  <2>3. /\ final \in [Refs -> Fates]
        /\ m.rx => /\ final["rx_dec"] = withTx["ctl_dec"]
                   /\ \A r \in {"ctl_adc", "mon_adc", "rx_adc", "ctl_rx", "rx_ana", "mon_ana"} :
                        final[r] = "live"
                   /\ \A r \in {"ctl_enc", "tx_enc", "ctl_dec", "ctl_tx", "mon_tx"} :
                        final[r] = withTx[r]
        /\ ~ m.rx => final = withTx
    BY <1>0, <2>2, CreatedRefs
  <2> HIDE DEF final
  <2>4. /\ "enc" \in on <=> m.tx
        /\ "dec" \in on <=> m.rx
    BY <1>0, RefsAre DEF NeedsSide
  <2>5. \A side \in Sides : final[Own[side]] = made[Own[side]]
    BY <2>2, <2>3, RefsAre
  <2> HIDE DEF on
  <2>6. Clean(final)
    <3>1. \A r \in {"tx_enc", "rx_dec", "ctl_enc", "ctl_dec"} : final[r] # "freed"
      BY <1>0, <2>1, <2>2, <2>3, RefsAre DEF Left
    <3>2. \A r \in Refs \ {"tx_enc", "rx_dec", "ctl_enc", "ctl_dec", "mon_ana"} : final[r] # "freed"
      BY <1>0, <2>1, <2>2, <2>3, RefsAre DEF Left
    <3>3. final["ctl_rx"] = "null" \/ final["mon_ana"] = "live"
      BY <1>0, <2>1, <2>2, <2>3, RefsAre DEF Left
    <3> QED  BY <3>1, <3>2, <3>3 DEF Clean
  <2>7. app' \in {"up", "crashed", "exited"}  BY <1>4 DEF AfterUse
  <2>8. IsPair(plugin')  BY <1>4 DEF IsPair
  <2>9. Matches(final, m, s, plugin')
    <3>1. m.tx <=> final["ctl_tx"] = "live"
      BY <1>0, <2>1, <2>2, <2>3, RefsAre DEF Left
    <3>2. m.rx <=> final["ctl_rx"] = "live" /\ final["ctl_adc"] = "live"
      BY <1>0, <2>1, <2>2, <2>3, RefsAre DEF Left
    <3>3. ASSUME NEW side \in Sides
          PROVE  /\ NeedsSide(m, side) => final[Own[side]] = "live"
                 /\ final[Own[side]] = "live" => plugin'[side] = s[side]
      <4>1. NeedsSide(m, side) <=> side \in on  BY DEF on
      <4>2. plugin'[side] = IF reload /\ side \in on THEN s[side] ELSE pl[side]  BY <1>4
      <4> QED  BY <4>1, <4>2, <2>1, <2>5, RefsAre DEF NoPlugins, PluginsAre
    <3> QED  BY <3>1, <3>2, <3>3 DEF Matches
  <2> QED  BY <1>4, <2>3, <2>6, <2>7, <2>8, <2>9
<1> QED  BY <1>1, <1>3, <1>4
-----------------------------------------------------------------------------
(* What a step that goes through controller_initialize leaves. *)
Initial ==
  /\ ref' \in [Refs -> Fates] /\ Clean(ref') /\ IsPair(plugin') /\ IsPair(sel') /\ IsPair(swapped')
  /\ app' \in {"up", "crashed", "exited"}
  /\ app' = "up" => Matches(ref', mode', sel', plugin')

LEMMA InitialIsEnough == Initial => IInv'
<1> SUFFICES ASSUME Initial PROVE IInv'  OBVIOUS
<1> USE DEF Initial
<1>1. TypeInv'  BY DEF TypeInv
<1>2. NothingYet'  BY DEF NothingYet
<1>3. OnlyKnownDangling'  BY RefsAre DEF OnlyKnownDangling, Clean
<1>4. ObjectsMatchSettings'  BY DEF ObjectsMatchSettings, Matches
<1> QED  BY <1>1, <1>2, <1>3, <1>4 DEF IInv

LEMMA ClearedRefs ==
  ASSUME IInv
  PROVE  /\ app = "off" => Left(ref) /\ NoPlugins(ref)
         /\ Left(Terminated(ref, TRUE)) /\ NoPlugins(Terminated(ref, TRUE))
         /\ Left(Terminated(ref, FALSE))
         /\ app = "up" => PluginsAre(Terminated(ref, FALSE), sel, plugin)
<1>1. ref \in [Refs -> Fates] /\ OnlyKnownDangling  BY DEF IInv, TypeInv
<1>2. app = "off" => Left(ref) /\ NoPlugins(ref)
  BY <1>1, RefsAre DEF IInv, NothingYet, Left, NoPlugins
<1>3. Left(Terminated(ref, TRUE)) /\ NoPlugins(Terminated(ref, TRUE))
  <2> DEFINE after == Terminated(ref, TRUE)
  <2>1. /\ after \in [Refs -> Fates]
        /\ \A r \in Refs \ {"mon_ana"} : after[r] = "null"
        /\ after["mon_ana"] # "live"
    BY Zenon, <1>1, TerminatedAll
  <2> HIDE DEF after
  <2>2. Left(after) /\ NoPlugins(after)  BY <2>1, RefsAre DEF Left, NoPlugins
  <2> QED  BY <2>2 DEF after
<1>4. \A side \in Sides : ref[Own[side]] # "freed"  BY <1>1, RefsAre DEF OnlyKnownDangling
<1>5. Left(Terminated(ref, FALSE))
  <2> DEFINE after == Terminated(ref, FALSE)
  <2>1. /\ after \in [Refs -> Fates]
        /\ \A r \in Refs \ {"ctl_enc", "ctl_dec", "mon_ana"} : after[r] = "null"
        /\ \A side \in Sides : after[Own[side]] = ref[Own[side]]
        /\ after["mon_ana"] # "live"
    BY Zenon, <1>1, TerminatedKeepingPlugins
  <2> HIDE DEF after
  <2>2. Left(after)  BY <1>4, <2>1, RefsAre DEF Left
  <2> QED  BY <2>2 DEF after
<1>6. app = "up" => PluginsAre(Terminated(ref, FALSE), sel, plugin)
  <2>1. app = "up" => \A side \in Sides : ref[Own[side]] = "live" => plugin[side] = sel[side]
    BY DEF IInv, ObjectsMatchSettings
  <2> QED  BY <1>1, <2>1, TerminatedKeepingPlugins DEF PluginsAre
<1> QED  BY <1>2, <1>3, <1>5, <1>6

LEMMA LeftIsClean == ASSUME NEW rf, Left(rf) PROVE rf \in [Refs -> Fates] /\ Clean(rf)
BY RefsAre DEF Left, Clean, Fates

LEMMA EndsInitial ==
  ASSUME IInv, NEW rf, Left(rf), NEW how \in {"crashed", "exited"}, Ends(how, rf)
  PROVE  Initial
BY LeftIsClean DEF Ends, Initial, IInv, TypeInv, IsPair

(* controller_push_profile. *)
LEMMA ConfigureInitial ==
  ASSUME IInv, NEW p, NEW rf, NEW explicit, Left(rf), NoPlugins(rf),
         Configure(p, rf, explicit)
  PROVE  Initial
<1> DEFINE Reconfigured ==
      /\ sel' = [enc |-> Pushed(p).encName, dec |-> Pushed(p).decName]
      /\ swapped' = [enc |-> FALSE, dec |-> FALSE]
      /\ Initialize(rf, mode', sel', TRUE, OnTop[loaded][p][explicit], custom, plugin)
<1>1. Ends("crashed", rf) \/ Ends("exited", rf) \/ Reconfigured
  BY DEF Configure
<1>2. CASE Ends("crashed", rf) \/ Ends("exited", rf)
  BY <1>2, EndsInitial
<1>3. CASE Reconfigured
  <2>1. IsPair(sel') /\ IsPair(swapped')  BY <1>3, RefsAre DEF IsPair
  <2>2. IsMode(mode')  BY DEF mode, IsMode
  <2>3. IsPair(plugin)  BY DEF IInv, TypeInv
  <2>4. Initialize(rf, mode', sel', TRUE, OnTop[loaded][p][explicit], custom, plugin)  BY <1>3
  <2>6. /\ ref' \in [Refs -> Fates] /\ Clean(ref') /\ IsPair(plugin')
        /\ app' \in {"up", "crashed", "exited"}
        /\ app' = "up" => Matches(ref', mode', sel', plugin')
    BY <2>2, <2>3, <2>4, Initialized
  <2> QED  BY <2>1, <2>6 DEF Initial
<1> QED  BY <1>1, <1>2, <1>3

(***************************************************************************)
(* Each action.                                                            *)
(***************************************************************************)
LEMMA CreateSafe == ASSUME IInv, Create PROVE IInv'
<1>0. /\ app = "off" /\ Left(ref) /\ NoPlugins(ref)
  BY ClearedRefs DEF Create
<1>1. PICK arguments \in CommandLines :
        LET c == Lines[arguments]
        IN CASE c.error -> Ends("exited", ref)
             [] ~ c.error /\ c.profile # Nothing -> Configure(c.profile, ref, Explicit(c))
             [] OTHER ->
                  /\ values' = c.values
                  /\ Initialize(ref, mode', sel, TRUE, Explicit(c), custom, plugin)
                  /\ UNCHANGED <<profile, sel, swapped>>
  BY DEF Create
<1> DEFINE c == Lines[arguments]
<1>2. CASE Ends("exited", ref)  BY <1>0, <1>2, EndsInitial, InitialIsEnough
<1>3. CASE Configure(c.profile, ref, Explicit(c))
  BY <1>0, <1>3, ConfigureInitial, InitialIsEnough
<1>4. CASE /\ Initialize(ref, mode', sel, TRUE, Explicit(c), custom, plugin)
           /\ UNCHANGED <<sel, swapped>>
  <2>1. IsMode(mode')  BY DEF mode, IsMode
  <2>2. IsPair(plugin) /\ IsPair(sel) /\ IsPair(swapped)  BY DEF IInv, TypeInv
  <2>4. Initialize(ref, mode', sel, TRUE, Explicit(c), custom, plugin)  BY <1>4
  <2>5. /\ ref' \in [Refs -> Fates] /\ Clean(ref') /\ IsPair(plugin')
        /\ app' \in {"up", "crashed", "exited"}
        /\ app' = "up" => Matches(ref', mode', sel, plugin')
    BY <1>0, <2>1, <2>2, <2>4, Initialized
  <2> QED  BY <1>4, <2>2, <2>5, InitialIsEnough DEF Initial
<1> QED  BY Zenon, <1>1, <1>2, <1>3, <1>4

LEMMA LoadingCrashesSafe == ASSUME IInv, LoadingCrashes PROVE IInv'
<1>1. app = "off" /\ Ends("crashed", ref)  BY DEF LoadingCrashes
<1>2. Left(ref)  BY <1>1, ClearedRefs
<1> QED  BY <1>1, <1>2, EndsInitial, InitialIsEnough

LEMMA SettingsAcceptedSafe ==
  ASSUME IInv, NEW d \in {"tx", "rx"}, SettingsAccepted(d) PROVE IInv'
<1>1. /\ app = "up" /\ UNCHANGED sel /\ swapped' = [enc |-> FALSE, dec |-> FALSE]
      /\ Initialize(Terminated(ref, FALSE), mode', sel, FALSE, <<>>, custom, plugin)
  BY DEF SettingsAccepted
<1>2. Left(Terminated(ref, FALSE)) /\ PluginsAre(Terminated(ref, FALSE), sel, plugin)
  BY <1>1, ClearedRefs
<1>3. IsMode(mode')  BY DEF mode, IsMode
<1>4. IsPair(plugin) /\ IsPair(sel')  BY <1>1 DEF IInv, TypeInv, IsPair
<1>5. IsPair(swapped')  BY <1>1, RefsAre DEF IsPair
<1>6. /\ ref' \in [Refs -> Fates] /\ Clean(ref') /\ IsPair(plugin')
      /\ app' \in {"up", "crashed", "exited"}
      /\ app' = "up" => Matches(ref', mode', sel, plugin')
  BY <1>1, <1>2, <1>3, <1>4, Initialized
<1> QED  BY <1>1, <1>4, <1>5, <1>6, InitialIsEnough DEF Initial

LEMMA ProfileSelectedSafe == ASSUME IInv, ProfileSelected PROVE IInv'
<1>1. /\ app = "up"
      /\ \E p \in Offered(loaded) : Configure(p, Terminated(ref, TRUE), NoSettings)
  BY DEF ProfileSelected
<1>2. Left(Terminated(ref, TRUE)) /\ NoPlugins(Terminated(ref, TRUE))  BY ClearedRefs
<1> QED  BY <1>1, <1>2, ConfigureInitial, InitialIsEnough

(* ui_on_encoder_selected: the reference of the transmission or of the     *)
(* reception to the plug-in replaced is one of the two that may dangle.    *)
LEMMA PluginSelectedSafe == ASSUME IInv, NEW side \in Sides, PluginSelected(side) PROVE IInv'
<1> USE RefsAre
<1>1. PICK p \in DOMAIN Defs[side] :
        sel' = [sel EXCEPT ![side] = p] /\ plugin' = [plugin EXCEPT ![side] = p]
  BY DEF PluginSelected
<1>2. /\ app = "up" /\ ref' = Reloaded(ref, side) /\ UNCHANGED <<app, values>>
      /\ swapped' = [swapped EXCEPT ![side] = TRUE]
  BY DEF PluginSelected
<1>3. /\ ref \in [Refs -> Fates] /\ IsPair(sel) /\ IsPair(plugin) /\ IsPair(swapped)
      /\ OnlyKnownDangling /\ ObjectsMatchSettings
  BY DEF IInv, TypeInv
<1>4. /\ ref' \in [Refs -> Fates]
      /\ ref'[Own[side]] = "live"
      /\ ref'[Copy[side]] = IF ref[Copy[side]] = "live" THEN "freed" ELSE ref[Copy[side]]
      /\ \A r \in Refs \ {Own[side], Copy[side]} : ref'[r] = ref[r]
  BY <1>2, <1>3, ReloadedRefs
<1>5. IsPair(sel') /\ IsPair(plugin') /\ IsPair(swapped')
  BY <1>1, <1>2, <1>3 DEF IsPair
<1>6. sel'[side] = plugin'[side] /\ swapped'[side]
  BY <1>1, <1>2, <1>3 DEF IsPair
<1>7. \A other \in Sides \ {side} :
        /\ sel'[other] = sel[other] /\ plugin'[other] = plugin[other]
        /\ swapped'[other] = swapped[other]
  BY <1>1, <1>2, <1>3 DEF IsPair
<1>8. mode' = mode  BY <1>2 DEF mode
<1>9. OnlyKnownDangling'
  <2> SUFFICES ASSUME NEW r \in Refs, ref'[r] = "freed"
               PROVE  \/ \E s \in Sides : r = Copy[s] /\ swapped'[s]
                      \/ r = "mon_ana" /\ ref'["ctl_rx"] = "null"
    BY DEF OnlyKnownDangling
  <2>1. CASE r = Copy[side]  BY <2>1, <1>6
  <2>2. CASE r # Copy[side]
    <3>1. r # Own[side] /\ ref[r] = "freed"  BY <2>2, <1>4
    <3>2. \/ \E s \in Sides : r = Copy[s] /\ swapped[s]
          \/ r = "mon_ana" /\ ref["ctl_rx"] = "null"
      BY <3>1, <1>3 DEF OnlyKnownDangling
    <3>3. CASE \E s \in Sides : r = Copy[s] /\ swapped[s]
      BY <3>3, <2>2, <1>7
    <3>4. CASE r = "mon_ana" /\ ref["ctl_rx"] = "null"
      BY <3>4, <1>4
    <3> QED  BY <3>2, <3>3, <3>4
  <2> QED  BY <2>1, <2>2
<1>10. ObjectsMatchSettings'
  <2>1. /\ mode.tx <=> ref["ctl_tx"] = "live"
        /\ mode.rx <=> ref["ctl_rx"] = "live" /\ ref["ctl_adc"] = "live"
    BY Zenon, <1>2, <1>3 DEF ObjectsMatchSettings
  <2>2. \A r \in {"ctl_tx", "ctl_rx", "ctl_adc"} : ref'[r] = ref[r]
    BY <1>4
  <2>3. \A s \in Sides : /\ NeedsSide(mode, s) => ref'[Own[s]] = "live"
                         /\ ref'[Own[s]] = "live" => plugin'[s] = sel'[s]
    BY <1>2, <1>3, <1>4, <1>6, <1>7 DEF ObjectsMatchSettings
  <2> QED  BY <1>8, <2>1, <2>2, <2>3 DEF ObjectsMatchSettings
<1> QED  BY <1>2, <1>4, <1>5, <1>9, <1>10 DEF IInv, TypeInv, NothingYet

(* What leaves the references, the settings and the plug-ins as they are. *)
LEMMA NothingChanges ==
  ASSUME IInv, UNCHANGED <<values, sel, plugin, swapped, ref>>,
         (app = "up" /\ app' \in {"up", "crashed"}) \/ UNCHANGED app
  PROVE  IInv'
<1>1. TypeInv'  BY DEF IInv, TypeInv, IsPair
<1>2. NothingYet' /\ OnlyKnownDangling'  BY DEF IInv, NothingYet, OnlyKnownDangling
<1>3. mode' = mode  BY DEF mode
<1>4. ObjectsMatchSettings'  BY <1>3 DEF IInv, ObjectsMatchSettings
<1> QED  BY <1>1, <1>2, <1>4 DEF IInv

LEMMA QuitSafe == ASSUME IInv, Quit PROVE IInv'
<1>1. /\ app = "up" /\ app' \in {"exited", "crashed"} /\ ref' = Terminated(ref, TRUE)
      /\ UNCHANGED <<sel, plugin, swapped>>
  BY DEF Quit
<1>2. Left(Terminated(ref, TRUE))  BY ClearedRefs
<1>3. ref' \in [Refs -> Fates] /\ Clean(ref')  BY <1>1, <1>2, LeftIsClean
<1>4. IsPair(plugin') /\ IsPair(sel') /\ IsPair(swapped')  BY <1>1 DEF IInv, TypeInv, IsPair
<1> QED  BY <1>1, <1>3, <1>4, InitialIsEnough DEF Initial

LEMMA DialogsSafe ==
  ASSUME IInv, NEW side \in Sides,
         OpenPluginDialog(side) \/ OpenConfigureDialog(side) \/ PluginReconfigured(side)
  PROVE  IInv'
<1>1. CASE OpenPluginDialog(side)
  BY <1>1, NothingChanges DEF OpenPluginDialog, OpenPanel, Idle
<1>2. CASE OpenConfigureDialog(side)
  BY <1>2, NothingChanges DEF OpenConfigureDialog, OpenPanel, Idle
<1>3. CASE PluginReconfigured(side)
  BY <1>3, NothingChanges DEF PluginReconfigured
<1> QED  BY <1>1, <1>2, <1>3

LEMMA OthersSafe ==
  ASSUME IInv,
         \/ StartCommunication \/ StopCommunication \/ OpenProfilesMenu \/ Cancel
         \/ MonitoringSelected \/ MeasureEncoder \/ \E d \in {"tx", "rx"} : OpenSettingsDialog(d)
  PROVE  IInv'
<1>1. CASE StartCommunication
  BY <1>1, NothingChanges DEF StartCommunication, AfterUse, Idle
<1>2. CASE StopCommunication  BY <1>2, NothingChanges DEF StopCommunication
<1>3. CASE OpenProfilesMenu  BY <1>3, NothingChanges DEF OpenProfilesMenu, OpenPanel, Idle
<1>4. CASE Cancel  BY <1>4, NothingChanges DEF Cancel
<1>5. CASE MonitoringSelected  BY <1>5, NothingChanges DEF MonitoringSelected, AfterUse
<1>6. CASE MeasureEncoder  BY <1>6, NothingChanges DEF MeasureEncoder, AfterUse, Idle
<1>7. CASE \E d \in {"tx", "rx"} : OpenSettingsDialog(d)
  BY <1>7, NothingChanges DEF OpenSettingsDialog, OpenPanel, Idle
<1> QED  BY <1>1, <1>2, <1>3, <1>4, <1>5, <1>6, <1>7
-----------------------------------------------------------------------------
LEMMA InitEstablishes == Init => IInv
<1> SUFFICES ASSUME Init PROVE IInv  OBVIOUS
<1>1. ref = [r \in Refs |-> "null"] /\ app = "off"  BY DEF Init
<1>2. IsPair(sel) /\ IsPair(plugin) /\ IsPair(swapped)  BY RefsAre DEF Init, IsPair
<1> QED  BY <1>1, <1>2 DEF IInv, TypeInv, NothingYet, OnlyKnownDangling, ObjectsMatchSettings, Fates

LEMMA StepPreserves == IInv /\ [Next]_vars => IInv'
<1> SUFFICES ASSUME IInv, [Next]_vars PROVE IInv'  OBVIOUS
<1>1. CASE UNCHANGED vars  BY <1>1, NothingChanges DEF vars
<1>2. CASE Create \/ LoadingCrashes  BY <1>2, CreateSafe, LoadingCrashesSafe
<1>3. CASE \E side \in Sides : OpenPluginDialog(side) \/ OpenConfigureDialog(side)
                               \/ PluginReconfigured(side)
  BY <1>3, DialogsSafe
<1>4. CASE \E side \in Sides : PluginSelected(side)  BY <1>4, PluginSelectedSafe
<1>5. CASE \E d \in {"tx", "rx"} : SettingsAccepted(d)  BY <1>5, SettingsAcceptedSafe
<1>6. CASE ProfileSelected \/ Quit  BY <1>6, ProfileSelectedSafe, QuitSafe
<1>7. CASE \/ StartCommunication \/ StopCommunication \/ OpenProfilesMenu \/ Cancel
           \/ MonitoringSelected \/ MeasureEncoder \/ \E d \in {"tx", "rx"} : OpenSettingsDialog(d)
  BY <1>7, OthersSafe
<1> QED  BY <1>1, <1>2, <1>3, <1>4, <1>5, <1>6, <1>7 DEF Next

LEMMA Invariance == Spec => []IInv
BY InitEstablishes, StepPreserves, PTL DEF Spec

(* No reference of plc-cape-lab dangles but the two known ones: that of a  *)
(* transmission or reception to the plug-in a dialog replaced under it,    *)
(* and that of the monitor to the analysis of a reception that is gone.    *)
THEOREM KnownDangling == Spec => []OnlyKnownDangling
<1>1. IInv => OnlyKnownDangling  BY DEF IInv
<1> QED  BY <1>1, Invariance, PTL

(* While the menu is up there is a transmission exactly when its mode is   *)
(* on, a reception exactly when its mode is on, and the plug-in of each is *)
(* the one selected.                                                       *)
THEOREM ObjectsAsSet == Spec => []ObjectsMatchSettings
<1>1. IInv => ObjectsMatchSettings  BY DEF IInv
<1> QED  BY <1>1, Invariance, PTL

(***************************************************************************)
(*                                TerminalUi                               *)
(*                                                                         *)
(* A thread holds a lock exactly while its program has the end of a        *)
(* bracket ahead that it has not the beginning of.  So the invariant is    *)
(* about the shape of programs (Nested): it is kept because every program  *)
(* that is begun or put before another is made of whole brackets (Tidy),   *)
(* and OnlyActionsDrawUnlocked follows from which of them draw outside of  *)
(* one (Bracketed): none that a thread runs without the lock of the loop   *)
(* of the keys, but the actions of the items.                              *)
(***************************************************************************)
(***************************************************************************)
(* Programs: where the brackets of the two locks and of curses may stand.  *)
(***************************************************************************)
Says(p, i, w) == i \in 1..Len(p) /\ p[i] = w
Words ==
  {"lock", "unlock", "draw", "drawn", "lock_log", "unlock_log", "push_menu", "push_dialog",
   "push_list", "pop", "count", "uncount", "close_all", "quit", "activate", "on", "monitor",
   "arm", "deactivate", "off", "stopping", "join", "stopped", "terminate", "release"}
KeyWords == {"enter", "key", "leave", "action", "relock"}

\* What is opened is closed at its place, and what is closed, unless the
\* program starts inside of it, was opened at its place.
Nested(p) ==
  /\ p \in Seq(Words)
  /\ \A i \in 1..Len(p) :
       /\ p[i] \notin KeyWords
       /\ p[i] = "lock" => Says(p, i + 1, "draw") /\ Says(p, i + 2, "drawn")
                           /\ Says(p, i + 3, "unlock")
       /\ p[i] = "draw" => Says(p, i + 1, "drawn")
       /\ p[i] = "lock_log" => Says(p, i + 1, "lock") /\ Says(p, i + 5, "unlock_log")
       /\ p[i] = "drawn" => (i > 1 => p[i - 1] = "draw")
       /\ p[i] = "unlock" => /\ i > 1 => p[i - 1] = "drawn"
                             /\ i > 2 => p[i - 2] = "draw"
                             /\ i > 3 => p[i - 3] = "lock"
       /\ p[i] = "unlock_log" => /\ i > 1 => p[i - 1] = "unlock"
                                 /\ i > 4 => p[i - 4] = "lock"
                                 /\ i > 5 => p[i - 5] = "lock_log"

\* The program goes on inside a write, or inside a line of the logger.
InBlock(p) == Says(p, 1, "unlock") \/ Says(p, 2, "unlock") \/ Says(p, 3, "unlock")
InLog(p) == \/ Says(p, 1, "unlock_log") \/ Says(p, 2, "unlock_log") \/ Says(p, 3, "unlock_log")
            \/ Says(p, 4, "unlock_log") \/ Says(p, 5, "unlock_log")
Outside(p) == ~ InBlock(p) /\ ~ InLog(p) /\ ~ Says(p, 1, "drawn")
\* It draws under the lock only, and leads to nothing else ("close_all" draws without).
Bracketed(p) ==
  \A i \in 1..Len(p) : p[i] # "close_all" /\ (p[i] = "drawn" => Says(p, i + 1, "unlock"))

Tidy(p) == Nested(p) /\ Outside(p)
Safe(p) == Tidy(p) /\ Bracketed(p)

\* Programs that start outside of any bracket can be put one after another.
LEMMA Joined ==
  ASSUME NEW p, NEW q, Nested(p), Tidy(q)
  PROVE  /\ Nested(p \o q) /\ (Bracketed(p) /\ Bracketed(q) => Bracketed(p \o q))
         /\ InBlock(p \o q) <=> InBlock(p)
         /\ InLog(p \o q) <=> InLog(p)
         /\ Says(p \o q, 1, "drawn") <=> Says(p, 1, "drawn")
<1> DEFINE r == p \o q
<1>1. r \in Seq(Words) /\ Len(r) = Len(p) + Len(q) /\ Len(p) \in Nat /\ Len(q) \in Nat
  BY DEF Nested, Tidy
<1>2. \A i \in 1..Len(p) : r[i] = p[i]
  BY <1>1 DEF Nested, Tidy
<1>3. \A i \in 1..Len(q) : r[i + Len(p)] = q[i]
  BY <1>1 DEF Nested, Tidy
<1>4. \A i \in 1..Len(r) : i \in 1..Len(p) \/ (i - Len(p) \in 1..Len(q) /\ r[i] = q[i - Len(p)])
  BY <1>1 DEF Nested, Tidy
<1> HIDE DEF r
<1>5. ASSUME NEW i \in Int, NEW w, Says(p, i, w) PROVE Says(r, i, w)
  BY <1>1, <1>2, <1>5 DEF Says
<1>6. ASSUME NEW i \in Int, NEW w, Says(q, i, w) PROVE Says(r, i + Len(p), w)
  BY <1>1, <1>3, <1>6 DEF Says
<1> DEFINE Fits(i) ==
       /\ r[i] \notin KeyWords
       /\ r[i] = "lock" => Says(r, i + 1, "draw") /\ Says(r, i + 2, "drawn")
                           /\ Says(r, i + 3, "unlock")
       /\ r[i] = "draw" => Says(r, i + 1, "drawn")
       /\ r[i] = "lock_log" => Says(r, i + 1, "lock") /\ Says(r, i + 5, "unlock_log")
       /\ r[i] = "drawn" => (i > 1 => r[i - 1] = "draw")
       /\ r[i] = "unlock" => /\ i > 1 => r[i - 1] = "drawn"
                             /\ i > 2 => r[i - 2] = "draw"
                             /\ i > 3 => r[i - 3] = "lock"
       /\ r[i] = "unlock_log" => /\ i > 1 => r[i - 1] = "unlock"
                                 /\ i > 4 => r[i - 4] = "lock"
                                 /\ i > 5 => r[i - 5] = "lock_log"
<1>7. ASSUME NEW i \in 1..Len(p) PROVE Fits(i)
  <2>1. i \in Int /\ i >= 1 /\ i \in 1..Len(p)
    BY <1>1
  <2>2. r[i] = p[i]
    BY <1>2
  <2>3. \A j \in 1..5 : i > j => r[i - j] = p[i - j]
    <3>1. \A j \in 1..5 : i > j => i - j \in 1..Len(p)
      BY <1>1
    <3> QED  BY <1>2, <3>1
  <2>4. \A j \in 1..5 : \A w : Says(p, i + j, w) => Says(r, i + j, w)
    BY <1>5, <2>1
  <2>5. /\ p[i] \notin KeyWords
        /\ p[i] = "lock" => Says(p, i + 1, "draw") /\ Says(p, i + 2, "drawn")
                            /\ Says(p, i + 3, "unlock")
        /\ p[i] = "draw" => Says(p, i + 1, "drawn")
        /\ p[i] = "lock_log" => Says(p, i + 1, "lock") /\ Says(p, i + 5, "unlock_log")
        /\ p[i] = "drawn" => (i > 1 => p[i - 1] = "draw")
        /\ p[i] = "unlock" => /\ i > 1 => p[i - 1] = "drawn"
                              /\ i > 2 => p[i - 2] = "draw"
                              /\ i > 3 => p[i - 3] = "lock"
        /\ p[i] = "unlock_log" => /\ i > 1 => p[i - 1] = "unlock"
                                  /\ i > 4 => p[i - 4] = "lock"
                                  /\ i > 5 => p[i - 5] = "lock_log"
    BY <1>1 DEF Nested
  <2> QED  BY <2>1, <2>2, <2>3, <2>4, <2>5
<1>8. ASSUME NEW k \in 1..Len(q) PROVE Fits(k + Len(p))
  <2>1. /\ r[k + Len(p)] = q[k]
        /\ \A j \in 1..5 : k > j => r[k + Len(p) - j] = q[k - j]
    <3>1. \A j \in 1..5 : k > j => k - j \in 1..Len(q) /\ (k - j) + Len(p) = k + Len(p) - j
      BY <1>1
    <3> QED  BY <1>3, <3>1
  <2>2. \A j \in 1..5 : \A w : Says(q, k + j, w) => Says(r, k + Len(p) + j, w)
    <3>1. \A j \in 1..5 : k + j \in Int /\ (k + j) + Len(p) = k + Len(p) + j
      BY <1>1
    <3> QED  BY <1>6, <3>1
  <2>3. /\ q[k] = "drawn" => k > 1
        /\ q[k] = "unlock" => k > 3
        /\ q[k] = "unlock_log" => k > 5
    BY <1>1 DEF Tidy, Outside, InBlock, InLog, Says
  <2>4. k \in Int /\ k >= 1  BY <1>1
  <2>5. /\ q[k] \notin KeyWords
        /\ q[k] = "lock" => Says(q, k + 1, "draw") /\ Says(q, k + 2, "drawn")
                            /\ Says(q, k + 3, "unlock")
        /\ q[k] = "draw" => Says(q, k + 1, "drawn")
        /\ q[k] = "lock_log" => Says(q, k + 1, "lock") /\ Says(q, k + 5, "unlock_log")
        /\ q[k] = "drawn" => q[k - 1] = "draw"
        /\ q[k] = "unlock" => q[k - 1] = "drawn" /\ q[k - 2] = "draw" /\ q[k - 3] = "lock"
        /\ q[k] = "unlock_log" => /\ q[k - 1] = "unlock" /\ q[k - 4] = "lock"
                                  /\ q[k - 5] = "lock_log"
    BY <2>3, <2>4 DEF Nested, Tidy
  <2>6. /\ q[k] = "drawn" => r[k + Len(p) - 1] = "draw"
        /\ q[k] = "unlock" => /\ r[k + Len(p) - 1] = "drawn" /\ r[k + Len(p) - 2] = "draw"
                              /\ r[k + Len(p) - 3] = "lock"
        /\ q[k] = "unlock_log" => /\ r[k + Len(p) - 1] = "unlock" /\ r[k + Len(p) - 4] = "lock"
                                  /\ r[k + Len(p) - 5] = "lock_log"
    BY <2>1, <2>3, <2>4, <2>5
  <2> QED  BY <2>1, <2>2, <2>5, <2>6
<1>9. Nested(r)
  <2>1. ASSUME NEW i \in 1..Len(r) PROVE Fits(i)
    <3>1. CASE i \in 1..Len(p)  BY <3>1, <1>7
    <3>2. CASE i - Len(p) \in 1..Len(q)
      <4>1. Fits((i - Len(p)) + Len(p))  BY <3>2, <1>8
      <4>2. (i - Len(p)) + Len(p) = i  BY <1>1
      <4> HIDE DEF Fits
      <4> QED  BY <4>1, <4>2
    <3> QED  BY <1>4, <3>1, <3>2
  <2> QED  BY <1>1, <2>1 DEF Nested
<1>10. ASSUME Bracketed(p), Bracketed(q) PROVE Bracketed(r)
  <2>1. ASSUME NEW i \in 1..Len(r)
        PROVE  r[i] # "close_all" /\ (r[i] = "drawn" => Says(r, i + 1, "unlock"))
    <3>1. CASE i \in 1..Len(p)  BY <3>1, <1>1, <1>2, <1>5, <1>10 DEF Bracketed
    <3>2. CASE i - Len(p) \in 1..Len(q) /\ r[i] = q[i - Len(p)]
      <4>1. /\ q[i - Len(p)] # "close_all"
            /\ q[i - Len(p)] = "drawn" => Says(q, i - Len(p) + 1, "unlock")
        BY <3>2, <1>10 DEF Bracketed
      <4>2. i - Len(p) + 1 \in Int /\ i - Len(p) + 1 + Len(p) = i + 1  BY <1>1
      <4> QED  BY <3>2, <4>1, <4>2, <1>6
    <3> QED  BY <1>4, <3>1, <3>2
  <2> QED  BY <2>1 DEF Bracketed
<1>11. ASSUME NEW n \in 1..5, NEW w, Says(r, n, w), \A j \in 1..n : ~ Says(q, j, w)
       PROVE  Says(p, n, w)
  BY <1>1, <1>2, <1>4, <1>11 DEF Says
<1>12. /\ \A j \in 1..3 : ~ Says(q, j, "unlock")
       /\ \A j \in 1..5 : ~ Says(q, j, "unlock_log")
       /\ \A j \in 1..1 : ~ Says(q, j, "drawn")
  BY DEF Tidy, Outside, InBlock, InLog, Says
<1>13. /\ \A n \in 1..3 : Says(r, n, "unlock") <=> Says(p, n, "unlock")
       /\ \A n \in 1..5 : Says(r, n, "unlock_log") <=> Says(p, n, "unlock_log")
       /\ Says(r, 1, "drawn") <=> Says(p, 1, "drawn")
  <2>1. ASSUME NEW n \in 1..3 PROVE Says(r, n, "unlock") <=> Says(p, n, "unlock")
    BY <1>5, <1>11, <1>12
  <2>2. ASSUME NEW n \in 1..5 PROVE Says(r, n, "unlock_log") <=> Says(p, n, "unlock_log")
    BY <1>5, <1>11, <1>12
  <2>3. Says(r, 1, "drawn") <=> Says(p, 1, "drawn")
    BY <1>5, <1>11, <1>12
  <2> QED  BY <2>1, <2>2, <2>3
<1>14. InBlock(r) <=> InBlock(p)
  BY <1>13 DEF InBlock
<1>15. InLog(r) <=> InLog(p)
  BY <1>13 DEF InLog
<1> QED  BY <1>9, <1>10, <1>13, <1>14, <1>15, Zenon DEF r

\* What running the first instruction of a program changes.
LEMMA Stepped ==
  ASSUME NEW p, Nested(p), p # <<>>
  PROVE  /\ Nested(Tail(p)) /\ Says(p, 1, Head(p)) /\ Head(p) \notin KeyWords
         /\ Bracketed(p) => Bracketed(Tail(p))
         /\ Head(p) \notin {"lock", "unlock"} => (InBlock(Tail(p)) <=> InBlock(p))
         /\ Head(p) \notin {"lock_log", "unlock_log"} => (InLog(Tail(p)) <=> InLog(p))
         /\ Says(Tail(p), 1, "drawn") <=> Head(p) = "draw"
         /\ Head(p) = "lock" => ~ InBlock(p) /\ InBlock(Tail(p))
         /\ Head(p) = "unlock" => InBlock(p) /\ ~ InBlock(Tail(p))
         /\ Head(p) = "lock_log" => ~ InLog(p) /\ InLog(Tail(p))
         /\ Head(p) = "unlock_log" => InLog(p) /\ ~ InLog(Tail(p))
         /\ Head(p) = "drawn" /\ (Bracketed(p) \/ InLog(p)) => InBlock(p)
         /\ Head(p) \notin {"lock", "unlock", "lock_log", "unlock_log", "draw", "drawn"}
              => Tidy(Tail(p)) /\ Outside(p)
<1> DEFINE r == Tail(p)
<1>1. /\ p \in Seq(Words) /\ r \in Seq(Words) /\ Len(p) \in Nat /\ Len(p) >= 1
      /\ Len(r) = Len(p) - 1 /\ Head(p) = p[1]
      /\ \A i \in 1..Len(r) : r[i] = p[i + 1]
  BY DEF Nested
<1> HIDE DEF r
<1>2. Says(p, 1, Head(p))  BY <1>1 DEF Says
<1>3. \A i \in 1..10 : \A w : Says(r, i, w) <=> Says(p, i + 1, w)
  BY <1>1 DEF Says
<1>4. Nested(r)
  <2>1. ASSUME NEW i \in 1..Len(r), NEW w
        PROVE  \A j \in 1..5 : Says(p, i + 1 + j, w) => Says(r, i + j, w)
    BY <1>1 DEF Says
  <2>2. ASSUME NEW i \in 1..Len(r) PROVE \A j \in 1..5 : i > j => r[i - j] = p[i + 1 - j]
    BY <1>1
  <2>3. ASSUME NEW i \in 1..Len(r)
        PROVE  /\ r[i] \notin KeyWords
               /\ r[i] = "lock" => Says(r, i + 1, "draw") /\ Says(r, i + 2, "drawn")
                                   /\ Says(r, i + 3, "unlock")
               /\ r[i] = "draw" => Says(r, i + 1, "drawn")
               /\ r[i] = "lock_log" => Says(r, i + 1, "lock") /\ Says(r, i + 5, "unlock_log")
               /\ r[i] = "drawn" => (i > 1 => r[i - 1] = "draw")
               /\ r[i] = "unlock" => /\ i > 1 => r[i - 1] = "drawn"
                                     /\ i > 2 => r[i - 2] = "draw"
                                     /\ i > 3 => r[i - 3] = "lock"
               /\ r[i] = "unlock_log" => /\ i > 1 => r[i - 1] = "unlock"
                                         /\ i > 4 => r[i - 4] = "lock"
                                         /\ i > 5 => r[i - 5] = "lock_log"
    <3>1. i + 1 \in 1..Len(p) /\ r[i] = p[i + 1] /\ i \in Int /\ i >= 1  BY <1>1
    <3>2. /\ p[i + 1] \notin KeyWords
          /\ p[i + 1] = "lock" => /\ Says(p, i + 1 + 1, "draw") /\ Says(p, i + 1 + 2, "drawn")
                                  /\ Says(p, i + 1 + 3, "unlock")
          /\ p[i + 1] = "draw" => Says(p, i + 1 + 1, "drawn")
          /\ p[i + 1] = "lock_log" => /\ Says(p, i + 1 + 1, "lock")
                                      /\ Says(p, i + 1 + 5, "unlock_log")
          /\ p[i + 1] = "drawn" => p[i + 1 - 1] = "draw"
          /\ p[i + 1] = "unlock" => /\ p[i + 1 - 1] = "drawn"
                                    /\ i > 1 => p[i + 1 - 2] = "draw"
                                    /\ i > 2 => p[i + 1 - 3] = "lock"
          /\ p[i + 1] = "unlock_log" => /\ p[i + 1 - 1] = "unlock"
                                        /\ i > 3 => p[i + 1 - 4] = "lock"
                                        /\ i > 4 => p[i + 1 - 5] = "lock_log"
      BY <3>1 DEF Nested
    <3>3. /\ i > 1 => r[i - 1] = p[i + 1 - 1]
          /\ i > 2 => r[i - 2] = p[i + 1 - 2]
          /\ i > 3 => r[i - 3] = p[i + 1 - 3]
          /\ i > 4 => r[i - 4] = p[i + 1 - 4]
          /\ i > 5 => r[i - 5] = p[i + 1 - 5]
      <4>1. ASSUME NEW j \in 1..5, i > j PROVE r[i - j] = p[i + 1 - j]
        <5>1. i - j \in 1..Len(r) /\ (i - j) + 1 = i + 1 - j  BY <1>1, <4>1
        <5> QED  BY <1>1, <5>1
      <4> QED  BY <4>1
    <3> QED  BY <2>1, <3>1, <3>2, <3>3
  <2> QED  BY <1>1, <2>3 DEF Nested
<1>5. Bracketed(p) => Bracketed(r)
  BY <1>1, <1>3 DEF Bracketed, Says
<1>6. /\ p[1] \notin KeyWords
      /\ p[1] = "lock" => Says(p, 4, "unlock")
      /\ p[1] = "draw" => Says(p, 2, "drawn")
      /\ p[1] = "lock_log" => Says(p, 6, "unlock_log")
      /\ Says(p, 2, "drawn") => p[1] = "draw"
  BY <1>1 DEF Nested, Says
<1>7. /\ Says(p, 2, "unlock") => p[1] = "drawn"
      /\ Says(p, 3, "unlock") => p[1] = "draw"
      /\ Says(p, 4, "unlock") => p[1] = "lock"
  BY <1>1 DEF Nested, Says
<1>8. /\ Says(p, 2, "unlock_log") => p[1] = "unlock"
      /\ Says(p, 3, "unlock_log") => Says(p, 2, "unlock")
      /\ Says(p, 4, "unlock_log") => Says(p, 3, "unlock")
      /\ Says(p, 5, "unlock_log") => p[1] = "lock"
      /\ Says(p, 6, "unlock_log") => p[1] = "lock_log"
  BY <1>1 DEF Nested, Says
<1>9. Bracketed(p) /\ p[1] = "drawn" => Says(p, 2, "unlock")
  BY <1>1 DEF Bracketed, Says
<1>10. \A w : Says(p, 1, w) <=> p[1] = w
  BY <1>1 DEF Says
<1>11. InBlock(p) <=> Says(p, 1, "unlock") \/ Says(p, 2, "unlock") \/ Says(p, 3, "unlock")
  BY DEF InBlock
<1>12. InBlock(r) <=> Says(p, 2, "unlock") \/ Says(p, 3, "unlock") \/ Says(p, 4, "unlock")
  BY <1>3 DEF InBlock
<1>13. InLog(p) <=> \/ Says(p, 1, "unlock_log") \/ Says(p, 2, "unlock_log")
                    \/ Says(p, 3, "unlock_log") \/ Says(p, 4, "unlock_log")
                    \/ Says(p, 5, "unlock_log")
  BY DEF InLog
<1>14. InLog(r) <=> \/ Says(p, 2, "unlock_log") \/ Says(p, 3, "unlock_log")
                    \/ Says(p, 4, "unlock_log") \/ Says(p, 5, "unlock_log")
                    \/ Says(p, 6, "unlock_log")
  BY <1>3 DEF InLog
<1>15. Says(r, 1, "drawn") <=> Says(p, 2, "drawn")
  BY <1>3
<1> HIDE DEF r
<1> QED
  <2>1. /\ Says(r, 1, "drawn") <=> Head(p) = "draw"
        /\ Head(p) \notin {"lock", "unlock"} => (InBlock(r) <=> InBlock(p))
        /\ Head(p) = "lock" => ~ InBlock(p) /\ InBlock(r)
        /\ Head(p) = "unlock" => InBlock(p) /\ ~ InBlock(r)
    BY <1>1, <1>6, <1>7, <1>10, <1>11, <1>12, <1>15
  <2>2. /\ Head(p) \notin {"lock_log", "unlock_log"} => (InLog(r) <=> InLog(p))
        /\ Head(p) = "lock_log" => ~ InLog(p) /\ InLog(r)
        /\ Head(p) = "unlock_log" => InLog(p) /\ ~ InLog(r)
    BY <1>1, <1>6, <1>7, <1>8, <1>10, <1>13, <1>14
  <2>3. Head(p) = "drawn" /\ (Bracketed(p) \/ InLog(p)) => InBlock(p)
    BY <1>1, <1>7, <1>8, <1>9, <1>10, <1>11, <1>13
  <2>4. Head(p) \notin {"lock", "unlock", "lock_log", "unlock_log", "draw", "drawn"}
              => Tidy(r) /\ Outside(p)
    BY <1>1, <1>4, <1>6, <1>7, <1>8, <1>10, <1>11, <1>13, <2>1, <2>2 DEF Tidy, Outside
  <2> QED  BY <1>1, <1>2, <1>4, <1>5, <1>6, <2>1, <2>2, <2>3, <2>4, Zenon DEF r

LEMMA TidyJoined ==
  ASSUME NEW p, NEW q, Tidy(p), Tidy(q)
  PROVE  Tidy(p \o q)
<1> QED  BY Joined DEF Tidy, Outside

LEMMA SafeJoined ==
  ASSUME NEW p, NEW q, Safe(p), Safe(q)
  PROVE  Safe(p \o q)
<1> QED  BY Joined, TidyJoined, Zenon DEF Safe, Tidy

Brackets == {"lock", "unlock", "draw", "drawn", "lock_log", "unlock_log"}
LEMMA OneWord ==
  ASSUME NEW w \in Words, w \notin Brackets
  PROVE  Tidy(<<w>>) /\ (w # "close_all" => Safe(<<w>>))
<1> DEFINE p == <<w>>
<1>1. p \in Seq(Words) /\ Len(p) = 1 /\ p[1] = w
  OBVIOUS
<1>2. w \notin KeyWords
  BY DEF Words, KeyWords
<1> HIDE DEF p
<1>3. Nested(p)  BY <1>1, <1>2 DEF Nested, Brackets
<1>4. Outside(p)  BY <1>1 DEF Outside, InBlock, InLog, Says, Brackets
<1>5. w # "close_all" => Bracketed(p)  BY <1>1 DEF Bracketed, Brackets
<1> QED  BY <1>3, <1>4, <1>5 DEF Safe, Tidy, p

LEMMA NoWord == Safe(<<>>)
<1> DEFINE p == <<>>
<1>1. p \in Seq(Words) /\ Len(p) = 0
  OBVIOUS
<1> HIDE DEF p
<1>2. Nested(p) /\ Outside(p) /\ Bracketed(p)
  BY <1>1 DEF Nested, Outside, Bracketed, InBlock, InLog, Says
<1> QED  BY <1>2 DEF Safe, Tidy, p

LEMMA PaintTidy == Tidy(Paint)
<1> DEFINE p == Paint
<1>1. p \in Seq(Words) /\ Len(p) = 2 /\ p[1] = "draw" /\ p[2] = "drawn"
  BY DEF Paint, Words
<1>2. \A i \in 1..2 : i = 1 \/ i = 2
  OBVIOUS
<1> HIDE DEF p
<1>3. Nested(p)  BY <1>1, <1>2 DEF Nested, KeyWords, Says
<1>4. Outside(p)  BY <1>1 DEF Outside, InBlock, InLog, Says
<1> QED  BY <1>3, <1>4 DEF p, Tidy

LEMMA Written ==
  /\ Write \in Seq(Words) /\ Len(Write) = 4
  /\ Write[1] = "lock" /\ Write[2] = "draw" /\ Write[3] = "drawn" /\ Write[4] = "unlock"
<1> DEFINE a == <<"lock">>
           b == Paint
           c == <<"unlock">>
           d == a \o b
<1>1. a \in Seq(Words) /\ Len(a) = 1 /\ a[1] = "lock"
  BY DEF Words
<1>2. b \in Seq(Words) /\ Len(b) = 2 /\ b[1] = "draw" /\ b[2] = "drawn"
  BY DEF Paint, Words
<1>3. c \in Seq(Words) /\ Len(c) = 1 /\ c[1] = "unlock"
  BY DEF Words
<1>4. Write = d \o c
  BY DEF Write
<1> HIDE DEF a, b, c
<1>5. d \in Seq(Words) /\ Len(d) = 3 /\ d[1] = "lock" /\ d[2] = "draw" /\ d[3] = "drawn"
  <2>1. /\ a \o b \in Seq(Words) /\ Len(a \o b) = Len(a) + Len(b)
        /\ \A i \in 1..(Len(a) + Len(b)) :
             (a \o b)[i] = IF i <= Len(a) THEN a[i] ELSE b[i - Len(a)]
    BY <1>1, <1>2, ConcatProperties
  <2> QED  BY <1>1, <1>2, <2>1
<1> HIDE DEF d
<1>6. Write \in Seq(Words) /\ Len(Write) = 4
      /\ \A i \in 1..4 : Write[i] = IF i <= 3 THEN d[i] ELSE c[i - 3]
  <2>1. /\ d \o c \in Seq(Words) /\ Len(d \o c) = Len(d) + Len(c)
        /\ \A i \in 1..(Len(d) + Len(c)) :
             (d \o c)[i] = IF i <= Len(d) THEN d[i] ELSE c[i - Len(d)]
    BY <1>3, <1>5, ConcatProperties
  <2> QED  BY <1>3, <1>4, <1>5, <2>1
<1>7. Write[1] = d[1] /\ Write[2] = d[2] /\ Write[3] = d[3] /\ Write[4] = c[1]
  BY <1>6
<1> QED  BY <1>3, <1>5, <1>6, <1>7

LEMMA WriteSafe == Safe(Write)
<1> DEFINE p == Write
<1>1. /\ p \in Seq(Words) /\ Len(p) = 4
      /\ p[1] = "lock" /\ p[2] = "draw" /\ p[3] = "drawn" /\ p[4] = "unlock"
  BY Written
<1>2. \A i \in 1..4 : i = 1 \/ i = 2 \/ i = 3 \/ i = 4
  OBVIOUS
<1> HIDE DEF p
<1>3. Nested(p)  BY <1>1, <1>2 DEF Nested, KeyWords, Says
<1>4. Outside(p)  BY <1>1 DEF Outside, InBlock, InLog, Says
<1>5. Bracketed(p)  BY <1>1, <1>2 DEF Bracketed, Says
<1> QED  BY <1>3, <1>4, <1>5 DEF p, Tidy, Safe

LEMMA LogSafe == Safe(Log)
<1> DEFINE a == <<"lock_log">>
           b == Write
           c == <<"unlock_log">>
           d == a \o b
           p == Log
<1>1. a \in Seq(Words) /\ Len(a) = 1 /\ a[1] = "lock_log"
  BY DEF Words
<1>2. /\ b \in Seq(Words) /\ Len(b) = 4
      /\ b[1] = "lock" /\ b[2] = "draw" /\ b[3] = "drawn" /\ b[4] = "unlock"
  BY Written
<1>3. c \in Seq(Words) /\ Len(c) = 1 /\ c[1] = "unlock_log"
  BY DEF Words
<1>4. p = d \o c
  BY DEF Log
<1> HIDE DEF a, b, c, p
<1>5. /\ d \in Seq(Words) /\ Len(d) = 5 /\ d[1] = "lock_log"
      /\ d[2] = "lock" /\ d[3] = "draw" /\ d[4] = "drawn" /\ d[5] = "unlock"
  <2>1. d \in Seq(Words) /\ Len(d) = 5
        /\ \A i \in 1..5 : d[i] = IF i <= 1 THEN a[i] ELSE b[i - 1]
    <3>1. /\ a \o b \in Seq(Words) /\ Len(a \o b) = Len(a) + Len(b)
          /\ \A i \in 1..(Len(a) + Len(b)) :
               (a \o b)[i] = IF i <= Len(a) THEN a[i] ELSE b[i - Len(a)]
      BY <1>1, <1>2, ConcatProperties
    <3> QED  BY <1>1, <1>2, <3>1 DEF d
  <2>2. d[1] = a[1] /\ d[2] = b[1] /\ d[3] = b[2] /\ d[4] = b[3] /\ d[5] = b[4]
    BY <2>1
  <2> QED  BY <1>1, <1>2, <2>1, <2>2
<1> HIDE DEF d
<1>6. /\ p \in Seq(Words) /\ Len(p) = 6 /\ p[1] = "lock_log" /\ p[2] = "lock"
      /\ p[3] = "draw" /\ p[4] = "drawn" /\ p[5] = "unlock" /\ p[6] = "unlock_log"
  <2>1. p \in Seq(Words) /\ Len(p) = 6
        /\ \A i \in 1..6 : p[i] = IF i <= 5 THEN d[i] ELSE c[i - 5]
    <3>1. /\ d \o c \in Seq(Words) /\ Len(d \o c) = Len(d) + Len(c)
          /\ \A i \in 1..(Len(d) + Len(c)) :
               (d \o c)[i] = IF i <= Len(d) THEN d[i] ELSE c[i - Len(d)]
      BY <1>3, <1>5, ConcatProperties
    <3> QED  BY <1>3, <1>4, <1>5, <3>1
  <2>2. /\ p[1] = d[1] /\ p[2] = d[2] /\ p[3] = d[3] /\ p[4] = d[4] /\ p[5] = d[5]
        /\ p[6] = c[1]
    BY <2>1
  <2> QED  BY <1>3, <1>5, <2>1, <2>2
<1>7. \A i \in 1..6 : i = 1 \/ i = 2 \/ i = 3 \/ i = 4 \/ i = 5 \/ i = 6
  OBVIOUS
<1>8. Nested(p)  BY <1>6, <1>7 DEF Nested, KeyWords, Says
<1>9. Outside(p)  BY <1>6 DEF Outside, InBlock, InLog, Says
<1>10. Bracketed(p)  BY <1>6, <1>7 DEF Bracketed, Says
<1> QED  BY <1>8, <1>9, <1>10 DEF p, Tidy, Safe

LEMMA Words1 ==
  /\ Safe(<<"on">>) /\ Safe(<<"monitor">>) /\ Safe(<<"arm">>) /\ Safe(<<"deactivate">>)
  /\ Safe(<<"off">>) /\ Safe(<<"stopping", "join">>) /\ Safe(<<"stopped">>)
  /\ Safe(<<"terminate">>) /\ Safe(<<"release">>) /\ Safe(<<"uncount">>) /\ Safe(<<"count">>)
  /\ Safe(<<"pop">>) /\ Safe(<<"push_menu">>) /\ Safe(<<"push_dialog">>)
  /\ Safe(<<"push_list">>) /\ Safe(<<"activate">>) /\ Safe(<<"quit">>)
  /\ Tidy(<<"close_all">>) /\ Tidy(<<"uncount", "close_all">>)
<1>1. \A w \in Words \ (Brackets \union {"close_all"}) : Safe(<<w>>)
  BY OneWord
<1>2. Tidy(<<"close_all">>)
  BY OneWord DEF Words, Brackets
<1>3. \A w \in {"on", "monitor", "arm", "deactivate", "off", "stopping", "join", "stopped",
               "terminate", "release", "uncount", "count", "pop", "push_menu",
               "push_dialog", "push_list", "activate", "quit"} :
        w \in Words \ (Brackets \union {"close_all"})
  BY DEF Words, Brackets
<1>4. <<"stopping", "join">> = <<"stopping">> \o <<"join">>
  OBVIOUS
<1>5. <<"uncount", "close_all">> = <<"uncount">> \o <<"close_all">>
  OBVIOUS
<1>6. Safe(<<"stopping">>) /\ Safe(<<"join">>) /\ Safe(<<"uncount">>)
  BY <1>1, <1>3
<1>7. Safe(<<"stopping", "join">>)
  BY <1>4, <1>6, SafeJoined
<1>8. Tidy(<<"uncount", "close_all">>)
  BY <1>2, <1>5, <1>6, TidyJoined DEF Safe
<1> QED  BY <1>1, <1>2, <1>3, <1>7, <1>8

\* The programs of the controller draw under the lock.
LEMMA ControllerPrograms ==
  /\ Safe(StartComm) /\ Safe(StopComm) /\ Safe(Deactivate) /\ Safe(Exit)
  /\ Safe(StartComm \o <<"arm">>) /\ Safe(StopComm \o <<"arm">>)
  /\ Safe(StopComm \o Deactivate)
  /\ Safe(StopComm \o <<"off">> \o Log) /\ Safe(<<>> \o <<"off">> \o Log)
  /\ Safe(Deactivate \o <<"release">>) /\ Safe(<<>> \o <<"release">>)
  /\ Safe(Log \o <<"on">>) /\ Safe(Log \o <<>>)
  /\ Safe(Log \o Deactivate) /\ Safe(Write \o <<"terminate">>)
<1>1. Safe(StartComm) /\ Safe(Deactivate) /\ Safe(Exit)
  BY Words1, LogSafe, SafeJoined DEF StartComm, Deactivate, Exit
<1>2. Safe(StopComm)
  BY Words1, LogSafe, SafeJoined DEF StopComm
<1> QED  BY <1>1, <1>2, NoWord, Words1, LogSafe, WriteSafe, SafeJoined

LEMMA KeyProgramsTidy ==
  ASSUME NEW kind \in {"main", "menu", "dialog", "list"}, NEW program \in KeyPrograms(kind),
         program # <<"leave", "action", "relock">>
  PROVE  Tidy(program)
<1>1. Tidy(ClosePanel) /\ Tidy(UiClose) /\ Tidy(OpenList)
  BY PaintTidy, Words1, TidyJoined DEF Safe, ClosePanel, UiClose, OpenList
<1>2. Tidy(Write) /\ Tidy(Log) /\ Tidy(Exit)
  BY WriteSafe, LogSafe, ControllerPrograms DEF Safe
<1>3. \A p \in MenuKeys(kind) : p # <<"leave", "action", "relock">> => Tidy(p)
  BY <1>1, PaintTidy DEF MenuKeys
<1>4. \A p \in Accept : Tidy(p)
  BY <1>1, <1>2, PaintTidy, TidyJoined DEF Accept
<1>5. \A p \in DialogKeys : Tidy(p)
  BY <1>1, <1>4, PaintTidy, TidyJoined DEF DialogKeys, Open
<1>6. \A p \in ListKeys : Tidy(p)
  BY <1>1, PaintTidy DEF ListKeys, ListCloses
<1> QED  BY <1>3, <1>5, <1>6 DEF KeyPrograms

LEMMA ItemsTidy ==
  ASSUME NEW kind, NEW program \in Items(kind)
  PROVE  Tidy(program)
<1>1. Tidy(UiClose) /\ Tidy(Open("menu")) /\ Tidy(Open("dialog"))
  BY PaintTidy, Words1, TidyJoined
     DEF Safe, ClosePanel, UiClose, Open, OpenMenu, OpenDialog
<1>2. Tidy(Write) /\ Tidy(Log) /\ Tidy(Deactivate) /\ Tidy(<<"activate">>) /\ Tidy(<<"quit">>)
  BY WriteSafe, LogSafe, ControllerPrograms, Words1 DEF Safe
<1>3. Tidy(Write \o <<"close_all">>) /\ Tidy(Write \o Write \o UiClose)
  BY <1>1, <1>2, Words1, TidyJoined
<1> QED  BY <1>1, <1>2, <1>3
            DEF Items, MainItems, ProfileItems, PluginItems, MonitoringItems, ToolItems, Back,
                WhenIdle

(***************************************************************************)
(* The invariant.                                                          *)
(***************************************************************************)
\* The monitor and the callbacks: they hold what they have to give back.
Others == {"monitor", "callback"}
Calm(t) ==
  /\ Nested(todo[t]) /\ Bracketed(todo[t])
  /\ InBlock(todo[t]) <=> lock.owner = t
  /\ lock.owner = t => lock.count = 1
  /\ InLog(todo[t]) <=> logLock = t
  /\ t \in drawing => Says(todo[t], 1, "drawn")

\* The UI thread: a program q, and s, what remains of the loop of the keys.
InLoop == {<<>>, <<"leave">>, <<"relock", "leave">>}
AtKey == {<<"enter", "key", "leave">>, <<"key", "leave">>,
          <<"leave", "action", "relock", "leave">>, <<"action", "relock", "leave">>}
\* The loop holds the lock.
LoopLocked(s) == s \in {<<"leave">>, <<"key", "leave">>, <<"leave", "action", "relock", "leave">>}

Regular(q, s) ==
  /\ sig # "locked"
  /\ InBlock(q) \/ LoopLocked(s) => lock.owner = "ui"
  /\ InBlock(q) /\ LoopLocked(s) => lock.count >= 2
  /\ logLock = "ui" => InLog(q)
  /\ sig # "work" /\ "ui" \in drawing => Says(q, 1, "drawn")
\* A signal arrived while it held tui->lock, which it never gives back,
KeepsLock(q, s) ==
  /\ sig = "locked" /\ lock.owner = "ui"
  /\ InBlock(q) \/ LoopLocked(s) => lock.count >= 2
  /\ InBlock(q) /\ LoopLocked(s) => lock.count >= 3
\* or only the lock of the logger, which it takes again for ever.
Stuck(q, s) ==
  sig = "locked" /\ q = Exit /\ s = <<>> /\ logLock = "ui" /\ "ui" \notin drawing

Core(q, s) ==
  /\ Nested(q)
  /\ s \in InLoop \/ (s \in AtKey /\ q = <<>>)
  /\ s = <<>> => Bracketed(q)
  /\ InLog(q) => logLock = "ui"
  /\ Regular(q, s) \/ KeepsLock(q, s) \/ Stuck(q, s)
UiCalm == \E q, s : todo["ui"] = q \o s /\ Core(q, s)

UiTypeInv ==
  /\ DOMAIN todo = Threads
  /\ lock \in [owner : Threads \union {"none"}, count : Nat]
  /\ lock.owner = "none" <=> lock.count = 0
  /\ panels \in Seq({"main", "menu", "dialog", "list"}) /\ panels # <<>>
  /\ drawing \subseteq Threads

UiInv == UiTypeInv /\ Calm("monitor") /\ Calm("callback") /\ UiCalm

\* What a step of one thread leaves to the others.
Apart(t) ==
  /\ DOMAIN todo' = Threads /\ \A u \in Threads \ {t} : todo'[u] = todo[u]
  /\ \A u \in Threads \ {t} : u \in drawing' <=> u \in drawing
  /\ lock' = lock \/ (lock.owner \in {"none", t} /\ lock'.owner \in {"none", t})
  /\ logLock' = logLock \/ (logLock \in {"none", t} /\ logLock' \in {"none", t})

LEMMA OthersStayCalm ==
  ASSUME NEW t \in Threads, NEW u \in Others, u # t, Apart(t), Calm(u)
  PROVE  Calm(u)'
<1>1. u \in Threads /\ u # "none"  BY DEF Others, Threads
<1>2. todo'[u] = todo[u] /\ (u \in drawing' <=> u \in drawing)
  BY <1>1 DEF Apart
<1>3. (lock'.owner = u <=> lock.owner = u) /\ (lock.owner = u => lock' = lock)
  BY <1>1 DEF Apart
<1>4. logLock' = u <=> logLock = u
  BY <1>1 DEF Apart
<1> QED  BY <1>2, <1>3, <1>4 DEF Calm

LEMMA UiStaysCalm ==
  ASSUME NEW t \in Others, Apart(t), sig' = sig, UiCalm
  PROVE  UiCalm'
<1>1. "ui" \in Threads /\ t # "ui" /\ t # "none" /\ "ui" # "none"  BY DEF Others, Threads
<1>2. todo'["ui"] = todo["ui"] /\ ("ui" \in drawing' <=> "ui" \in drawing)
  BY <1>1 DEF Apart
<1>3. (lock'.owner = "ui" <=> lock.owner = "ui") /\ (lock.owner = "ui" => lock' = lock)
  BY <1>1 DEF Apart
<1>4. logLock' = "ui" <=> logLock = "ui"
  BY <1>1 DEF Apart
<1>5. PICK q, s : todo["ui"] = q \o s /\ Core(q, s)
  BY DEF UiCalm
<1>6. Core(q, s)'
  BY <1>2, <1>3, <1>4, <1>5 DEF Core, Regular, KeepsLock, Stuck
<1> QED  BY <1>2, <1>5, <1>6 DEF UiCalm

(***************************************************************************)
(* The steps of the monitor and of the callbacks.                          *)
(***************************************************************************)
LEMMA OtherMoves ==
  ASSUME NEW t \in Others, DOMAIN todo = Threads, Calm(t), Outside(todo[t]),
         NEW r, Safe(r), todo' = [todo EXCEPT ![t] = r], UNCHANGED <<lock, logLock, drawing>>
  PROVE  Calm(t)' /\ Apart(t)
<1>1. t \in Threads  BY DEF Others, Threads
<1>2. todo'[t] = r /\ DOMAIN todo' = Threads /\ \A u \in Threads \ {t} : todo'[u] = todo[u]
  BY <1>1
<1>3. Apart(t)
  BY <1>2 DEF Apart
<1>4. ~ InBlock(r) /\ ~ InLog(r) /\ Nested(r) /\ Bracketed(r)
  BY DEF Safe, Tidy, Outside
<1>5. ~ InBlock(todo[t]) /\ ~ InLog(todo[t]) /\ ~ Says(todo[t], 1, "drawn")
  BY DEF Outside
<1>6. lock.owner # t /\ logLock # t /\ t \notin drawing
  BY <1>5, Zenon DEF Calm
<1> QED  BY <1>2, <1>3, <1>4, <1>6 DEF Calm

LEMMA OtherBrackets ==
  ASSUME NEW t \in Others, UiTypeInv, Calm(t),
         Lock(t) \/ Unlock(t) \/ LockLog(t) \/ UnlockLog(t) \/ Draw(t) \/ Drawn(t)
  PROVE  Calm(t)' /\ Apart(t) /\ UiTypeInv'
<1> DEFINE p == todo[t]
           r == Tail(p)
<1>1. t \in Threads /\ t # "none"  BY DEF Others, Threads
<1>2. /\ p # <<>> /\ Nested(p) /\ Bracketed(p)
      /\ todo' = [todo EXCEPT ![t] = <<>> \o Tail(@)] /\ UNCHANGED panels
  BY DEF Lock, Unlock, LockLog, UnlockLog, Draw, Drawn, At, Done, Become, Calm
<1>3. p \in Seq(Words) /\ <<>> \o r = r
  BY <1>2 DEF Nested
<1>4. DOMAIN todo = Threads
  BY DEF UiTypeInv
<1>5. /\ todo'[t] = r /\ DOMAIN todo' = Threads
      /\ \A u \in Threads \ {t} : todo'[u] = todo[u]
  BY <1>1, <1>2, <1>3, <1>4
<1>6. /\ Nested(r) /\ Says(p, 1, Head(p)) /\ Head(p) \notin KeyWords
      /\ Bracketed(r)
      /\ Head(p) \notin {"lock", "unlock"} => (InBlock(r) <=> InBlock(p))
      /\ Head(p) \notin {"lock_log", "unlock_log"} => (InLog(r) <=> InLog(p))
      /\ Says(r, 1, "drawn") <=> Head(p) = "draw"
      /\ Head(p) = "lock" => ~ InBlock(p) /\ InBlock(r)
      /\ Head(p) = "unlock" => InBlock(p) /\ ~ InBlock(r)
      /\ Head(p) = "lock_log" => ~ InLog(p) /\ InLog(r)
      /\ Head(p) = "unlock_log" => InLog(p) /\ ~ InLog(r)
  BY <1>2, Stepped
<1>7. /\ InBlock(p) <=> lock.owner = t
      /\ lock.owner = t => lock.count = 1
      /\ InLog(p) <=> logLock = t
      /\ t \in drawing => Says(p, 1, "drawn")
      /\ Says(p, 1, "drawn") => Head(p) = "drawn"
  <2>1. Says(p, 1, "drawn") => Head(p) = "drawn"  BY <1>3, <1>2 DEF Says
  <2> QED  BY <2>1 DEF Calm
<1>8. /\ lock = [owner |-> lock.owner, count |-> lock.count]
      /\ lock.owner \in Threads \union {"none"} /\ lock.count \in Nat
      /\ lock.owner = "none" <=> lock.count = 0
      /\ panels' \in Seq({"main", "menu", "dialog", "list"}) /\ panels' # <<>>
      /\ drawing \subseteq Threads
  BY <1>2 DEF UiTypeInv
<1> HIDE DEF p, r
<1>9. SUFFICES
        /\ InBlock(r) <=> lock'.owner = t
        /\ lock'.owner = t => lock'.count = 1
        /\ InLog(r) <=> logLock' = t
        /\ t \in drawing' => Says(r, 1, "drawn")
        /\ \A u \in Threads \ {t} : u \in drawing' <=> u \in drawing
        /\ lock' = lock \/ (lock.owner \in {"none", t} /\ lock'.owner \in {"none", t})
        /\ logLock' = logLock \/ (logLock \in {"none", t} /\ logLock' \in {"none", t})
        /\ lock' \in [owner : Threads \union {"none"}, count : Nat]
        /\ lock'.owner = "none" <=> lock'.count = 0
        /\ drawing' \subseteq Threads
  BY <1>5, <1>6, <1>8 DEF Calm, Apart, UiTypeInv
<1>10. CASE Lock(t)
  <2>1. Head(p) = "lock" /\ lock.owner \in {"none", t}
        /\ lock' = [owner |-> t, count |-> lock.count + 1] /\ UNCHANGED <<logLock, drawing>>
    BY <1>6, <1>10 DEF Lock, At, p, KeyWords
  <2>2. lock.owner = "none" /\ lock.count = 0  BY <2>1, <1>6, <1>7, <1>8
  <2>3. lock'.owner = t /\ lock'.count = 1  BY <2>1, <2>2
  <2> QED  BY <2>1, <2>2, <2>3, <1>1, <1>6, <1>7, <1>8
<1>11. CASE Unlock(t)
  <2>1. /\ Head(p) = "unlock"
        /\ lock' = IF lock.count = 1 THEN [owner |-> "none", count |-> 0]
                   ELSE [lock EXCEPT !.count = @ - 1]
        /\ UNCHANGED <<logLock, drawing>>
    BY <1>6, <1>11 DEF Unlock, At, p, KeyWords
  <2>2. lock.owner = t /\ lock.count = 1  BY <2>1, <1>6, <1>7
  <2>3. lock'.owner = "none" /\ lock'.count = 0 /\ lock' = [owner |-> "none", count |-> 0]
    BY <2>1, <2>2
  <2> QED  BY <2>1, <2>2, <2>3, <1>1, <1>6, <1>7, <1>8
<1>12. CASE LockLog(t)
  <2>1. Head(p) = "lock_log" /\ logLock = "none" /\ logLock' = t /\ UNCHANGED <<lock, drawing>>
    BY <1>12 DEF LockLog, At, p
  <2> QED  BY <2>1, <1>1, <1>6, <1>7, <1>8
<1>13. CASE UnlockLog(t)
  <2>1. Head(p) = "unlock_log" /\ logLock' = "none" /\ UNCHANGED <<lock, drawing>>
    BY <1>13 DEF UnlockLog, At, p
  <2> QED  BY <2>1, <1>1, <1>6, <1>7, <1>8
<1>14. CASE Draw(t)
  <2>1. Head(p) = "draw" /\ drawing' = drawing \union {t} /\ UNCHANGED <<lock, logLock>>
    BY <1>14 DEF Draw, At, p
  <2> QED  BY <2>1, <1>1, <1>6, <1>7, <1>8
<1>15. CASE Drawn(t)
  <2>1. Head(p) = "drawn" /\ drawing' = drawing \ {t} /\ UNCHANGED <<lock, logLock>>
    BY <1>15 DEF Drawn, At, p
  <2> QED  BY <2>1, <1>1, <1>6, <1>7, <1>8
<1> QED  BY <1>10, <1>11, <1>12, <1>13, <1>14, <1>15

LEMMA NotArmedTidy ==
  ASSUME NEW p, Tidy(p)
  PROVE  Tidy(NotArmed(p)) /\ (Bracketed(p) => Bracketed(NotArmed(p)))
<1>1. CASE p # <<>> /\ Head(p) = "arm"
  <2>1. Nested(p)  BY DEF Tidy
  <2>2. Tidy(Tail(p)) /\ (Bracketed(p) => Bracketed(Tail(p)))
    BY <1>1, <2>1, Stepped
  <2> QED  BY <1>1, <2>2 DEF NotArmed
<1>2. CASE ~ (p # <<>> /\ Head(p) = "arm")
  BY <1>2 DEF NotArmed
<1> QED  BY <1>1, <1>2

\* The instructions of the controller: a safe program replaces what remains.
Controls(t) ==
  MonitorStart(t) \/ Arm(t) \/ DeactivateBegin(t) \/ DeactivateEnd(t) \/ Stopping(t) \/ Join(t)
    \/ Stopped(t)
LEMMA ControlSteps ==
  ASSUME NEW t \in Threads, Controls(t)
  PROVE  /\ todo[t] # <<>> /\ Head(todo[t]) \in Words \ Brackets
         /\ UNCHANGED <<lock, logLock, drawing, panels, depth, quit, sig>>
         /\ \E r : /\ todo' = [todo EXCEPT ![t] = r]
                   /\ \/ \E x : Safe(x) /\ r = x \o Tail(todo[t])
                      \/ r = Log \o Deactivate \o NotArmed(Tail(todo[t]))
<1>1. \A w \in {"monitor", "arm", "deactivate", "off", "stopping", "join", "stopped"} :
        w \in Words \ Brackets
  BY DEF Words, Brackets
<1>2. Safe(<<>>)  BY NoWord
<1>3. CASE MonitorStart(t)
  BY <1>1, <1>2, <1>3 DEF MonitorStart, At, Done, Become
<1>4. CASE Arm(t)
  BY <1>1, <1>2, <1>4 DEF Arm, At, Done, Become
<1>5. CASE DeactivateBegin(t)
  <2> DEFINE x == IF ~ active THEN Log
                  ELSE (IF comm THEN StopComm ELSE <<>>) \o <<"off">> \o Log
  <2>1. Safe(x)
    BY ControllerPrograms, LogSafe
  <2>2. todo' = [todo EXCEPT ![t] = x \o Tail(todo[t])]
    BY <1>5 DEF DeactivateBegin, Become
  <2>3. /\ todo[t] # <<>> /\ Head(todo[t]) = "deactivate"
        /\ UNCHANGED <<lock, logLock, drawing, panels, depth, quit, sig>>
    BY <1>5 DEF DeactivateBegin, At
  <2> HIDE DEF x
  <2> QED  BY <1>1, <2>1, <2>2, <2>3
<1>6. CASE DeactivateEnd(t)
  BY <1>1, <1>2, <1>6 DEF DeactivateEnd, At, Done, Become
<1>7. CASE Stopping(t)
  BY <1>1, <1>2, <1>7 DEF Stopping, At, Done, Become
<1>8. CASE Join(t)
  BY <1>1, <1>2, <1>8 DEF Join, At, Done, Become
<1>9. CASE Stopped(t)
  BY <1>1, <1>2, <1>9 DEF Stopped, At, Done, Become
<1> QED  BY <1>3, <1>4, <1>5, <1>6, <1>7, <1>8, <1>9 DEF Controls

LEMMA OtherControls ==
  ASSUME NEW t \in Others, UiTypeInv, Calm(t), Controls(t)
  PROVE  Calm(t)' /\ Apart(t) /\ UiTypeInv'
<1>1. t \in Threads  BY DEF Others, Threads
<1>2. /\ todo[t] # <<>> /\ Head(todo[t]) \in Words \ Brackets
      /\ UNCHANGED <<lock, logLock, drawing, panels>>
  BY <1>1, ControlSteps
<1>3. PICK r : /\ todo' = [todo EXCEPT ![t] = r]
               /\ \/ \E x : Safe(x) /\ r = x \o Tail(todo[t])
                  \/ r = Log \o Deactivate \o NotArmed(Tail(todo[t]))
  BY <1>1, ControlSteps
<1>4. Nested(todo[t]) /\ Bracketed(todo[t])
  BY DEF Calm
<1>5. Safe(Tail(todo[t])) /\ Outside(todo[t])
  BY <1>2, <1>4, Stepped DEF Safe, Brackets
<1>6. Safe(r)
  <2>1. CASE \E x : Safe(x) /\ r = x \o Tail(todo[t])
    BY <2>1, <1>5, SafeJoined
  <2>2. CASE r = Log \o Deactivate \o NotArmed(Tail(todo[t]))
    <3>1. Safe(NotArmed(Tail(todo[t])))  BY <1>5, NotArmedTidy DEF Safe
    <3> QED  BY <2>2, <3>1, LogSafe, ControllerPrograms, SafeJoined
  <2> QED  BY <1>3, <2>1, <2>2
<1>7. Calm(t)' /\ Apart(t)
  BY <1>2, <1>3, <1>5, <1>6, OtherMoves DEF UiTypeInv
<1> QED  BY <1>2, <1>3, <1>7 DEF UiTypeInv

LEMMA OtherBegins ==
  ASSUME NEW t \in Others, UiTypeInv, Calm(t), Resting(t), NEW r, Safe(r), Begin(t, r),
         UNCHANGED <<panels, lock, logLock, drawing>>
  PROVE  Calm(t)' /\ Apart(t) /\ UiTypeInv'
<1>1. Outside(todo[t])
  BY NoWord DEF Resting, Safe, Tidy
<1>2. Calm(t)' /\ Apart(t)
  BY <1>1, OtherMoves DEF UiTypeInv, Begin
<1> QED  BY <1>2 DEF UiTypeInv, Begin

LEMMA CallbackSteps ==
  ASSUME UiTypeInv, Calm("callback"), Instruction("callback") \/ TimerExpires \/ AfeFlags
  PROVE  Calm("callback")' /\ Apart("callback") /\ UiTypeInv' /\ sig' = sig
<1>1. "callback" \in Others /\ "callback" \in Threads  BY DEF Others, Threads
<1>2. CASE Instruction("callback")
  <2>1. CASE Controls("callback")
    BY <1>1, <2>1, OtherControls, ControlSteps
  <2>2. CASE \/ Lock("callback") \/ Unlock("callback") \/ LockLog("callback")
             \/ UnlockLog("callback") \/ Draw("callback") \/ Drawn("callback")
    <3>1. sig' = sig  BY <2>2 DEF Lock, Unlock, LockLog, UnlockLog, Draw, Drawn
    <3> QED  BY <1>1, <2>2, <3>1, OtherBrackets
  <2> QED  BY <1>2, <2>1, <2>2 DEF Instruction, Controls
<1>3. CASE TimerExpires
  <2> DEFINE r == IF ~ comm THEN StartComm \o <<"arm">>
                  ELSE IF timing = "periodic" THEN StopComm \o <<"arm">>
                  ELSE StopComm \o Deactivate
  <2>1. Safe(r)  BY ControllerPrograms
  <2>2. /\ Resting("callback") /\ Begin("callback", r)
        /\ UNCHANGED <<panels, lock, logLock, drawing, sig>>
    BY <1>3 DEF TimerExpires
  <2> HIDE DEF r
  <2> QED  BY <1>1, <2>1, <2>2, OtherBegins
<1>4. CASE AfeFlags
  BY <1>1, <1>4, OtherBegins, WriteSafe DEF AfeFlags, KeepAllBut
<1> QED  BY <1>2, <1>3, <1>4

LEMMA MonitorSteps ==
  ASSUME UiTypeInv, Calm("monitor"), Instruction("monitor") \/ MonitorTick \/ MonitorEnds
  PROVE  Calm("monitor")' /\ Apart("monitor") /\ UiTypeInv' /\ sig' = sig
<1>1. "monitor" \in Others /\ "monitor" \in Threads  BY DEF Others, Threads
<1>2. CASE Instruction("monitor")
  <2>1. CASE Controls("monitor")
    BY <1>1, <2>1, OtherControls, ControlSteps
  <2>2. CASE \/ Lock("monitor") \/ Unlock("monitor") \/ LockLog("monitor")
             \/ UnlockLog("monitor") \/ Draw("monitor") \/ Drawn("monitor")
    <3>1. sig' = sig  BY <2>2 DEF Lock, Unlock, LockLog, UnlockLog, Draw, Drawn
    <3> QED  BY <1>1, <2>2, <3>1, OtherBrackets
  <2> QED  BY <1>2, <2>1, <2>2 DEF Instruction, Controls
<1>3. CASE MonitorTick
  BY <1>1, <1>3, OtherBegins, WriteSafe DEF MonitorTick, KeepAllBut
<1>4. CASE MonitorEnds
  BY <1>1, <1>4 DEF MonitorEnds, Calm, Apart, UiTypeInv
<1> QED  BY <1>2, <1>3, <1>4

(***************************************************************************)
(* The steps of the UI thread.                                             *)
(***************************************************************************)
LEMMA LoopWords ==
  ASSUME NEW s \in InLoop \union AtKey
  PROVE  s \in Seq(KeyWords)
<1>1. /\ <<"leave">> \in Seq(KeyWords) /\ <<"relock", "leave">> \in Seq(KeyWords)
      /\ <<"enter", "key", "leave">> \in Seq(KeyWords) /\ <<"key", "leave">> \in Seq(KeyWords)
      /\ <<"leave", "action", "relock", "leave">> \in Seq(KeyWords)
      /\ <<"action", "relock", "leave">> \in Seq(KeyWords)
  BY DEF KeyWords
<1>2. <<>> \in Seq(KeyWords)
  OBVIOUS
<1> QED  BY <1>1, <1>2 DEF InLoop, AtKey

LEMMA UiSplit ==
  ASSUME NEW q, NEW s \in InLoop \union AtKey, Nested(q)
  PROVE  /\ q = <<>> => q \o s = s
         /\ q # <<>> => q \o s # <<>> /\ Head(q \o s) = Head(q) /\ Tail(q \o s) = Tail(q) \o s
         /\ q # <<>> => \A x : Nested(x) => x \o (Tail(q) \o s) = (x \o Tail(q)) \o s
         /\ s # <<>> => Head(s) \in KeyWords
<1> DEFINE S == Words \union KeyWords
<1>1. s \in Seq(KeyWords)  BY LoopWords
<1>2. q \in Seq(Words)  BY DEF Nested
<1>3. s \in Seq(S) /\ q \in Seq(S)
  BY <1>1, <1>2
<1>4. q = <<>> => q \o s = s
  BY <1>3
<1>5. q # <<>> => q \o s # <<>> /\ Head(q \o s) = Head(q) /\ Tail(q \o s) = Tail(q) \o s
  BY <1>3
<1>6. ASSUME NEW x, Nested(x), q # <<>> PROVE x \o (Tail(q) \o s) = (x \o Tail(q)) \o s
  <2>1. x \in Seq(S) /\ Tail(q) \in Seq(S)
    BY <1>3, <1>6 DEF Nested
  <2> QED  BY <1>3, <2>1
<1>7. s # <<>> => Head(s) \in KeyWords
  BY <1>1
<1> QED  BY <1>4, <1>5, <1>6, <1>7

LEMMA ExitHead == Exit # <<>> /\ Head(Exit) = "lock_log" /\ Nested(Exit) /\ Exit \o <<>> = Exit
<1>1. Exit = Log \o <<"terminate">> /\ Log = <<"lock_log">> \o Write \o <<"unlock_log">>
  BY DEF Exit, Log
<1>2. Write \in Seq(Words)  BY Written
<1>3. <<"lock_log">> \in Seq(Words) /\ <<"unlock_log">> \in Seq(Words)
      /\ <<"terminate">> \in Seq(Words)
  BY DEF Words
<1>4. Log \in Seq(Words) /\ Log # <<>> /\ Head(Log) = "lock_log"
  BY <1>1, <1>2, <1>3
<1>5. Nested(Exit)  BY ControllerPrograms DEF Safe, Tidy
<1>6. Exit \in Seq(Words)  BY <1>5 DEF Nested
<1> DEFINE w == <<"terminate">>
<1>7. Exit = Log \o w /\ w \in Seq(Words)
  BY <1>1, <1>3
<1> HIDE DEF w
<1>8. Exit # <<>> /\ Head(Exit) = "lock_log"
  BY <1>4, <1>7
<1> QED  BY <1>5, <1>6, <1>8

\* A step that leaves the locks and the screen alone, outside of any bracket.
LEMMA UiMoves ==
  ASSUME DOMAIN todo = Threads, NEW q, NEW s, Core(q, s), Outside(q), ~ Stuck(q, s),
         NEW x, NEW y, Tidy(x), y \in InLoop \/ (y \in AtKey /\ x = <<>>),
         y = <<>> => Bracketed(x), LoopLocked(y) => LoopLocked(s),
         todo' = [todo EXCEPT !["ui"] = x \o y], UNCHANGED <<lock, logLock, drawing, sig>>
  PROVE  UiCalm' /\ Apart("ui")
<1>1. "ui" \in Threads  BY DEF Threads
<1>2. /\ todo'["ui"] = x \o y /\ DOMAIN todo' = Threads
      /\ \A u \in Threads \ {"ui"} : todo'[u] = todo[u]
  BY <1>1
<1>3. Apart("ui")
  BY <1>2 DEF Apart
<1>4. /\ Nested(x) /\ ~ InBlock(x) /\ ~ InLog(x)
      /\ ~ InBlock(q) /\ ~ InLog(q) /\ ~ Says(q, 1, "drawn")
  BY DEF Tidy, Outside
<1>5. Regular(q, s) \/ KeepsLock(q, s)
  BY DEF Core
<1>6. CASE Regular(q, s)
  <2>1. Regular(x, y)'
    BY <1>4, <1>6 DEF Regular
  <2>2. Core(x, y)'
    BY <1>4, <2>1 DEF Core
  <2> QED  BY <1>2, <1>3, <2>2 DEF UiCalm
<1>7. CASE KeepsLock(q, s)
  <2>1. KeepsLock(x, y)'
    BY <1>4, <1>7 DEF KeepsLock
  <2>2. Core(x, y)'
    BY <1>4, <2>1 DEF Core
  <2> QED  BY <1>2, <1>3, <2>2 DEF UiCalm
<1> QED  BY <1>5, <1>6, <1>7

\* An instruction outside of any bracket, which leads to the program x.
LEMMA UiEffect ==
  ASSUME DOMAIN todo = Threads, UiCalm, todo["ui"] # <<>>,
         Head(todo["ui"]) \in Words \ Brackets, NEW x, Tidy(x),
         Bracketed(x) \/ Head(todo["ui"]) = "close_all",
         todo' = [todo EXCEPT !["ui"] = x \o Tail(todo["ui"])],
         UNCHANGED <<lock, logLock, drawing, sig>>
  PROVE  UiCalm' /\ Apart("ui")
<1>1. PICK q, s : todo["ui"] = q \o s /\ Core(q, s)
  BY DEF UiCalm
<1>2. s \in InLoop \union AtKey /\ Nested(q)
  BY <1>1 DEF Core
<1>3. q # <<>>
  <2>1. Words \intersect KeyWords = {}  BY DEF Words, KeyWords
  <2>2. q = <<>> => q \o s = s
    BY <1>2, UiSplit
  <2>3. s # <<>> => Head(s) \in KeyWords
    BY <1>2, UiSplit
  <2> QED  BY <1>1, <2>1, <2>2, <2>3
<1>4. Head(todo["ui"]) = Head(q) /\ Tail(todo["ui"]) = Tail(q) \o s
      /\ x \o (Tail(q) \o s) = (x \o Tail(q)) \o s
  <2>1. Head(q \o s) = Head(q) /\ Tail(q \o s) = Tail(q) \o s
    BY <1>2, <1>3, UiSplit
  <2>2. Nested(x)  BY DEF Tidy
  <2>3. x \o (Tail(q) \o s) = (x \o Tail(q)) \o s
    BY <1>2, <1>3, <2>2, UiSplit
  <2> QED  BY <1>1, <2>1, <2>3
<1>5. Tidy(Tail(q)) /\ Outside(q) /\ (Bracketed(q) => Bracketed(Tail(q)))
      /\ Says(q, 1, Head(q))
  BY <1>2, <1>3, <1>4, Stepped DEF Brackets
<1>6. Tidy(x \o Tail(q))
  BY <1>5, TidyJoined
<1>7. ASSUME s = <<>> PROVE Bracketed(x \o Tail(q))
  <2>1. Bracketed(q)  BY <1>1, <1>7 DEF Core
  <2>2. Head(q) # "close_all"  BY <2>1, <1>5 DEF Bracketed, Says
  <2>3. Bracketed(x) /\ Bracketed(Tail(q)) /\ Nested(x)  BY <1>4, <1>5, <2>1, <2>2 DEF Tidy
  <2> QED  BY <1>5, <2>3, Joined
<1>8. ~ Stuck(q, s)
  BY <1>4, ExitHead DEF Stuck, Brackets
<1>9. s \in InLoop
  BY <1>1, <1>3 DEF Core
<1>10. todo' = [todo EXCEPT !["ui"] = (x \o Tail(q)) \o s]
  BY <1>4
<1> QED  BY <1>1, <1>5, <1>6, <1>7, <1>8, <1>9, <1>10, UiMoves

LEMMA UiControls ==
  ASSUME UiTypeInv, UiCalm, Controls("ui")
  PROVE  UiCalm' /\ Apart("ui") /\ UiTypeInv'
<1>1. "ui" \in Threads  BY DEF Threads
<1>2. /\ todo["ui"] # <<>> /\ Head(todo["ui"]) \in Words \ Brackets
      /\ UNCHANGED <<lock, logLock, drawing, panels, sig>>
  BY <1>1, ControlSteps
<1>3. PICK r : /\ todo' = [todo EXCEPT !["ui"] = r]
               /\ \/ \E x : Safe(x) /\ r = x \o Tail(todo["ui"])
                  \/ r = Log \o Deactivate \o NotArmed(Tail(todo["ui"]))
  BY <1>1, ControlSteps
<1>4. DOMAIN todo = Threads  BY DEF UiTypeInv
<1>5. UiTypeInv'
  BY <1>2, <1>3 DEF UiTypeInv
<1>6. CASE \E x : Safe(x) /\ r = x \o Tail(todo["ui"])
  <2>1. PICK x : Safe(x) /\ r = x \o Tail(todo["ui"])  BY <1>6
  <2>2. Tidy(x) /\ Bracketed(x)  BY <2>1 DEF Safe
  <2> QED  BY <1>2, <1>3, <1>4, <1>5, <2>1, <2>2, UiEffect
<1>7. CASE r = Log \o Deactivate \o NotArmed(Tail(todo["ui"]))
  <2>1. PICK q, s : todo["ui"] = q \o s /\ Core(q, s)
    BY DEF UiCalm
  <2>2. s \in InLoop \union AtKey /\ Nested(q)
    BY <2>1 DEF Core
  <2>3. q # <<>>
    <3>1. Words \intersect KeyWords = {}  BY DEF Words, KeyWords
    <3> QED  BY <1>2, <2>1, <2>2, <3>1, UiSplit, ZenonT(40)
  <2>4. Head(todo["ui"]) = Head(q) /\ Tail(todo["ui"]) = Tail(q) \o s
    BY <2>1, <2>2, <2>3, UiSplit
  <2>5. Tidy(Tail(q)) /\ Outside(q) /\ (Bracketed(q) => Bracketed(Tail(q)))
    BY <1>2, <2>2, <2>3, <2>4, Stepped DEF Brackets
  <2> DEFINE a == Tail(q)
             z == NotArmed(a)
             x == Log \o Deactivate \o z
  <2>6. NotArmed(a \o s) = z \o s
    <3>1. Nested(a)  BY <2>5 DEF Tidy
    <3>2. CASE a = <<>>
      <4>1. a \o s = s /\ z = <<>> /\ <<>> \o s = s
        BY <2>2, <3>1, <3>2, UiSplit DEF NotArmed
      <4>2. s # <<>> => Head(s) # "arm"
        BY <2>2, <3>1, UiSplit DEF KeyWords
      <4>3. NotArmed(s) = s
        BY <4>2 DEF NotArmed
      <4> QED  BY <4>1, <4>3
    <3>3. CASE a # <<>>
      <4>1. a \o s # <<>> /\ Head(a \o s) = Head(a) /\ Tail(a \o s) = Tail(a) \o s
        BY <2>2, <3>1, <3>3, UiSplit
      <4> HIDE DEF a
      <4> QED  BY <3>3, <4>1 DEF NotArmed
    <3> QED  BY <3>2, <3>3
  <2>7. Tidy(z) /\ (Bracketed(a) => Bracketed(z))
    BY <2>5, NotArmedTidy
  <2> HIDE DEF a, z
  <2>8. Tidy(x) /\ (Bracketed(z) => Bracketed(x))
    <3>1. Safe(Log \o Deactivate)  BY ControllerPrograms
    <3>2. x = (Log \o Deactivate) \o z  OBVIOUS
    <3> QED  BY <2>7, <3>1, <3>2, Joined, TidyJoined DEF Safe, Tidy
  <2>9. r = x \o s
    <3> DEFINE S == Words \union KeyWords
    <3>1. s \in Seq(S) /\ z \in Seq(S) /\ Log \in Seq(S) /\ Deactivate \in Seq(S)
      <4>1. s \in Seq(KeyWords)  BY <2>2, LoopWords
      <4>2. z \in Seq(Words) /\ Log \in Seq(Words) /\ Deactivate \in Seq(Words)
        BY <2>7, LogSafe, ControllerPrograms DEF Safe, Tidy, Nested
      <4> QED  BY <4>1, <4>2
    <3>2. r = Log \o Deactivate \o (z \o s)
      BY <1>7, <2>4, <2>6 DEF a
    <3> HIDE DEF S
    <3> QED  BY <3>1, <3>2, SMTT(30)
  <2> HIDE DEF x
  <2>10. s \in InLoop /\ (s = <<>> => Bracketed(q))
    BY <2>1, <2>3 DEF Core
  <2>11. ~ Stuck(q, s)
    BY <1>2, <2>4, ExitHead DEF Stuck, Brackets
  <2>12. s = <<>> => Bracketed(x)
    BY <2>5, <2>7, <2>8, <2>10 DEF a
  <2>13. todo' = [todo EXCEPT !["ui"] = x \o s]
    BY <1>3, <2>9
  <2>14. UiCalm' /\ Apart("ui")
    BY <1>2, <1>4, <2>1, <2>5, <2>8, <2>10, <2>11, <2>12, <2>13, UiMoves
  <2> QED  BY <1>5, <2>14
<1> QED  BY <1>3, <1>6, <1>7

\* The other instructions of the UI thread.
UiActs ==
  \/ \E kind \in {"menu", "dialog", "list"} : PushPanel(kind)
  \/ Pop \/ Count \/ Uncount \/ CloseAll \/ QuitLoop \/ Activate \/ Activated
  \/ Terminate \/ Release
LEMMA UiActsSteps ==
  ASSUME UiActs
  PROVE  /\ todo["ui"] # <<>> /\ Head(todo["ui"]) \in Words \ Brackets
         /\ UNCHANGED <<lock, logLock, drawing, sig>>
         /\ \E x : /\ Tidy(x) /\ (Bracketed(x) \/ Head(todo["ui"]) = "close_all")
                   /\ todo' = [todo EXCEPT !["ui"] = x \o Tail(todo["ui"])]
<1>1. \A w \in {"push_menu", "push_dialog", "push_list", "pop", "count", "uncount", "close_all",
               "quit", "activate", "on", "terminate", "release"} : w \in Words \ Brackets
  BY DEF Words, Brackets
<1>2. Tidy(<<>>) /\ Bracketed(<<>>)  BY NoWord DEF Safe
<1>3. CASE \E kind \in {"menu", "dialog", "list"} : PushPanel(kind)
  <2>1. PICK kind \in {"menu", "dialog", "list"} : PushPanel(kind)  BY <1>3
  <2>2. PushOf[kind] \in {"push_menu", "push_dialog", "push_list"}
    BY DEF PushOf
  <2> QED  BY <1>1, <1>2, <2>1, <2>2 DEF PushPanel, At, Done, Become
<1>4. CASE Pop
  BY <1>1, <1>2, <1>4 DEF Pop, At, Done, Become
<1>5. CASE Count \/ Uncount
  BY <1>1, <1>2, <1>5 DEF Count, Uncount, At, Done, Become
<1>6. CASE CloseAll
  <2> DEFINE x == IF depth > 0 THEN ClosePanel \o <<"uncount", "close_all">> ELSE <<>>
  <2>1. Tidy(x)
    <3>1. Tidy(ClosePanel)  BY PaintTidy, Words1, TidyJoined DEF ClosePanel, Safe
    <3> QED  BY <1>2, <3>1, Words1, TidyJoined
  <2>2. /\ todo["ui"] # <<>> /\ Head(todo["ui"]) = "close_all"
        /\ todo' = [todo EXCEPT !["ui"] = x \o Tail(todo["ui"])]
        /\ UNCHANGED <<lock, logLock, drawing, sig>>
    BY <1>6 DEF CloseAll, At, Become
  <2> HIDE DEF x
  <2> QED  BY <1>1, <2>1, <2>2
<1>7. CASE QuitLoop
  BY <1>1, <1>2, <1>7 DEF QuitLoop, At, Done, Become
<1>8. CASE Activate
  <2> DEFINE x == Log \o (IF active THEN <<>> ELSE <<"on">>)
  <2>1. Tidy(x) /\ Bracketed(x)
    BY ControllerPrograms DEF Safe
  <2>2. /\ todo["ui"] # <<>> /\ Head(todo["ui"]) = "activate"
        /\ todo' = [todo EXCEPT !["ui"] = x \o Tail(todo["ui"])]
        /\ UNCHANGED <<lock, logLock, drawing, sig>>
    BY <1>8 DEF Activate, At, Become
  <2> HIDE DEF x
  <2> QED  BY <1>1, <2>1, <2>2
<1>9. CASE Activated
  <2> DEFINE x == IF timing' = "periodic" THEN <<>> ELSE StartComm
  <2>1. Tidy(x) /\ Bracketed(x)
    BY <1>2, ControllerPrograms DEF Safe
  <2>2. /\ todo["ui"] # <<>> /\ Head(todo["ui"]) = "on"
        /\ todo' = [todo EXCEPT !["ui"] = x \o Tail(todo["ui"])]
        /\ UNCHANGED <<lock, logLock, drawing, sig>>
    BY <1>9 DEF Activated, At, Become
  <2> HIDE DEF x
  <2> QED  BY <1>1, <2>1, <2>2
<1>10. CASE Terminate
  <2> DEFINE x == (IF active THEN Deactivate ELSE <<>>) \o <<"release">>
  <2>1. Tidy(x) /\ Bracketed(x)
    BY ControllerPrograms DEF Safe
  <2>2. /\ todo["ui"] # <<>> /\ Head(todo["ui"]) = "terminate"
        /\ todo' = [todo EXCEPT !["ui"] = x \o Tail(todo["ui"])]
        /\ UNCHANGED <<lock, logLock, drawing, sig>>
    BY <1>10 DEF Terminate, At, Become
  <2> HIDE DEF x
  <2> QED  BY <1>1, <2>1, <2>2
<1>11. CASE Release
  BY <1>1, <1>2, <1>11 DEF Release, At, Done, Become
<1> QED
  BY <1>3, <1>4, <1>5, <1>6, <1>7, <1>8, <1>9, <1>10, <1>11 DEF UiActs

LEMMA Stacked ==
  ASSUME NEW S, NEW p \in Seq(S), p # <<>>
  PROVE  /\ \A k \in S : Append(p, k) \in Seq(S) /\ Append(p, k) # <<>>
         /\ Len(p) # 1 => LET f == SubSeq(p, 1, Len(p) - 1) IN f \in Seq(S) /\ f # <<>>
<1>1. \A k \in S : Append(p, k) \in Seq(S) /\ Append(p, k) # <<>>
  OBVIOUS
<1>2. ASSUME Len(p) # 1 PROVE LET f == SubSeq(p, 1, Len(p) - 1) IN f \in Seq(S) /\ f # <<>>
  <2> DEFINE f == SubSeq(p, 1, Len(p) - 1)
  <2>1. Len(p) \in Nat /\ Len(p) > 1
    BY <1>2
  <2>2. f \in Seq(S)
    BY <2>1
  <2>3. Len(f) = Len(p) - 1
    BY <2>1
  <2> HIDE DEF f
  <2>4. f # <<>>
    BY <2>1, <2>3
  <2> QED  BY <2>2, <2>4 DEF f
<1> QED  BY <1>1, <1>2

LEMMA PanelsKept ==
  ASSUME UiTypeInv, UiActs
  PROVE  panels' \in Seq({"main", "menu", "dialog", "list"}) /\ panels' # <<>>
<1> DEFINE K == {"main", "menu", "dialog", "list"}
<1>1. panels \in Seq(K) /\ panels # <<>>  BY DEF UiTypeInv
<1>2. \/ \E kind \in K : panels' = Append(panels, kind)
      \/ Len(panels) # 1 /\ panels' = SubSeq(panels, 1, Len(panels) - 1)
      \/ panels' = panels
  BY DEF UiActs, PushPanel, Pop, Count, Uncount, CloseAll, QuitLoop, Activate, Activated,
         Terminate, Release
<1> HIDE DEF K
<1>3. panels' \in Seq(K) /\ panels' # <<>>
  BY <1>1, <1>2, Stacked
<1> QED  BY <1>3 DEF K

LEMMA UiActsKeep ==
  ASSUME UiTypeInv, UiCalm, UiActs
  PROVE  UiCalm' /\ Apart("ui") /\ UiTypeInv'
<1>1. /\ todo["ui"] # <<>> /\ Head(todo["ui"]) \in Words \ Brackets
      /\ UNCHANGED <<lock, logLock, drawing, sig>>
  BY UiActsSteps
<1>2. PICK x : /\ Tidy(x) /\ (Bracketed(x) \/ Head(todo["ui"]) = "close_all")
               /\ todo' = [todo EXCEPT !["ui"] = x \o Tail(todo["ui"])]
  BY UiActsSteps
<1>3. DOMAIN todo = Threads  BY DEF UiTypeInv
<1>4. UiCalm' /\ Apart("ui")
  BY <1>1, <1>2, <1>3, UiEffect
<1> QED  BY <1>1, <1>2, <1>4, PanelsKept DEF UiTypeInv

\* The rest of the loop of the keys, when no program is left before it.
LEMMA LoopSteps ==
  /\ <<"enter", "key", "leave">> # <<>> /\ Head(<<"enter", "key", "leave">>) = "enter"
  /\ Tail(<<"enter", "key", "leave">>) = <<"key", "leave">>
  /\ <<"key", "leave">> # <<>> /\ Head(<<"key", "leave">>) = "key"
  /\ Tail(<<"key", "leave">>) = <<"leave">>
  /\ <<"leave">> # <<>> /\ Head(<<"leave">>) = "leave" /\ Tail(<<"leave">>) = <<>>
  /\ <<"leave", "action", "relock", "leave">> # <<>>
  /\ Head(<<"leave", "action", "relock", "leave">>) = "leave"
  /\ Tail(<<"leave", "action", "relock", "leave">>) = <<"action", "relock", "leave">>
  /\ Head(<<"action", "relock", "leave">>) = "action"
  /\ Tail(<<"action", "relock", "leave">>) = <<"relock", "leave">>
  /\ Head(<<"relock", "leave">>) = "relock" /\ Tail(<<"relock", "leave">>) = <<"leave">>
  /\ <<"leave", "action", "relock">> \o <<"leave">> = <<"leave", "action", "relock", "leave">>
<1>1. /\ <<"enter", "key", "leave">> # <<>> /\ Head(<<"enter", "key", "leave">>) = "enter"
      /\ Tail(<<"enter", "key", "leave">>) = <<"key", "leave">>
  OBVIOUS
<1>2. /\ <<"key", "leave">> # <<>> /\ Head(<<"key", "leave">>) = "key"
      /\ Tail(<<"key", "leave">>) = <<"leave">>
  OBVIOUS
<1>3. <<"leave">> # <<>> /\ Head(<<"leave">>) = "leave" /\ Tail(<<"leave">>) = <<>>
  OBVIOUS
<1>4. /\ <<"leave", "action", "relock", "leave">> # <<>>
      /\ Head(<<"leave", "action", "relock", "leave">>) = "leave"
      /\ Tail(<<"leave", "action", "relock", "leave">>) = <<"action", "relock", "leave">>
  OBVIOUS
<1>5. /\ Head(<<"action", "relock", "leave">>) = "action"
      /\ Tail(<<"action", "relock", "leave">>) = <<"relock", "leave">>
  OBVIOUS
<1>6. Head(<<"relock", "leave">>) = "relock" /\ Tail(<<"relock", "leave">>) = <<"leave">>
  OBVIOUS
<1>7. <<"leave", "action", "relock">> \o <<"leave">> = <<"leave", "action", "relock", "leave">>
  <2> DEFINE p == <<"leave", "action", "relock">>
             l == <<"leave">>
             r == p \o l
             t == <<"leave", "action", "relock", "leave">>
  <2>1. /\ p \in Seq(KeyWords) /\ Len(p) = 3
        /\ p[1] = "leave" /\ p[2] = "action" /\ p[3] = "relock"
    BY DEF KeyWords
  <2>2. l \in Seq(KeyWords) /\ Len(l) = 1 /\ l[1] = "leave"
    BY DEF KeyWords
  <2>3. /\ t \in Seq(KeyWords) /\ Len(t) = 4
        /\ t[1] = "leave" /\ t[2] = "action" /\ t[3] = "relock" /\ t[4] = "leave"
    BY DEF KeyWords
  <2> HIDE DEF p, l, t
  <2>4. /\ r \in Seq(KeyWords) /\ Len(r) = Len(p) + Len(l)
        /\ \A i \in 1..(Len(p) + Len(l)) : r[i] = IF i <= Len(p) THEN p[i] ELSE l[i - Len(p)]
    BY <2>1, <2>2, ConcatProperties
  <2> HIDE DEF r
  <2>5. r[1] = "leave" /\ r[2] = "action" /\ r[3] = "relock" /\ r[4] = "leave" /\ Len(r) = 4
    BY <2>1, <2>2, <2>4
  <2>6. \A i \in 1..Len(r) : r[i] = t[i]
    BY <2>3, <2>5
  <2>7. r = t
    BY <2>3, <2>4, <2>5, <2>6, SeqEqual
  <2> QED  BY <2>7 DEF p, l, r, t
<1> QED  BY <1>1, <1>2, <1>3, <1>4, <1>5, <1>6, <1>7

UiBrackets ==
  Lock("ui") \/ Unlock("ui") \/ LockLog("ui") \/ UnlockLog("ui") \/ Draw("ui") \/ Drawn("ui")
LEMMA UiBracketsKeep ==
  ASSUME UiTypeInv, UiCalm, UiBrackets
  PROVE  UiCalm' /\ Apart("ui") /\ UiTypeInv'
<1>1. PICK q, s : todo["ui"] = q \o s /\ Core(q, s)
  BY DEF UiCalm
<1>2. s \in InLoop \union AtKey /\ Nested(q)
  BY <1>1 DEF Core
<1>3. "ui" \in Threads /\ "ui" # "none"  BY DEF Threads
<1>4. /\ todo["ui"] # <<>> /\ Head(todo["ui"]) \in Brackets \union KeyWords
      /\ todo' = [todo EXCEPT !["ui"] = <<>> \o Tail(todo["ui"])] /\ UNCHANGED <<panels, sig>>
  BY DEF UiBrackets, Lock, Unlock, LockLog, UnlockLog, Draw, Drawn, At, Done, Become, Brackets,
         KeyWords
<1>5. /\ DOMAIN todo = Threads /\ lock = [owner |-> lock.owner, count |-> lock.count]
      /\ lock.owner \in Threads \union {"none"} /\ lock.count \in Nat
      /\ lock.owner = "none" <=> lock.count = 0
      /\ panels' \in Seq({"main", "menu", "dialog", "list"}) /\ panels' # <<>>
      /\ drawing \subseteq Threads
  BY <1>4 DEF UiTypeInv
<1>6. DOMAIN todo' = Threads /\ \A u \in Threads \ {"ui"} : todo'[u] = todo[u]
  BY <1>3, <1>4, <1>5
\* In the middle of the program.
<1>7. CASE q # <<>>
  <2> DEFINE r == Tail(q)
  <2>1. /\ Head(todo["ui"]) = Head(q) /\ Tail(todo["ui"]) = r \o s
    BY <1>1, <1>2, <1>7, UiSplit
  <2>2. /\ Nested(r) /\ Head(q) \notin KeyWords
        /\ Bracketed(q) => Bracketed(r)
        /\ Head(q) \notin {"lock", "unlock"} => (InBlock(r) <=> InBlock(q))
        /\ Head(q) \notin {"lock_log", "unlock_log"} => (InLog(r) <=> InLog(q))
        /\ Says(r, 1, "drawn") <=> Head(q) = "draw"
        /\ Head(q) = "lock" => ~ InBlock(q) /\ InBlock(r)
        /\ Head(q) = "unlock" => InBlock(q) /\ ~ InBlock(r)
        /\ Head(q) = "lock_log" => ~ InLog(q) /\ InLog(r)
        /\ Head(q) = "unlock_log" => InLog(q) /\ ~ InLog(r)
    BY <1>2, <1>7, Stepped
  <2>3. Says(q, 1, "drawn") => Head(q) = "drawn"
    BY <1>2, <1>7 DEF Says, Nested
  <2>4. todo'["ui"] = r \o s
    <3>1. <<>> \o (r \o s) = r \o s
      <4>1. s \in Seq(KeyWords) /\ r \in Seq(Words)  BY <1>2, <2>2, LoopWords DEF Nested
      <4>2. s \in Seq(Words \union KeyWords) /\ r \in Seq(Words \union KeyWords)  BY <4>1
      <4> HIDE DEF r
      <4> QED  BY <4>2
    <3> QED  BY <1>3, <1>4, <1>5, <2>1, <3>1
  <2>5. s \in InLoop /\ (s = <<>> => Bracketed(r)) /\ (InLog(q) => logLock = "ui")
    BY <1>1, <1>7, <2>2 DEF Core
  <2> HIDE DEF r
  <2>6. SUFFICES
          /\ InLog(r) => logLock' = "ui"
          /\ Regular(r, s)' \/ KeepsLock(r, s)' \/ Stuck(r, s)'
          /\ \A u \in Threads \ {"ui"} : u \in drawing' <=> u \in drawing
          /\ lock' = lock \/ (lock.owner \in {"none", "ui"} /\ lock'.owner \in {"none", "ui"})
          /\ logLock' = logLock \/ (logLock \in {"none", "ui"} /\ logLock' \in {"none", "ui"})
          /\ lock' \in [owner : Threads \union {"none"}, count : Nat]
          /\ lock'.owner = "none" <=> lock'.count = 0
          /\ drawing' \subseteq Threads
    <3>1. UiTypeInv'  BY <1>5, <1>6, <2>6 DEF UiTypeInv
    <3>2. Apart("ui")  BY <1>6, <2>6 DEF Apart
    <3>3. Core(r, s)'  BY <2>2, <2>5, <2>6 DEF Core
    <3> QED  BY <2>4, <3>1, <3>2, <3>3 DEF UiCalm
  <2>7. Regular(q, s) \/ KeepsLock(q, s) \/ Stuck(q, s)
    BY <1>1 DEF Core
  <2>8. Stuck(q, s) => Head(q) = "lock_log" /\ logLock = "ui"
    BY ExitHead DEF Stuck
  <2>9. CASE Lock("ui")
    <3>1. /\ Head(q) = "lock" /\ lock.owner \in {"none", "ui"}
          /\ lock' = [owner |-> "ui", count |-> lock.count + 1]
          /\ UNCHANGED <<logLock, drawing, sig>>
      BY <2>1, <2>2, <2>9 DEF Lock, At, KeyWords
    <3>2. lock'.owner = "ui" /\ lock'.count = lock.count + 1  BY <3>1
    <3>3. lock' \in [owner : Threads \union {"none"}, count : Nat] /\ lock'.count # 0
      BY <3>1, <1>3, <1>5
    <3>4. CASE Regular(q, s)
      <4>1. Regular(r, s)'
        BY <1>3, <1>5, <2>2, <2>3, <3>1, <3>2, <3>4 DEF Regular
      <4> QED  BY <1>3, <1>5, <2>2, <2>5, <3>1, <3>2, <3>3, <4>1
    <3>5. CASE KeepsLock(q, s)
      <4>1. KeepsLock(r, s)'
        BY <1>3, <1>5, <2>2, <3>1, <3>2, <3>5 DEF KeepsLock
      <4> QED  BY <1>3, <1>5, <2>2, <2>5, <3>1, <3>2, <3>3, <4>1
    <3> QED  BY <2>7, <2>8, <3>1, <3>4, <3>5
  <2>10. CASE Unlock("ui")
    <3>1. /\ Head(q) = "unlock"
          /\ lock' = IF lock.count = 1 THEN [owner |-> "none", count |-> 0]
                     ELSE [lock EXCEPT !.count = @ - 1]
          /\ UNCHANGED <<logLock, drawing, sig>>
      BY <2>1, <2>2, <2>10 DEF Unlock, At, KeyWords
    <3>2. lock.owner = "ui" /\ lock.count >= 1
      BY <1>3, <1>5, <2>2, <2>7, <2>8, <3>1 DEF Regular, KeepsLock
    <3>3. /\ lock' \in [owner : Threads \union {"none"}, count : Nat]
          /\ lock'.count = lock.count - 1
          /\ lock.count = 1 => lock'.owner = "none"
          /\ lock.count # 1 => lock'.owner = "ui"
      <4>1. CASE lock.count = 1  BY <3>1, <3>2, <4>1
      <4>2. CASE lock.count # 1
        <5>1. lock' = [owner |-> "ui", count |-> lock.count - 1]
          BY <1>5, <3>1, <3>2, <4>2
        <5> QED  BY <1>3, <1>5, <3>2, <4>2, <5>1
      <4> QED  BY <4>1, <4>2
    <3>4. lock'.owner = "none" <=> lock'.count = 0
      BY <1>3, <1>5, <3>2, <3>3
    <3>5. lock'.owner \in {"none", "ui"}
      BY <3>3
    <3>6. CASE Regular(q, s)
      <4>1. Regular(r, s)'
        BY <1>3, <1>5, <2>2, <2>3, <3>1, <3>2, <3>3, <3>6 DEF Regular
      <4> QED  BY <1>5, <2>2, <2>5, <3>1, <3>2, <3>3, <3>4, <3>5, <4>1
    <3>7. CASE KeepsLock(q, s)
      <4>1. KeepsLock(r, s)'
        BY <1>3, <1>5, <2>2, <3>1, <3>2, <3>3, <3>7 DEF KeepsLock
      <4> QED  BY <1>5, <2>2, <2>5, <3>1, <3>2, <3>3, <3>4, <3>5, <4>1
    <3> QED  BY <2>7, <2>8, <3>1, <3>6, <3>7
  <2>11. CASE LockLog("ui")
    <3>1. /\ Head(q) = "lock_log" /\ logLock = "none" /\ logLock' = "ui"
          /\ UNCHANGED <<lock, drawing, sig>>
      BY <2>1, <2>11 DEF LockLog, At
    <3>2. Regular(r, s)' \/ KeepsLock(r, s)'
      BY <1>3, <2>2, <2>3, <2>7, <2>8, <3>1 DEF Regular, KeepsLock
    <3> QED  BY <1>3, <1>5, <3>1, <3>2
  <2>12. CASE UnlockLog("ui")
    <3>1. /\ Head(q) = "unlock_log" /\ logLock' = "none" /\ UNCHANGED <<lock, drawing, sig>>
      BY <2>1, <2>12 DEF UnlockLog, At
    <3>2. Regular(r, s)' \/ KeepsLock(r, s)'
      BY <1>3, <2>2, <2>3, <2>7, <2>8, <3>1 DEF Regular, KeepsLock
    <3> QED  BY <1>3, <1>5, <2>2, <2>5, <3>1, <3>2
  <2>13. CASE Draw("ui")
    <3>1. /\ Head(q) = "draw" /\ drawing' = drawing \union {"ui"}
          /\ UNCHANGED <<lock, logLock, sig>>
      BY <2>1, <2>13 DEF Draw, At
    <3>2. Regular(r, s)' \/ KeepsLock(r, s)'
      BY <1>3, <2>2, <2>3, <2>7, <2>8, <3>1 DEF Regular, KeepsLock
    <3> QED  BY <1>3, <1>5, <2>2, <2>5, <3>1, <3>2
  <2>14. CASE Drawn("ui")
    <3>1. /\ Head(q) = "drawn" /\ drawing' = drawing \ {"ui"}
          /\ UNCHANGED <<lock, logLock, sig>>
      BY <2>1, <2>14 DEF Drawn, At
    <3>2. Regular(r, s)' \/ KeepsLock(r, s)'
      BY <1>3, <2>2, <2>3, <2>7, <2>8, <3>1 DEF Regular, KeepsLock
    <3> QED  BY <1>3, <1>5, <2>2, <2>5, <3>1, <3>2
  <2> QED  BY <2>9, <2>10, <2>11, <2>12, <2>13, <2>14 DEF UiBrackets
\* At the ends of the loop of the keys.
<1>8. CASE q = <<>>
  <2>1. todo["ui"] = s /\ s # <<>> /\ Head(s) \in KeyWords
    BY <1>1, <1>2, <1>4, <1>8, UiSplit
  <2>2. /\ ~ InBlock(q) /\ ~ InLog(q) /\ ~ Says(q, 1, "drawn") /\ Bracketed(q)
    BY <1>8, NoWord DEF Safe, Tidy, Outside
  <2>3. Regular(q, s) \/ KeepsLock(q, s)
    BY <1>1, <1>8, ExitHead DEF Core, Stuck
  <2>4. CASE Lock("ui")
    <3>1. /\ Head(s) \in {"enter", "relock"} /\ lock.owner \in {"none", "ui"}
          /\ lock' = [owner |-> "ui", count |-> lock.count + 1]
          /\ UNCHANGED <<logLock, drawing, sig>>
      BY <2>1, <2>4 DEF Lock, At, KeyWords
    <3>2. lock'.owner = "ui" /\ lock'.count = lock.count + 1  BY <3>1
    <3>3. Tail(s) \in {<<"key", "leave">>, <<"leave">>} /\ ~ LoopLocked(s)
      BY <1>2, <2>1, <3>1, LoopSteps DEF InLoop, AtKey, LoopLocked
    <3>4. /\ todo'["ui"] = q \o Tail(s) /\ Tail(s) \in InLoop \union AtKey /\ Tail(s) # <<>>
      <4>1. Tail(s) \in InLoop \union AtKey /\ Tail(s) # <<>>
        BY <3>3, LoopSteps DEF InLoop, AtKey
      <4> QED  BY <1>3, <1>4, <1>5, <1>8, <2>1, <4>1
    <3>5. UiTypeInv' /\ Apart("ui")
      <4>1. lock' \in [owner : Threads \union {"none"}, count : Nat] /\ lock'.count # 0
        BY <3>1, <1>3, <1>5
      <4> QED  BY <1>3, <1>5, <1>6, <3>1, <3>2, <4>1 DEF UiTypeInv, Apart
    <3>6. Regular(q, Tail(s))' \/ KeepsLock(q, Tail(s))'
      BY <1>3, <1>5, <2>2, <2>3, <3>1, <3>2, <3>3, <3>4 DEF Regular, KeepsLock
    <3>7. Core(q, Tail(s))'
      BY <1>2, <1>8, <2>2, <3>4, <3>6 DEF Core
    <3> QED  BY <3>4, <3>5, <3>7 DEF UiCalm
  <2>5. CASE Unlock("ui")
    <3>1. /\ Head(s) = "leave"
          /\ lock' = IF lock.count = 1 THEN [owner |-> "none", count |-> 0]
                     ELSE [lock EXCEPT !.count = @ - 1]
          /\ UNCHANGED <<logLock, drawing, sig>>
      BY <2>1, <2>5 DEF Unlock, At, KeyWords
    <3>2. s \in {<<"leave">>, <<"leave", "action", "relock", "leave">>}
      BY <1>2, <2>1, <3>1, LoopSteps DEF InLoop, AtKey
    <3>3. LoopLocked(s) /\ Tail(s) \in {<<>>, <<"action", "relock", "leave">>}
      BY <3>2, LoopSteps DEF LoopLocked
    <3>4. lock.owner = "ui" /\ lock.count >= 1
      BY <1>3, <1>5, <2>3, <3>3 DEF Regular, KeepsLock
    <3>5. /\ lock' \in [owner : Threads \union {"none"}, count : Nat]
          /\ lock'.count = lock.count - 1
          /\ lock.count = 1 => lock'.owner = "none"
          /\ lock.count # 1 => lock'.owner = "ui"
      <4>1. CASE lock.count = 1  BY <3>1, <3>4, <4>1
      <4>2. CASE lock.count # 1
        <5>1. lock' = [owner |-> "ui", count |-> lock.count - 1]
          BY <1>5, <3>1, <3>4, <4>2
        <5> QED  BY <1>3, <1>5, <3>4, <4>2, <5>1
      <4> QED  BY <4>1, <4>2
    <3>6. /\ todo'["ui"] = q \o Tail(s) /\ Tail(s) \in InLoop \union AtKey
          /\ ~ LoopLocked(Tail(s))
      <4>1. Tail(s) \in InLoop \union AtKey
        BY <3>3 DEF InLoop, AtKey
      <4>2. ~ LoopLocked(Tail(s))
        BY <3>3, LoopSteps DEF LoopLocked
      <4> QED  BY <1>3, <1>4, <1>5, <1>8, <2>1, <4>1, <4>2
    <3>7. UiTypeInv' /\ Apart("ui")
      BY <1>3, <1>5, <1>6, <3>1, <3>4, <3>5 DEF UiTypeInv, Apart
    <3>8. Regular(q, Tail(s))' \/ KeepsLock(q, Tail(s))'
      BY <1>3, <1>5, <2>2, <2>3, <3>1, <3>3, <3>4, <3>5, <3>6 DEF Regular, KeepsLock
    <3>9. Core(q, Tail(s))'
      BY <1>2, <1>8, <2>2, <3>6, <3>8 DEF Core
    <3> QED  BY <3>6, <3>7, <3>9 DEF UiCalm
  <2>6. ~ (LockLog("ui") \/ UnlockLog("ui") \/ Draw("ui") \/ Drawn("ui"))
    BY <2>1 DEF LockLog, UnlockLog, Draw, Drawn, At, KeyWords
  <2> QED  BY <2>4, <2>5, <2>6 DEF UiBrackets
<1> QED  BY <1>7, <1>8

LEMMA UiLoopKeeps ==
  ASSUME UiTypeInv, UiCalm, ProcessKey \/ ItemAction \/ GetKey \/ LeaveLoop
  PROVE  UiCalm' /\ Apart("ui") /\ UiTypeInv'
<1>1. PICK q, s : todo["ui"] = q \o s /\ Core(q, s)
  BY DEF UiCalm
<1>2. s \in InLoop \union AtKey /\ Nested(q)
  BY <1>1 DEF Core
<1>3. /\ "ui" \in Threads /\ DOMAIN todo = Threads
      /\ UNCHANGED <<lock, logLock, drawing, panels, sig>>
  BY DEF ProcessKey, ItemAction, GetKey, LeaveLoop, KeepAllBut, Threads, UiTypeInv
<1>4. q = <<>> /\ todo["ui"] = s
  <2>1. todo["ui"] = <<>> \/ Head(todo["ui"]) \in KeyWords
    BY DEF ProcessKey, ItemAction, GetKey, LeaveLoop, Resting, At, KeyWords
  <2>2. q # <<>> => todo["ui"] # <<>> /\ Head(todo["ui"]) = Head(q) /\ Head(q) \notin KeyWords
    BY <1>1, <1>2, UiSplit, Stepped
  <2> QED  BY <1>1, <1>2, <2>1, <2>2, UiSplit
<1>5. Outside(q) /\ Tidy(q) /\ Bracketed(q) /\ ~ Stuck(q, s)
  BY <1>4, NoWord, ExitHead DEF Stuck, Safe, Tidy
<1>6. ASSUME NEW x, NEW y, Tidy(x), y \in InLoop \/ (y \in AtKey /\ x = <<>>),
             y = <<>> => Bracketed(x), LoopLocked(y) => LoopLocked(s),
             todo' = [todo EXCEPT !["ui"] = x \o y]
      PROVE  UiCalm' /\ Apart("ui") /\ UiTypeInv'
  <2>1. UiCalm' /\ Apart("ui")
    BY <1>1, <1>3, <1>5, <1>6, UiMoves
  <2> QED  BY <1>3, <1>6, <2>1 DEF UiTypeInv
<1>7. CASE ProcessKey
  <2>1. s # <<>> /\ Head(s) = "key" /\ todo["ui"] # <<>>
    BY <1>4, <1>7 DEF ProcessKey, At
  <2>2. s = <<"key", "leave">>
    BY <1>2, <2>1, LoopSteps DEF InLoop, AtKey
  <2>3. Tail(s) = <<"leave">> /\ LoopLocked(s)
    BY <2>2, LoopSteps DEF LoopLocked
  <2>4. Top \in {"main", "menu", "dialog", "list"}
    <3> DEFINE K == {"main", "menu", "dialog", "list"}
    <3>1. panels \in Seq(K) /\ panels # <<>>  BY DEF UiTypeInv
    <3> HIDE DEF K
    <3>2. panels[Len(panels)] \in K  BY <3>1
    <3> QED  BY <3>2 DEF Top, K
  <2>5. PICK x \in KeyPrograms(Top) : todo' = [todo EXCEPT !["ui"] = x \o <<"leave">>]
    BY <1>4, <1>7, <2>3 DEF ProcessKey, Become
  <2>6. CASE x = <<"leave", "action", "relock">>
    <3> DEFINE y == <<"leave", "action", "relock", "leave">>
    <3>1. todo' = [todo EXCEPT !["ui"] = <<>> \o y]
      <4>1. x \o <<"leave">> = y  BY <2>6, LoopSteps
      <4>2. <<>> \o y = y
        <5>1. y \in InLoop \union AtKey  BY DEF AtKey
        <5>2. Nested(<<>>)  BY NoWord DEF Safe, Tidy
        <5> QED  BY <5>1, <5>2, UiSplit
      <4> QED  BY <2>5, <4>1, <4>2
    <3>2. y \in AtKey /\ y # <<>>  BY LoopSteps DEF AtKey
    <3> HIDE DEF y
    <3> QED  BY <1>4, <1>5, <1>6, <2>3, <3>1, <3>2
  <2>7. CASE x # <<"leave", "action", "relock">>
    <3>1. Tidy(x)  BY <2>4, <2>7, KeyProgramsTidy
    <3>2. <<"leave">> \in InLoop /\ <<"leave">> # <<>>  BY LoopSteps DEF InLoop
    <3> QED  BY <1>6, <2>3, <2>5, <3>1, <3>2
  <2> QED  BY <2>6, <2>7
<1>8. CASE ItemAction
  <2>1. s # <<>> /\ Head(s) = "action" /\ todo["ui"] # <<>>
    BY <1>4, <1>8 DEF ItemAction, At
  <2>2. s = <<"action", "relock", "leave">>
    BY <1>2, <2>1, LoopSteps DEF InLoop, AtKey
  <2> DEFINE y == <<"relock", "leave">>
  <2>3. Tail(s) = y /\ y \in InLoop
    BY <2>2, LoopSteps DEF InLoop
  <2>4. y # <<>> /\ ~ LoopLocked(y)
    <3>1. Head(y) = "relock" /\ y # <<>>  BY LoopSteps
    <3> HIDE DEF y
    <3> QED  BY <3>1, LoopSteps DEF LoopLocked
  <2> HIDE DEF y
  <2>5. PICK x \in Items(Top) : todo' = [todo EXCEPT !["ui"] = x \o y]
    BY <1>4, <1>8, <2>3 DEF ItemAction, Become
  <2>6. Tidy(x)  BY ItemsTidy
  <2> QED  BY <1>6, <2>3, <2>4, <2>5, <2>6
<1>9. CASE GetKey
  <2> DEFINE y == <<"enter", "key", "leave">>
  <2>1. y \in AtKey /\ y # <<>> /\ ~ LoopLocked(y)
    <3>1. y \in AtKey /\ y # <<>> /\ Head(y) = "enter"  BY LoopSteps DEF AtKey
    <3> HIDE DEF y
    <3> QED  BY <3>1, LoopSteps DEF LoopLocked
  <2>2. todo' = [todo EXCEPT !["ui"] = y]
    BY <1>9 DEF GetKey, Begin
  <2>3. <<>> \o y = y
    <3>1. Nested(<<>>)  BY NoWord DEF Safe, Tidy
    <3> QED  BY <2>1, <3>1, UiSplit
  <2> HIDE DEF y
  <2> QED  BY <1>4, <1>5, <1>6, <2>1, <2>2, <2>3
<1>10. CASE LeaveLoop
  <2> DEFINE x == Write \o <<"terminate">>
  <2>1. todo' = [todo EXCEPT !["ui"] = x]
    BY <1>10 DEF LeaveLoop, Begin
  <2>2. Tidy(x) /\ Bracketed(x)
    BY ControllerPrograms DEF Safe
  <2> HIDE DEF x
  <2>3. x \o <<>> = x
    <3>1. x \in Seq(Words)  BY <2>2 DEF Tidy, Nested
    <3> QED  BY <3>1
  <2>4. ~ LoopLocked(<<>>) /\ <<>> \in InLoop
    BY LoopSteps DEF LoopLocked, InLoop
  <2> QED  BY <1>6, <2>1, <2>2, <2>3, <2>4
<1> QED  BY <1>7, <1>8, <1>9, <1>10

LEMMA SignalKeeps ==
  ASSUME UiTypeInv, UiCalm, Signal
  PROVE  UiCalm' /\ Apart("ui") /\ UiTypeInv'
<1>1. PICK q, s : todo["ui"] = q \o s /\ Core(q, s)
  BY DEF UiCalm
<1>2. s \in InLoop \union AtKey /\ Nested(q)
  BY <1>1 DEF Core
<1>3. /\ "ui" \in Threads /\ DOMAIN todo = Threads
      /\ UNCHANGED <<lock, logLock, drawing, panels>>
      /\ todo' = [todo EXCEPT !["ui"] = Exit] /\ sig = "none"
  BY DEF Signal, KeepAllBut, Begin, Threads, UiTypeInv
<1>4. UiTypeInv' /\ Apart("ui")
  BY <1>3 DEF UiTypeInv, Apart
<1>5. todo'["ui"] = Exit \o <<>>
  BY <1>3, ExitHead
<1>6. /\ Nested(Exit) /\ Bracketed(Exit) /\ ~ InBlock(Exit) /\ ~ InLog(Exit)
  BY ControllerPrograms DEF Safe, Tidy, Outside
<1>7. ~ LoopLocked(<<>>) /\ <<>> \in InLoop
  BY LoopSteps DEF LoopLocked, InLoop
<1>8. Regular(q, s)
  BY <1>1, <1>3 DEF Core, KeepsLock, Stuck
<1>9. Regular(Exit, <<>>)' \/ KeepsLock(Exit, <<>>)' \/ Stuck(Exit, <<>>)'
  <2>1. CASE lock.owner = "ui"
    <3>1. sig' = "locked"  BY <2>1 DEF Signal
    <3>2. KeepsLock(Exit, <<>>)'
      BY <1>3, <1>6, <1>7, <2>1, <3>1 DEF KeepsLock
    <3> QED  BY <3>2
  <2>2. CASE lock.owner # "ui" /\ logLock = "ui"
    <3>1. sig' = "locked"  BY <2>2 DEF Signal
    <3>2. "ui" \notin drawing
      <4>1. InLog(q) /\ ~ InBlock(q)  BY <1>8, <2>2 DEF Regular
      <4>2. q # <<>>
        BY <4>1, NoWord DEF Safe, Tidy, Outside
      <4>3. Head(q) # "drawn"
        BY <1>2, <4>1, <4>2, Stepped
      <4>4. ~ Says(q, 1, "drawn")
        BY <1>2, <4>2, <4>3 DEF Says, Nested
      <4> QED  BY <1>3, <1>8, <4>4 DEF Regular
    <3>3. Stuck(Exit, <<>>)'
      BY <1>3, <2>2, <3>1, <3>2 DEF Stuck
    <3> QED  BY <3>3
  <2>3. CASE lock.owner # "ui" /\ logLock # "ui" /\ todo["ui"] = <<>>
    <3>1. sig' = "rest"  BY <2>3 DEF Signal
    <3>2. q = <<>>
      BY <1>1, <1>2, <2>3, UiSplit, ZenonT(40)
    <3>3. ~ Says(q, 1, "drawn")
      BY <3>2, NoWord DEF Safe, Tidy, Outside
    <3>4. "ui" \notin drawing
      BY <1>3, <1>8, <3>3 DEF Regular
    <3>5. Regular(Exit, <<>>)'
      BY <1>3, <1>6, <1>7, <2>3, <3>1, <3>4 DEF Regular
    <3> QED  BY <3>5
  <2>4. CASE lock.owner # "ui" /\ logLock # "ui" /\ todo["ui"] # <<>>
    <3>1. sig' = "work"  BY <2>4 DEF Signal
    <3>2. Regular(Exit, <<>>)'
      BY <1>3, <1>6, <1>7, <2>4, <3>1 DEF Regular
    <3> QED  BY <3>2
  <2> QED  BY <2>1, <2>2, <2>3, <2>4
<1>10. Core(Exit, <<>>)'
  BY <1>6, <1>7, <1>9 DEF Core
<1> QED  BY <1>4, <1>5, <1>10 DEF UiCalm

(***************************************************************************)
(* The theorem.                                                            *)
(***************************************************************************)
LEMMA UiInitial == UiInit => UiInv
<1> SUFFICES ASSUME UiInit PROVE UiInv
  OBVIOUS
<1>1. /\ "ui" \in Threads /\ "monitor" \in Threads /\ "callback" \in Threads
      /\ "none" \notin Threads
  BY DEF Threads
<1>2. UiTypeInv
  <2>1. <<"main">> \in Seq({"main", "menu", "dialog", "list"}) /\ <<"main">> # <<>>
    OBVIOUS
  <2> QED  BY <2>1 DEF UiInit, UiTypeInv
<1>3. Nested(<<>>) /\ Bracketed(<<>>) /\ ~ InBlock(<<>>) /\ ~ InLog(<<>>)
  BY NoWord DEF Safe, Tidy, Outside
<1>4. /\ todo["ui"] = <<>> /\ todo["monitor"] = <<>> /\ todo["callback"] = <<>>
      /\ lock.owner = "none" /\ logLock = "none" /\ drawing = {} /\ sig = "none"
  BY <1>1 DEF UiInit
<1>5. Calm("monitor") /\ Calm("callback")
  BY <1>3, <1>4 DEF Calm
<1>6. Core(<<>>, <<>>)
  <2>1. ~ LoopLocked(<<>>) /\ <<>> \in InLoop
    BY LoopSteps DEF LoopLocked, InLoop
  <2> QED  BY <1>3, <1>4, <2>1 DEF Core, Regular
<1>7. UiCalm
  <2>1. <<>> \o <<>> = <<>>  OBVIOUS
  <2> QED  BY <1>4, <1>6, <2>1 DEF UiCalm
<1> QED  BY <1>2, <1>5, <1>7 DEF UiInv

LEMMA UiStep == UiInv /\ [UiNext]_uiVars => UiInv'
<1> SUFFICES ASSUME UiInv, [UiNext]_uiVars PROVE UiInv'
  OBVIOUS
<1>1. /\ UiTypeInv /\ Calm("monitor") /\ Calm("callback") /\ UiCalm
      /\ "ui" \in Threads /\ "monitor" \in Others /\ "callback" \in Others
      /\ "monitor" \in Threads /\ "callback" \in Threads
  BY DEF UiInv, Others, Threads
<1>2. CASE UiInstruction \/ GetKey \/ Signal
  <2>1. UiCalm' /\ Apart("ui") /\ UiTypeInv'
    <3>1. CASE Controls("ui")  BY <1>1, <3>1, UiControls
    <3>2. CASE UiBrackets  BY <1>1, <3>2, UiBracketsKeep
    <3>3. CASE UiActs  BY <1>1, <3>3, UiActsKeep
    <3>4. CASE ProcessKey \/ ItemAction \/ GetKey \/ LeaveLoop
      BY <1>1, <3>4, UiLoopKeeps
    <3>5. CASE Signal  BY <1>1, <3>5, SignalKeeps
    <3> QED
      BY <1>2, <3>1, <3>2, <3>3, <3>4, <3>5
         DEF UiInstruction, Instruction, Controls, UiBrackets, UiActs
  <2>2. Calm("monitor")' /\ Calm("callback")'
    BY <1>1, <2>1, OthersStayCalm
  <2> QED  BY <2>1, <2>2 DEF UiInv
<1>3. CASE Instruction("callback") \/ TimerExpires \/ AfeFlags
  <2>1. Calm("callback")' /\ Apart("callback") /\ UiTypeInv' /\ sig' = sig
    BY <1>1, <1>3, CallbackSteps
  <2>2. Calm("monitor")'
    BY <1>1, <2>1, OthersStayCalm
  <2>3. UiCalm'
    BY <1>1, <2>1, UiStaysCalm
  <2> QED  BY <2>1, <2>2, <2>3 DEF UiInv
<1>4. CASE Instruction("monitor") \/ MonitorTick \/ MonitorEnds
  <2>1. Calm("monitor")' /\ Apart("monitor") /\ UiTypeInv' /\ sig' = sig
    BY <1>1, <1>4, MonitorSteps
  <2>2. Calm("callback")'
    BY <1>1, <2>1, OthersStayCalm
  <2>3. UiCalm'
    BY <1>1, <2>1, UiStaysCalm
  <2> QED  BY <2>1, <2>2, <2>3 DEF UiInv
<1>5. CASE UNCHANGED uiVars
  <2>1. /\ todo' = todo /\ lock' = lock /\ logLock' = logLock /\ drawing' = drawing
        /\ panels' = panels /\ sig' = sig
    BY <1>5 DEF uiVars
  <2>2. UiTypeInv' /\ Calm("monitor")' /\ Calm("callback")'
    BY <1>1, <2>1 DEF UiTypeInv, Calm
  <2>3. Apart("monitor")
    BY <1>1, <2>1 DEF Apart, UiTypeInv
  <2> QED  BY <1>1, <2>1, <2>2, <2>3, UiStaysCalm DEF UiInv
<1> QED  BY <1>2, <1>3, <1>4, <1>5 DEF UiNext

LEMMA UiInvSays == UiInv => OnlyActionsDrawUnlocked
<1> SUFFICES ASSUME UiInv, NEW t \in drawing, NEW u \in drawing, t # u
             PROVE  "ui" \in {t, u} /\ (lock.owner # "ui" /\ (InAction \/ sig = "work"))
  BY DEF OnlyActionsDrawUnlocked
<1>1. t \in Threads /\ u \in Threads /\ Others = Threads \ {"ui"}
  BY DEF UiInv, UiTypeInv, Threads, Others
\* Another thread that draws holds the lock.
<1>2. ASSUME NEW o \in Others, o \in drawing PROVE lock.owner = o
  <2>1. Calm(o)  BY DEF UiInv, Others
  <2>2. Nested(todo[o]) /\ Bracketed(todo[o]) /\ Says(todo[o], 1, "drawn")
    BY <1>2, <2>1 DEF Calm
  <2>3. todo[o] # <<>> /\ Head(todo[o]) = "drawn"
    BY <2>2 DEF Says, Nested
  <2>4. InBlock(todo[o])
    BY <2>2, <2>3, Stepped
  <2> QED  BY <2>1, <2>4 DEF Calm
<1>3. "ui" \in {t, u} /\ \E o \in Others : o \in drawing
  BY <1>1, <1>2
<1>4. lock.owner # "ui" /\ "ui" \in drawing
  BY <1>1, <1>2, <1>3
<1>5. ASSUME sig # "work" PROVE InAction
  <2>1. PICK q, s : todo["ui"] = q \o s /\ Core(q, s)
    BY DEF UiInv, UiCalm
  <2>2. Regular(q, s)
    BY <1>4, <2>1 DEF Core, KeepsLock, Stuck
  <2>3. Says(q, 1, "drawn") /\ ~ InBlock(q) /\ ~ LoopLocked(s)
    BY <1>4, <1>5, <2>2 DEF Regular
  <2>4. Nested(q) /\ q # <<>> /\ Head(q) = "drawn"
    BY <2>1, <2>3 DEF Core, Says, Nested
  <2>5. ~ Bracketed(q)
    BY <2>3, <2>4, Stepped
  <2>6. s = <<"relock", "leave">>
    BY <2>1, <2>3, <2>4, <2>5 DEF Core, InLoop, LoopLocked
  <2>7. Len(q) + 1 \in 1..Len(todo["ui"]) /\ todo["ui"][Len(q) + 1] = "relock"
    <3>1. s \in Seq(KeyWords) /\ Len(s) = 2 /\ s[1] = "relock"
      BY <2>6 DEF KeyWords
    <3>2. s \in Seq(Words \union KeyWords) /\ q \in Seq(Words \union KeyWords)
      BY <2>4, <3>1 DEF Nested
    <3>3. /\ Len(q) \in Nat /\ Len(q \o s) = Len(q) + Len(s)
          /\ \A i \in 1..(Len(q) + Len(s)) :
               (q \o s)[i] = IF i <= Len(q) THEN q[i] ELSE s[i - Len(q)]
      BY <3>2, ConcatProperties
    <3>4. Len(q) + 1 - Len(q) = 1 /\ Len(q) + 1 \in 1..(Len(q) + Len(s))
      BY <3>1, <3>3
    <3> QED  BY <2>1, <3>1, <3>3, <3>4
  <2> QED  BY <2>7 DEF InAction
<1> QED  BY <1>3, <1>4, <1>5

\* Two threads are in curses at once only when one is the UI thread in the
\* action of an item, or what a signal left of it: everywhere else the loop of
\* the keys and the writes of tui.c draw under tui->lock.
THEOREM DrawnUnderLock == UiSpec => []OnlyActionsDrawUnlocked
<1>1. UiSpec => []UiInv
  BY UiInitial, UiStep, PTL DEF UiSpec
<1> QED  BY <1>1, UiInvSays, PTL
=============================================================================
