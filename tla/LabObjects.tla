----------------------------- MODULE LabObjects -----------------------------
(***************************************************************************)
(* The objects of plc-cape-lab and the references between them: which      *)
(* object the controller, the transmission, the reception and the monitor  *)
(* hold, through the start-up, the dialogs of the user interface, changes  *)
(* of profile, communications and the exit (controller.c, ui.c, encoder.c, *)
(* decoder.c, monitor.c).                                                  *)
(*                                                                         *)
(* A reference is "null", "live" (to the current object of its kind) or    *)
(* "freed".  Handlers of the user interface run one at a time on its       *)
(* thread; a communication is a span between Start and Stop in which the   *)
(* worker threads use the objects (Controller.tla has its timers).         *)
(***************************************************************************)
EXTENDS ProfilesXml

CONSTANTS
  Documents,   \* profiles.xml: records of its nodes, the numbers of nodes
               \* after which the reader may fail, and the profiles it
               \* describes (without what the reader is known to lose)
  Defaults,    \* the predefined profiles
  EncDefs,     \* encoder plug-in |-> its setting definitions, with defaults
  DecDefs,     \* decoder plug-in |-> its setting definitions, with defaults
  CommandLines \* the arguments the application is started with

Encoders == DOMAIN EncDefs
Decoders == DOMAIN DecDefs
Sides == {"enc", "dec"}
Defs == [enc |-> EncDefs, dec |-> DecDefs]

\* The kind of object each reference points to.
Target ==
  [ctl_enc |-> "encoder", tx_enc |-> "encoder",
   ctl_dec |-> "decoder", rx_dec |-> "decoder",
   ctl_tx |-> "plc_tx", mon_tx |-> "plc_tx",
   ctl_adc |-> "plc_adc", rx_adc |-> "plc_adc", mon_adc |-> "plc_adc",
   ctl_rx |-> "rx", rx_ana |-> "analysis", mon_ana |-> "analysis"]
Refs == DOMAIN Target
Own == [enc |-> "ctl_enc", dec |-> "ctl_dec"]
Copy == [enc |-> "tx_enc", dec |-> "rx_dec"]

\* What reading a document may leave.
Loads ==
  UNION {{Load(d.nodes, n, Defaults) : n \in d.cuts \union {Len(d.nodes)}} :
           d \in Documents}

Lines == [arguments \in CommandLines |-> ParseArguments(arguments)]

\* The profiles the menus offer: those of the tree and, below [ALL], those
\* that are not hidden.  The command line may name any, and so may the tree.
Offered(l) ==
  {l.tree.leaves[i][2] : i \in 1..Len(l.tree.leaves)}
  \union {p.id : p \in {q \in ToSet(l.profiles) : ~ q.hidden}}
NamesOf(l) ==
  {p.id : p \in ToSet(l.profiles)} \union Offered(l)
  \union ({Lines[c].profile : c \in CommandLines} \ {Nothing})
Pushes == [l \in Loads |-> [p \in NamesOf(l) |-> Push(l.profiles, p)]]

\* The settings of the command line for the plug-ins, on top of a profile's.
NoSettings == [enc |-> <<>>, dec |-> <<>>]
Explicit(c) == [enc |-> c.enc, dec |-> c.dec]
Explicits == {NoSettings} \union {Explicit(Lines[c]) : c \in CommandLines}
OnTop ==
  [l \in Loads |-> [p \in NamesOf(l) |-> [x \in Explicits |->
     [side \in Sides |-> SetSettings(Pushes[l][p][side], x[side])]]]]
Endless == [l \in Loads |-> {p \in NamesOf(l) : Circular(l.profiles, p)}]

VARIABLES
  loaded,   \* what reading profiles.xml left
  profile,  \* configuration_profile
  values,   \* settings: the application's
  sel,      \* encoder_plugins and decoder_plugins: the active one
  custom,   \* settings.linked_list of each plug-in object
  plugin,   \* the plug-in each object was made from
  swapped,  \* a plug-in was replaced since the last controller_initialize
  ref,      \* the references
  busy,     \* controller_activated, a communication in progress
  dialog,   \* the panel open above the main menu
  app       \* "off", "up", "crashed" or "exited"

vars == <<loaded, profile, values, sel, custom, plugin, swapped, ref,
          busy, dialog, app>>

\* The transmission and the reception are on: their modes are not "none".
mode == [tx |-> values.tx_mode # 0, rx |-> values.rx_mode # 0]

Init ==
  /\ loaded \in Loads
  /\ profile = Nothing
  /\ values = AppDefaults
  /\ sel \in [enc : Encoders, dec : Decoders]  \* the first of each directory
  /\ custom = [enc |-> <<>>, dec |-> <<>>]
  /\ plugin = [enc |-> Nothing, dec |-> Nothing]
  /\ swapped = [enc |-> FALSE, dec |-> FALSE]
  /\ ref = [r \in Refs |-> "null"]
  /\ busy = FALSE /\ dialog = "none" /\ app = "off"

(***************************************************************************)
(* Reference bookkeeping: creating an object makes the new references      *)
(* live; releasing one leaves every other reference to it dangling.        *)
(***************************************************************************)
Free(rf, kinds) ==
  [r \in Refs |-> IF Target[r] \in kinds /\ rf[r] = "live" THEN "freed" ELSE rf[r]]
Set(rf, refs, v) == [r \in Refs |-> IF r \in refs THEN v ELSE rf[r]]

\* Mutant: the monitor is not told.
TerminatedUntold(rf, plugins) ==
  Set(Free(rf, {"rx", "analysis", "plc_tx", "plc_adc"}
               \union (IF plugins THEN {"encoder", "decoder"} ELSE {})),
      {"ctl_rx", "rx_ana", "rx_adc", "rx_dec", "ctl_tx", "tx_enc", "ctl_adc"}
      \union (IF plugins THEN {"ctl_enc", "ctl_dec"} ELSE {}), "null")
\* controller_terminate: everything is released, the monitor forgets the
\* capture and the transmission but not the analysis.
Terminated(rf, plugins) ==
  Set(Free(rf, {"rx", "analysis", "plc_tx", "plc_adc"}
               \union (IF plugins THEN {"encoder", "decoder"} ELSE {})),
      {"ctl_rx", "rx_ana", "rx_adc", "rx_dec", "ctl_tx", "tx_enc", "ctl_adc",
       "mon_adc", "mon_tx"}
      \union (IF plugins THEN {"ctl_enc", "ctl_dec"} ELSE {}), "null")

\* encoder_create or decoder_create in place of the object there was.
Reloaded(rf, side) ==
  Set(Free(rf, {Target[Own[side]]}), {Own[side]}, "live")

\* The plug-ins controller_initialize reloads: the encoder, then the decoder.
PluginsMade(rf, on) ==
  LET withEncoder == IF "enc" \in on THEN Reloaded(rf, "enc") ELSE rf
  IN  IF "dec" \in on THEN Reloaded(withEncoder, "dec") ELSE withEncoder

\* plc_tx_create and monitor_set_tx; plc_adc_create, monitor_set_adc and
\* rx_create, which gives the monitor its analysis.
Transmitting(rf) == [Set(rf, {"ctl_tx", "mon_tx"}, "live") EXCEPT !.tx_enc = rf.ctl_enc]
Receiving(rf) ==
  [Set(rf, {"ctl_adc", "mon_adc", "rx_adc", "ctl_rx", "rx_ana", "mon_ana"}, "live")
     EXCEPT !.rx_dec = rf.ctl_dec]

\* Using a released object may go unnoticed or end in a segmentation fault.
AfterUse(rf, refs) ==
  IF \E r \in refs : rf[r] = "freed" THEN app' \in {"up", "crashed"} ELSE app' = "up"

(***************************************************************************)
(* controller_initialize.  "pushed" holds the settings of the plug-ins; it *)
(* is used only when the plug-ins are reloaded.  The application exits     *)
(* when a side is on without a plug-in selected, and crashes on an object  *)
(* that was never created or on a setting the plug-in does not know.       *)
(***************************************************************************)
NeedsSide(m, side) == IF side = "enc" THEN m.tx ELSE m.rx

Initialize(rf, m, s, reload, pushed, cu, pl) ==
  LET on == {side \in Sides : NeedsSide(m, side)}
      made == IF reload THEN PluginsMade(rf, on) ELSE rf
      withTx == IF m.tx THEN Transmitting(made) ELSE made
      final == IF m.rx THEN Receiving(withTx) ELSE withTx
      gone(how) == /\ app' = how /\ ref' = rf
                   /\ UNCHANGED <<custom, plugin>>
      unselected == \E side \in on : s[side] = Nothing
      fatal == \/ \E side \in on : made[Own[side]] = "null"
               \/ reload /\ \E side \in on : ~ Accepts(Defs[side][s[side]], pushed[side])
  IN \/ unselected /\ gone("exited")
     \/ ~ unselected /\ fatal /\ gone("crashed")
     \/ ~ unselected /\ m.tx /\ ~ fatal /\ gone("exited")  \* plc_tx_create fails
     \/ /\ ~ unselected /\ ~ fatal
        /\ AfterUse(final, {"mon_ana"})  \* monitor_set_profile
        /\ custom' = [side \in Sides |-> IF reload /\ side \in on
                                         THEN Normalize(Defs[side][s[side]], pushed[side])
                                         ELSE cu[side]]
        /\ plugin' = [side \in Sides |-> IF reload /\ side \in on
                                         THEN s[side] ELSE pl[side]]
        /\ ref' = final

(***************************************************************************)
(* controller_push_profile: the settings from their defaults, the profile  *)
(* on top, the plug-ins it names selected.  An application setting that is *)
(* not accepted asserts, circular profiles exhaust the stack, a plug-in    *)
(* that is not installed ends the application.  "explicit" are the         *)
(* settings of the command line for the plug-ins, on top of the profile's. *)
(***************************************************************************)
Pushed(p) == Pushes[loaded][p]

PushFails(p) == p \in Endless[loaded] \/ Pushed(p).app.rejected
Missing(p) ==
  \/ Pushed(p).encName \notin Encoders \union {Nothing}
  \/ Pushed(p).decName \notin Decoders \union {Nothing}

Ends(how, rf) ==
  /\ app' = how /\ ref' = rf
  /\ UNCHANGED <<profile, values, sel, custom, plugin, swapped>>

Configure(p, rf, explicit) ==
  CASE PushFails(p) -> Ends("crashed", rf)
    [] ~ PushFails(p) /\ Missing(p) -> Ends("exited", rf)
    [] OTHER ->
         /\ profile' = p
         /\ values' = Pushed(p).app.values
         /\ sel' = [enc |-> Pushed(p).encName, dec |-> Pushed(p).decName]
         /\ swapped' = [enc |-> FALSE, dec |-> FALSE]
         /\ Initialize(rf, mode', sel', TRUE, OnTop[loaded][p][explicit], custom, plugin)

(***************************************************************************)
(* controller_create.  A profile on the command line discards the settings *)
(* of the application given there, before or after it.  An element of the  *)
(* document out of its place ends the program; the nodes of the tree are   *)
(* in memory that nobody cleared, and reading them may end it too.         *)
(***************************************************************************)
Create ==
  /\ app = "off" /\ ~ loaded.asserted
  /\ \E arguments \in CommandLines :
       LET c == Lines[arguments]
       IN CASE c.error -> Ends("exited", ref)
            [] ~ c.error /\ c.profile # Nothing -> Configure(c.profile, ref, Explicit(c))
            [] OTHER ->
                 /\ values' = c.values
                 /\ Initialize(ref, mode', sel, TRUE, Explicit(c), custom, plugin)
                 /\ UNCHANGED <<profile, sel, swapped>>
  /\ UNCHANGED <<loaded, busy, dialog>>

LoadingCrashes ==
  /\ app = "off"
  /\ loaded.asserted \/ loaded.tree.nodes # <<>>
  /\ Ends("crashed", ref)
  /\ UNCHANGED <<loaded, busy, dialog>>

(***************************************************************************)
(* Communications.  A start uses the encoder through plc_tx and the        *)
(* decoder through rx, and encoder_reset on the controller's own.          *)
(***************************************************************************)
Idle == app = "up" /\ ~ busy

StartCommunication ==
  /\ Idle /\ dialog = "none"  \* (refused while a plug-in is not configured)
  /\ busy' \in BOOLEAN  \* the start of the transmission or the capture may fail
  /\ AfterUse(ref, (IF mode.tx THEN {"tx_enc"} ELSE {})
                   \union (IF mode.rx THEN {"rx_dec"} ELSE {}))
  /\ UNCHANGED <<loaded, profile, values, sel, custom, plugin, swapped, ref,
                 dialog>>

\* The user's OFF, or the end of the time the communication was given.
StopCommunication ==
  /\ app = "up" /\ busy
  /\ busy' = FALSE
  /\ UNCHANGED <<loaded, profile, values, sel, custom, plugin, swapped, ref,
                 dialog, app>>

(***************************************************************************)
(* Panels.  Every panel but the monitoring menu opens only when there is   *)
(* no communication (ui_check_controller_idle).                            *)
(***************************************************************************)
OpenPanel(d) ==
  /\ Idle /\ dialog = "none"
  /\ dialog' = d
  /\ UNCHANGED <<loaded, profile, values, sel, custom, plugin, swapped, ref,
                 busy>>

\* The list field of the dialog shows the active plug-in: none is index -1.
OpenPluginDialog(side) ==
  /\ OpenPanel(side)
  /\ app' = IF sel[side] = Nothing THEN "crashed" ELSE "up"

OpenSettingsDialog(d) ==
  /\ OpenPanel(d)
  /\ UNCHANGED app

\* A plug-in without an object or without settings has nothing to configure.
OpenConfigureDialog(side) ==
  /\ ref[Own[side]] = "live" /\ custom[side] # <<>>
  /\ OpenPanel("configure_" \o side)
  /\ UNCHANGED app

\* The menu of profiles reads the tree.
OpenProfilesMenu ==
  /\ OpenPanel("profiles")
  /\ app' = IF loaded.tree.made THEN "up" ELSE "crashed"

Cancel ==
  /\ app = "up" /\ dialog # "none"
  /\ dialog' = "none"
  /\ UNCHANGED <<loaded, profile, values, sel, custom, plugin, swapped, ref,
                 busy, app>>

(***************************************************************************)
(* ui_on_encoder_selected, ui_on_decoder_selected: the plug-in is released *)
(* and the new one created with its defaults; the transmission or the      *)
(* reception keeps the reference it was created with.                      *)
(***************************************************************************)
\* Mutant: selects the plug-in and keeps the old object.
PluginSelectedOnly(side) ==
  /\ app = "up" /\ dialog = side
  /\ \E p \in DOMAIN Defs[side] :
       /\ sel' = [sel EXCEPT ![side] = p]
  /\ swapped' = [swapped EXCEPT ![side] = TRUE]
  /\ dialog' = "none"
  /\ UNCHANGED <<loaded, profile, values, busy, app, plugin, custom,
                 ref>>
PluginSelected(side) ==
  /\ app = "up" /\ dialog = side
  /\ \E p \in DOMAIN Defs[side] :
       /\ sel' = [sel EXCEPT ![side] = p]
       /\ plugin' = [plugin EXCEPT ![side] = p]
       /\ custom' = [custom EXCEPT ![side] = DefaultSettings(Defs[side][p])]
  /\ ref' = Reloaded(ref, side)
  /\ swapped' = [swapped EXCEPT ![side] = TRUE]
  /\ dialog' = "none"
  /\ UNCHANGED <<loaded, profile, values, busy, app>>

\* ui_on_encoder_reconfigured, ui_on_decoder_reconfigured: of the same type.
Definition(side, id) ==
  LET definitions == Defs[side][plugin[side]]
  IN definitions[FindDefinition(definitions, id)]
PluginReconfigured(side) ==
  /\ app = "up" /\ dialog = "configure_" \o side
  /\ \E i \in 1..Len(custom[side]) :
       custom' = [custom EXCEPT ![side][i][2] =
                    IF Definition(side, custom[side][i][1]).type = "string"
                    THEN "edited" ELSE 1]
  /\ dialog' = "none"
  /\ UNCHANGED <<loaded, profile, values, sel, plugin, swapped, ref, busy, app>>

\* The dialogs of the transmission and the reception edit the settings in place.
ModeSetting == [tx |-> "tx_mode", rx |-> "rx_mode"]

\* ui_app_settings_dialog_on_ok: controller_set_app_settings keeps the plug-ins.
SettingsAccepted(d) ==
  /\ app = "up" /\ dialog = d
  /\ \E on \in {0, 1} : values' = [values EXCEPT ![ModeSetting[d]] = on]
  /\ Initialize(Terminated(ref, FALSE), mode', sel, FALSE, <<>>, custom, plugin)
  /\ swapped' = [enc |-> FALSE, dec |-> FALSE]
  /\ dialog' = "none"
  /\ UNCHANGED <<loaded, profile, sel, busy>>

\* ui_reload_configuration_profile closes every panel.
ProfileSelected ==
  /\ app = "up" /\ dialog = "profiles"
  /\ \E p \in Offered(loaded) : Configure(p, Terminated(ref, TRUE), NoSettings)
  /\ dialog' = "none"
  /\ UNCHANGED <<loaded, busy>>

\* controller_set_monitoring_profile, whether or not a communication is on.
MonitoringSelected ==
  /\ app = "up" /\ dialog = "none"
  /\ AfterUse(ref, {"mon_ana"})
  /\ UNCHANGED <<loaded, profile, values, sel, custom, plugin, swapped, ref,
                 busy, dialog>>

\* controller_measure_encoder_time fills a buffer through plc_tx.
MeasureEncoder ==
  /\ Idle /\ dialog = "none"
  /\ ref.ctl_tx # "null"
  /\ AfterUse(ref, {"tx_enc"})
  /\ UNCHANGED <<loaded, profile, values, sel, custom, plugin, swapped, ref,
                 busy, dialog>>

\* The end of the menu loop: controller_release deactivates and releases all;
\* profiles_release reads the tree of the profiles.
Quit ==
  /\ app = "up" /\ dialog = "none"
  /\ busy' = FALSE
  /\ ref' = Terminated(ref, TRUE)
  /\ app' = IF loaded.tree.made THEN "exited" ELSE "crashed"
  /\ UNCHANGED <<loaded, profile, values, sel, custom, plugin, swapped,
                 dialog>>

Next ==
  \/ Create \/ LoadingCrashes \/ StartCommunication \/ StopCommunication
  \/ \E side \in Sides : \/ OpenPluginDialog(side) \/ OpenConfigureDialog(side)
                         \/ PluginSelected(side) \/ PluginReconfigured(side)
  \/ \E d \in {"tx", "rx"} : OpenSettingsDialog(d) \/ SettingsAccepted(d)
  \/ OpenProfilesMenu \/ ProfileSelected \/ Cancel
  \/ MonitoringSelected \/ MeasureEncoder \/ Quit

Spec == Init /\ [][Next]_vars

-----------------------------------------------------------------------------
(* Dangling references have two sources only: the plug-in dialogs, which   *)
(* replace a plug-in under the transmission or the reception made with it  *)
(* (until the next controller_initialize), and the monitor, which keeps    *)
(* the analysis of a reception that is gone.  Every other reference is to  *)
(* an object that exists, whatever the order of dialogs and profiles.      *)
OnlyKnownDangling ==
  \A r \in Refs : ref[r] = "freed" =>
    \/ \E side \in Sides : r = Copy[side] /\ swapped[side]
    \/ r = "mon_ana" /\ ref.ctl_rx = "null"

(* While the menu is up, what exists is what the settings ask for: a       *)
(* transmission iff its mode is on, a reception iff its mode is on, each   *)
(* with its plug-in, and that plug-in is the one selected in the list.     *)
ObjectsMatchSettings ==
  app = "up" =>
    /\ mode.tx <=> ref.ctl_tx = "live"
    /\ mode.rx <=> ref.ctl_rx = "live" /\ ref.ctl_adc = "live"
    /\ \A side \in Sides :
         /\ NeedsSide(mode, side) => ref[Own[side]] = "live"
         /\ ref[Own[side]] = "live" => plugin[side] = sel[side]

(* A profile chosen in the menu or on the command line gives each setting  *)
(* of the application the meaning of the text that the closest profile of  *)
(* the chain has for it, its last one there, and leaves its default to one *)
(* that none has a text for, whatever was set before; a text that is no    *)
(* number counts for none.  The encoder gets the settings the chain or the *)
(* command line has texts for, each once and no other: that of the command *)
(* line, or else of the closest profile; where that is no number, it is    *)
(* memory that nobody set.  All this through the reader, the inheritance,  *)
(* the merge of the lists and the conversion, for any document that is     *)
(* read whole without an assertion.                                        *)
EncKeys == UNION {{EncDefs[e][i].id : i \in 1..Len(EncDefs[e])} : e \in Encoders}

IsNumber(definition) == definition.type \notin {"enum", "string", "bool"}

\* The text the nearest profile of a chain has last for a setting.
NearestText(described, chain, vector, key, Counts(_)) ==
  LET given == {x \in UNION {{<<n, i>> : i \in 1..Len(described[chain[n]][vector].settings)} :
                                n \in 1..Len(chain)} :
                  /\ described[chain[x[1]]][vector].settings[x[2]][1] = key
                  /\ Counts(described[chain[x[1]]][vector].settings[x[2]][2])}
      nearest == CHOOSE x \in given :
                   \A y \in given : x[1] < y[1] \/ (x[1] = y[1] /\ x[2] >= y[2])
  IN IF given = {} THEN Nothing ELSE described[chain[nearest[1]]][vector].settings[nearest[2]][2]

AppText(described, p, id) ==
  NearestText(described, Lineage(described, p), "app", id,
    LAMBDA text : IsNumber(AppDefinition(id)) => text \in DOMAIN Numbers)
EncText(described, p, id) ==
  NearestText(described, Lineage(described, p), "enc", id, LAMBDA text : TRUE)

\* What each document that is read whole leaves, with those texts.
Judged ==
  {LET whole == Load(d.nodes, Len(d.nodes), Defaults)
   IN [loaded |-> whole,
       app |-> [p \in NamesOf(whole) |-> [id \in AppIds |-> AppText(d.describes, p, id)]],
       enc |-> [p \in NamesOf(whole) |-> [id \in EncKeys |-> EncText(d.describes, p, id)]]] :
     d \in Documents}

Means(definition, text, data) ==
  CASE definition.type = "enum" ->
         data + 1 \in 1..Len(definition.captions) /\ definition.captions[data + 1] = text
    [] definition.type = "bool" -> data = (IF text = "0" THEN 0 ELSE 1)
    [] definition.type = "string" -> data = text
    [] definition.type = "u16" /\ text \in DOMAIN Numbers ->
         data \in 0..65535 /\ (Numbers[text] - data) % 65536 = 0
    [] IsNumber(definition) /\ definition.type # "u16" /\ text \in DOMAIN Numbers ->
         data = Numbers[text]
    [] OTHER -> TRUE

SettingsAreGiven(texts, explicit) ==
  LET OnLine(key) == PositionOf(explicit.enc, key)
      Wanted(key) == IF OnLine(key) # 0 THEN explicit.enc[OnLine(key)][2]
                     ELSE texts.enc[profile][key]
  IN /\ \A id \in AppIds :
          LET text == texts.app[profile][id]
          IN IF text = Nothing THEN values[id] = AppDefinition(id).default
             ELSE Means(AppDefinition(id), text, values[id])
     /\ mode.tx => \A key \in EncKeys :
          LET held == {i \in 1..Len(custom.enc) : custom.enc[i][1] = key}
          IN IF Wanted(key) = Nothing THEN held = {}
             ELSE \E i \in held : /\ held = {i}
                                  /\ Means(Definition("enc", key), Wanted(key), custom.enc[i][2])

NearestProfileWins ==
  [][app' = "up" => \A texts \in Judged : loaded = texts.loaded =>
       /\ ProfileSelected => SettingsAreGiven(texts, NoSettings)'
       /\ Create /\ profile' # Nothing =>
            \E c \in CommandLines :
              Lines[c].profile = profile' /\ SettingsAreGiven(texts, Lines[c])']_vars
=============================================================================
