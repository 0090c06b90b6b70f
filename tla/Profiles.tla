------------------------------ MODULE Profiles ------------------------------
(***************************************************************************)
(* The configuration profiles of plc-cape-lab (profiles.c) and the setting *)
(* lists they fill (libplc-tools/settings.c).                              *)
(*                                                                         *)
(* A file of profiles is the sequence in which they were added.  A profile *)
(* is a record [id, inherit, hidden, app, enc, dec]: app, enc and dec are  *)
(* vectors [plugin, settings].  A setting is a pair <<identifier, value>>. *)
(* Nothing stands for an absent string (NULL).                             *)
(***************************************************************************)
EXTENDS Integers, Sequences, FiniteSets, SequencesExt

CONSTANTS
  AppDefs,  \* the definitions of the application's settings, and their defaults
  Numbers   \* text |-> the number it starts with; other texts start with none

Nothing == "nothing"

(***************************************************************************)
(* Lists of settings                                                       *)
(***************************************************************************)
\* The position of the setting with an identifier, 0 when there is none.
PositionOf(list, id) == SelectInSeq(list, LAMBDA s : s[1] = id)

\* plc_setting_set_setting: overwrite in place, or append.
SetSetting(list, setting) ==
  LET p == PositionOf(list, setting[1])
  IN IF p = 0 THEN Append(list, setting) ELSE [list EXCEPT ![p] = setting]

SetSettings(list, settings) == FoldLeft(SetSetting, list, settings)

(***************************************************************************)
(* What a text means to a definition [id, type, captions, default].  A     *)
(* number that is not one leaves what was there: Unset in new memory.  The *)
(* text of an enumeration is asserted to be one of its captions.           *)
(***************************************************************************)
Unset == -1
FindDefinition(definitions, id) == SelectInSeq(definitions, LAMBDA d : d.id = id)
Understood(d, text) == d.type = "enum" => \E i \in 1..Len(d.captions) : d.captions[i] = text

Data(d, text, old) ==
  CASE d.type = "string" -> text
    [] d.type = "bool" -> IF text = "0" THEN 0 ELSE 1
    [] d.type = "enum" -> SelectInSeq(d.captions, LAMBDA c : c = text) - 1
    [] text \notin DOMAIN Numbers -> old
    [] d.type = "u16" -> Numbers[text] % 2^16
    [] OTHER -> Numbers[text]

\* plc_setting_load_default_settings: one setting per definition, in order.
DefaultSettings(definitions) ==
  [i \in 1..Len(definitions) |-> <<definitions[i].id, definitions[i].default>>]

\* plc_setting_normalize asserts that the plug-in defines every setting.
Accepts(definitions, list) ==
  \A i \in 1..Len(list) :
    LET n == FindDefinition(definitions, list[i][1])
    IN n # 0 /\ Understood(definitions[n], list[i][2])
Normalize(definitions, list) ==
  [i \in 1..Len(list) |->
     <<list[i][1],
       Data(definitions[FindDefinition(definitions, list[i][1])], list[i][2], Unset)>>]

(***************************************************************************)
(* The application's settings: identifier |-> data, "rejected" once one    *)
(* was unknown or had a text that was not understood.                      *)
(***************************************************************************)
AppIds == {AppDefs[n].id : n \in 1..Len(AppDefs)}
AppDefinition(id) == AppDefs[FindDefinition(AppDefs, id)]
AppDefaults == [id \in AppIds |-> AppDefinition(id).default]

SetAppSetting(app, s) ==
  IF s[1] \in AppIds /\ Understood(AppDefinition(s[1]), s[2])
  THEN [app EXCEPT !.values[s[1]] = Data(AppDefinition(s[1]), s[2], @)]
  ELSE [app EXCEPT !.rejected = TRUE]

(***************************************************************************)
(* The chain of profiles a push goes through: the first profile of the     *)
(* file with the identifier, then the one it inherits from.  The code      *)
(* recurses without a bound; more steps than there are profiles means that *)
(* the references are circular and that the recursion never ends.          *)
(***************************************************************************)
FindProfile(file, id) == SelectInSeq(file, LAMBDA p : p.id = id)

Lineage(file, id) ==
  LET Parent(chain) == LET last == file[chain[Len(chain)]]
                       IN IF last.inherit = Nothing THEN 0
                          ELSE FindProfile(file, last.inherit)
      Climb(chain, n) == IF chain = <<>> \/ chain[Len(chain)] = 0 THEN chain
                         ELSE Append(chain, Parent(chain))
  IN SelectSeq(FoldLeft(Climb, <<FindProfile(file, id)>>, file), LAMBDA p : p # 0)

Circular(file, id) == Len(Lineage(file, id)) > Len(file)

(***************************************************************************)
(* profiles_push_profile: the ancestors first, each on top of what the     *)
(* previous ones left; the name of a plug-in is taken from the first that  *)
(* gives one, and a different name further down is dropped without notice. *)
(***************************************************************************)
EmptyPush == [app |-> [values |-> AppDefaults, rejected |-> FALSE], enc |-> <<>>, dec |-> <<>>,
              encName |-> Nothing, decName |-> Nothing]

FirstName(name, candidate) == IF name = Nothing THEN candidate ELSE name

PushOne(acc, p) ==
  [app |-> FoldLeft(SetAppSetting, acc.app, p.app.settings),
   enc |-> SetSettings(acc.enc, p.enc.settings),
   dec |-> SetSettings(acc.dec, p.dec.settings),
   encName |-> FirstName(acc.encName, p.enc.plugin),
   decName |-> FirstName(acc.decName, p.dec.plugin)]

\* Mutant: the ancestors on top.
PushAncestorsLast(file, id) ==
  FoldLeft(LAMBDA acc, i : PushOne(acc, file[i]), EmptyPush, Lineage(file, id))
Push(file, id) ==
  FoldLeft(LAMBDA acc, i : PushOne(acc, file[i]), EmptyPush,
           Reverse(Lineage(file, id)))

(***************************************************************************)
(* cmdline_parse_args, over pairs of an option and its argument: the       *)
(* settings it changes, the profile it names, the settings for plug-ins in *)
(* the order they were first given, and whether it ends in an error.       *)
(***************************************************************************)
EnumOption == [A |-> "rx_mode", S |-> "tx_mode", T |-> "operating_mode"]
NumberOption == [F |-> "tx_sampling_rate_sps", I |-> "communication_interval_ms",
                 J |-> "communication_timeout_ms", N |-> "tx_buffers_len",
                 W |-> "samples_to_file"]
PluginOption == [D |-> "dec", E |-> "enc"]

Atoi(text) == IF text \in DOMAIN Numbers THEN Numbers[text] ELSE 0

\* An enumeration is given by its index; a word is the index 0.
Argument(c, a) ==
  CASE c.error -> c
    [] a[1] = "P" -> [c EXCEPT !.profile = a[2]]
    [] a[1] \in DOMAIN PluginOption /\ a[2] # Nothing ->
         [c EXCEPT ![PluginOption[a[1]]] = SetSetting(@, a[2])]
    [] a[1] \in DOMAIN EnumOption /\
       Atoi(a[2]) < Len(AppDefinition(EnumOption[a[1]]).captions) ->
         [c EXCEPT !.values[EnumOption[a[1]]] = Atoi(a[2])]
    [] a[1] \in DOMAIN NumberOption ->
         [c EXCEPT !.values[NumberOption[a[1]]] = Atoi(a[2])]
    [] OTHER -> [c EXCEPT !.error = TRUE]

ParseArguments(arguments) ==
  FoldLeft(Argument, [values |-> AppDefaults, profile |-> Nothing,
                      enc |-> <<>>, dec |-> <<>>, error |-> FALSE], arguments)
=============================================================================
