---------------------------- MODULE MCLabObjects ----------------------------
(* A document with a profile that transmits and receives, one that inherits *)
(* from it, one that inherits from that one, and one that only selects an    *)
(* encoder, read whole or up to a failure inside a profile, between two or in*)
(* the tree; one with profiles whose plug-in is not installed and two that   *)
(* inherit from each other; and documents with elements that the program     *)
(* does not know, empty or not, with an unknown or an empty node in the tree,*)
(* and with two sections for one encoder.  The profiles and the command line *)
(* override settings of every type.  The texts are numbers within and beyond *)
(* the width of their setting and one that is no number.  The predefined     *)
(* profiles contain a setting the application does not accept.               *)
EXTENDS LabObjects

Vector(name, list) == [plugin |-> name, settings |-> list]
P(id, inherit, appSettings, encPlugin, encSettings, decPlugin) ==
  [id |-> id, inherit |-> inherit, hidden |-> id \in {"base", "left"},
   app |-> Vector(Nothing, appSettings), enc |-> Vector(encPlugin, encSettings),
   dec |-> Vector(decPlugin, <<>>)]

Base ==
  P("base", Nothing,
    <<<<"tx_mode", "on">>, <<"rx_mode", "on">>, <<"data_offset", "120000">>,
      <<"cenelec_a", "1">>>>,
    "wave", <<<<"freq", "2000">>, <<"freq", "3000">>, <<"stream", "ramp">>,
              <<"filename", "b">>>>, "ook")
Child ==
  P("child", "base", <<<<"rx_mode", "none">>, <<"cenelec_a", "0">>, <<"data_offset", "fast">>>>,
    "wave", <<<<"offset", "65600">>, <<"freq", "fast">>>>, Nothing)
Grand ==
  P("grand", "child", <<<<"samples_to_file", "2000">>>>,
    Nothing, <<<<"freq", "2000">>, <<"stream", "sinus">>>>, Nothing)
Muted == P("muted", Nothing, <<>>, "morse", <<>>, Nothing)

MCDescribed == <<Base, Child, Grand, Muted>>
MCBroken ==
  <<P("base", Nothing, <<<<"tx_mode", "on">>>>, "wave", <<<<"filename", "b">>>>, "ook"),
    P("absent", "base", <<>>, "missing", <<>>, "missing"),
    P("alien", Nothing, <<<<"tx_mode", "on">>>>, "missing", <<>>, Nothing),
    P("left", "right", <<>>, Nothing, <<>>, Nothing),
    P("right", "left", <<>>, Nothing, <<>>, Nothing)>>

MCDefaults ==
  <<P("tx", Nothing, <<<<"tx_mode", "on">>, <<"freq_bps", "750000">>>>,
      "wave", <<<<"freq", "2000">>>>, Nothing)>>

(* The document that describes some profiles. *)
Given(id, value) == IF value = Nothing THEN {} ELSE {<<id, value>>}
XmlSetting(s) == <<Element("setting", {<<"id", s[1]>>}), Text(s[2]), End>>
XmlVector(name, v) ==
  IF v.settings = <<>>
  THEN IF v.plugin = Nothing THEN <<>>
       ELSE <<EmptyElement(name, {<<"plugin", v.plugin>>})>>
  ELSE <<Element(name, Given("plugin", v.plugin))>>
       \o FoldLeft(LAMBDA acc, s : acc \o XmlSetting(s), <<>>, v.settings) \o <<End>>
XmlProfile(p) ==
  <<Element("profile", {<<"id", p.id>>} \union Given("inherit", p.inherit)
                       \union Given("hidden", IF p.hidden THEN "1" ELSE Nothing))>>
  \o XmlVector("app-settings", p.app) \o XmlVector("encoder-settings", p.enc)
  \o XmlVector("decoder-settings", p.dec) \o <<End>>
Xml(profiles, tree) ==
  <<Element("plc-cape-lab.profile_definitions", {}), Element("profiles", {})>>
  \o FoldLeft(LAMBDA acc, p : acc \o XmlProfile(p), <<>>, profiles)
  \o <<End, Element("tree", {})>> \o tree \o <<End, End>>

Leaf(id) == EmptyElement("profile", {<<"id", id>>})
Node(title) == Element("node", {<<"title", title>>})
MCTree == <<Node("Basic"), Leaf("base"), Leaf("undefined"), End, Leaf("muted")>>

Unread ==  \* the settings of the profile after an element nobody knows
  <<Element("plc-cape-lab.profile_definitions", {}), Element("profiles", {}),
    Element("profile", {<<"id", "tx">>}), EmptyElement("note", {})>>
  \o XmlVector("app-settings", Child.app)
  \o XmlVector("encoder-settings", Child.enc) \o <<End>>
  \o XmlProfile(Muted) \o <<End, Element("tree", {}), End, End>>

\* In the last profile of a document that ends with it the loss goes unnoticed:
\* an empty element nobody knows takes the rest of its section with it, between
\* two sections of settings and among the settings of one.
EndsWith(nodes) ==
  <<Element("plc-cape-lab.profile_definitions", {}), Element("tree", {}), Leaf("tx"), End,
    Element("profiles", {})>>
  \o XmlProfile(Base)
  \o <<Element("profile", {<<"id", "tx">>, <<"inherit", "base">>})>> \o nodes \o <<End, End, End>>
Note(nodes) == <<Element("note", {})>> \o nodes \o <<End>>
LosesASection ==
  EndsWith(XmlVector("app-settings", Child.app) \o <<EmptyElement("note", {})>>
           \o XmlVector("encoder-settings", Child.enc))
LosesSettings ==
  EndsWith(<<Element("encoder-settings", {}), Element("setting", {<<"id", "freq">>}),
             Text("2000"), End, EmptyElement("note", {}),
             Element("setting", {<<"id", "filename">>}), Text("c"), End, End>>
           \o XmlVector("app-settings", Child.app))
LosesNothing ==
  EndsWith(XmlVector("app-settings", Child.app) \o Note(<<EmptyElement("p", {})>>)
           \o XmlVector("encoder-settings", Child.enc))
Twice ==
  <<Element("plc-cape-lab.profile_definitions", {}), Element("profiles", {}),
    Element("profile", {<<"id", "tx">>})>>
  \o XmlVector("encoder-settings", Base.enc)
  \o XmlVector("encoder-settings", Child.enc) \o <<End, End, End>>

Simple == <<Muted>>
Document(nodes, describes) == [nodes |-> nodes, cuts |-> {}, describes |-> describes]
Tx(appSettings, name, encSettings) ==
  <<Base, P("tx", "base", appSettings, name, encSettings, Nothing)>>
MCDocuments ==
  {[nodes |-> Xml(MCDescribed, MCTree), cuts |-> {0, 10, 22, 27, 60},
    describes |-> MCDescribed],
   Document(Xml(MCBroken, <<>>), MCBroken),
   Document(Unread, <<>>), Document(Twice, <<>>),
   Document(LosesASection, Tx(Child.app.settings, Nothing, <<>>)),
   Document(LosesSettings, Tx(<<>>, Nothing, <<<<"freq", "2000">>>>)),
   Document(LosesNothing, Tx(Child.app.settings, "wave", Child.enc.settings)),
   Document(Xml(Simple, <<Node("A"), EmptyElement("leaf", {}), Leaf("muted"),
                          End, Leaf("x")>>), Simple),
   Document(Xml(Simple, <<EmptyElement("leaf", {})>>), Simple \o MCDefaults),
   Document(Xml(Simple, <<EmptyElement("node", {<<"title", "A">>}), Leaf("muted")>>), Simple)}

D(id, type, captions, default) ==
  [id |-> id, type |-> type, captions |-> captions, default |-> default]
MCEncDefs ==
  [wave |-> <<D("stream", "enum", <<"sinus", "ramp">>, 0), D("freq", "float", <<>>, 500),
              D("offset", "u16", <<>>, 400), D("filename", "string", <<>>, "spi.bin")>>,
   morse |-> <<D("dot", "u32", <<>>, 100)>>]
MCDecDefs == [ook |-> <<>>]
MCAppDefs ==
  <<D("tx_mode", "enum", <<"none", "on">>, 0), D("rx_mode", "enum", <<"none", "on">>, 0),
    D("data_offset", "u16", <<>>, 0), D("samples_to_file", "u32", <<>>, 0),
    D("cenelec_a", "bool", <<>>, 0)>>
MCNumbers ==
  [n \in {"0", "1", "7", "2000", "3000", "65600", "120000"} |->
     CASE n = "0" -> 0 [] n = "1" -> 1 [] n = "7" -> 7 [] n = "2000" -> 2000
       [] n = "3000" -> 3000 [] n = "65600" -> 65600 [] n = "120000" -> 120000]

(* Every profile alone; without a profile; with settings for the plug-in    *)
(* against those of the profiles, one it does not have, a mode out of range, *)
(* a mode that the profile discards and one given by its name, which is 0.   *)
MCCommandLines ==
  {<<<<"P", p>>>> : p \in {"base", "grand", "muted", "absent", "alien", "left", "tx",
                          "undefined"}}
  \union {<<>>, <<<<"S", "1">>, <<"E", <<"freq", "7">>>>>>, <<<<"A", "1">>, <<"W", "7">>>>,
          <<<<"E", <<"stream", "sinus">>>>, <<"P", "child">>, <<"S", "0">>,
            <<"E", <<"filename", "a">>>>, <<"E", <<"offset", "1">>>>>>,
          <<<<"P", "grand">>, <<"E", <<"freq", "1">>>>, <<"E", <<"freq", "7">>>>>>,
          <<<<"P", "tx">>, <<"E", <<"range", "7">>>>>>,
          <<<<"S", "on">>>>, <<<<"S", "7">>>>, <<<<"E", Nothing>>>>}

(* What the reader finds in a document is what it describes, but for those   *)
(* that end in an assertion.                                                 *)
ASSUME ReadsWhatIsDescribed ==
  \A d \in MCDocuments :
    LET whole == Load(d.nodes, Len(d.nodes), MCDefaults)
    IN whole.asserted \/ whole.profiles = d.describes
=============================================================================
