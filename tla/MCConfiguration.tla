--------------------------- MODULE MCConfiguration ---------------------------
EXTENDS Configuration, SequencesExt, TLC

CONSTANTS root, print, all, nothing

MCSections == << <<"A">>, <<"B">> >>
MCCommands == {root, print, all}
MCParent == print :> root @@ all :> print
MCArguments == root :> {"bbsdir", "help"} @@ print :> {"help"} @@ all :> {}
MCInitially == "bbsdir" :> <<"home">> @@ "help" :> <<"false">>

Long(key, value) == [form |-> "long", key |-> key, value |-> value]
Words == {
  [form |-> "empty"], [form |-> "bare"], [form |-> "dashes"],
  Long("bbsdir", <<"x">>), Long("help", <<>>), Long("quiet", <<"N">>),
  [form |-> "short", key |-> "help", value |-> <<"0">>],
  [form |-> "dot", value |-> <<"y">>],
  [form |-> "word", name |-> print], [form |-> "word", name |-> all]}

CommandLines == UNION {[1..n -> Words] : n \in 0..3}
Program == <<[form |-> "empty"]>>

MCSymbols == {" ", "[", "]", "=", ";", Quote, "A", "B", "bbsdir", "help", "u", "v", "w", "Y", "N"}

Entry(kind, name, key, texts, ls) == [kind |-> kind, name |-> name, key |-> key, texts |-> texts, lines |-> ls]
Header(s) == Entry("header", <<s>>, "", <<>>, << <<"[", s, "]">> >>)
Entries == {
  Header("A"), Header("B"),
  Entry("plain", <<>>, "bbsdir", << <<"u">> >>, << <<"bbsdir", "=", "u">> >>),
  Entry("quoted", <<>>, "bbsdir", << <<" ", "v">> >>,
        << <<" ", "bbsdir", " ", "=", " ", Quote, " ", "v", Quote, " ", ";", "=">> >>),
  Entry("plain", <<>>, "help", << <<"Y">> >>, << <<"help", "=", "Y", ";", "[">> >>),
  Entry("long", <<>>, "bbsdir", << <<"w">>, <<"help", "=", "N", ";">>, <<>>, <<"[", "B", "]">> >>,
        << <<"bbsdir", "=", Quote, Quote, Quote, "w">>, <<"help", "=", "N", ";">>, <<>>,
           <<"[", "B", "]", Quote, Quote, Quote>> >>),
  Entry("remark", <<>>, "", <<>>, << <<";", "help", "=", "N">>, <<" ">>, <<"help">> >>)}

EndsOf(es) == [n \in 0 .. Len(es) |-> Len(FlattenSeq([i \in 1 .. n |-> es[i].lines]))]
Meant(es) == [entries |-> es, ends |-> EndsOf(es)]
Written(es) == FlattenSeq([i \in DOMAIN es |-> es[i].lines])
File(es) == [exists |-> TRUE, lines |-> Written(es)]
NoFile == [exists |-> FALSE, lines |-> <<>>]

Headers == {e \in Entries : e.kind = "header"}
Files ==
  (UNION {[1..n -> Entries] : n \in 0..3}) \cup {<<h>> \o es : h \in Headers, es \in [1..3 -> Entries]}
OneFile == <<Header("B"), Entry("plain", <<>>, "help", << <<"Y">> >>, << <<"help", "=", "Y">> >>),
             Entry("plain", <<>>, "bbsdir", << <<"u">> >>, << <<"bbsdir", "=", "u">> >>)>>

\* All files with a short command line, and all command lines with one file or none
MCCases ==
  {[words |-> Program, file |-> File(es), meant |-> Meant(es)] : es \in Files}
    \cup {[words |-> Program \o w, file |-> f, meant |-> nothing] :
            w \in CommandLines, f \in {NoFile, File(OneFile)}}

=============================================================================
