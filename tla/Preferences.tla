------------------------------ MODULE Preferences ------------------------------
(***************************************************************************)
(* The preferences file: crates/app-core/src/preferences.rs.  It is read    *)
(* line by line when the application starts and written as a whole, in      *)
(* place, when a setting changes.                                          *)
(***************************************************************************)
EXTENDS IceServers

CONSTANT Intervals  \* refresh intervals that parse as a number above zero

\* The file's words.  "true" and "false" are two tokens each, so that a file
\* can end in the middle of them.
Header == <<"video-p2p-mvp-session-v1">>
Flag(value) == IF value THEN <<"tr", "ue">> ELSE <<"fal", "se">>
Flags == {Flag(TRUE), Flag(FALSE)}

\* PersistedSessionConfig::default
DefaultConfig ==
  [room |-> None, addr |-> None, label |-> None, servers |-> <<>>, source |-> None,
   audio |-> FALSE, refresh |-> TRUE, interval |-> <<"3">>]

EscapeValue(text) ==
  Escape(Escape(Escape(Escape(text, "%", "2", "5"), "=", "3", "D"), "cr", "0", "D"), Newline, "0", "A")
UnescapeValue(text) ==
  Unescape(Unescape(Unescape(Unescape(text, Newline, "0", "A"), "cr", "0", "D"), "=", "3", "D"),
           "%", "2", "5")

\* push_optional_line
OptionalLine(key, value) ==
  IF value = None THEN <<>> ELSE <<key, "=">> \o EscapeValue(value) \o <<Newline>>

\* The lines of a selection: its source, then whether its audio is wanted.
\* Mistake: the audio comes first.
FaultySelectionLines(config) ==
  IF config.source = None THEN <<>>
  ELSE <<"selected_source_audio", "=">> \o Flag(config.audio) \o <<Newline>>
         \o OptionalLine("selected_source_id", config.source)

SelectionLines(config) ==
  IF config.source = None THEN <<>>
  ELSE OptionalLine("selected_source_id", config.source)
         \o <<"selected_source_audio", "=">> \o Flag(config.audio) \o <<Newline>>

\* format_preferences
FormatPreferences(config) ==
  Header \o <<Newline>>
    \o OptionalLine("room", config.room)
    \o OptionalLine("signaling_addr", config.addr)
    \o OptionalLine("source_label", config.label)
    \o OptionalLine("ice_servers", IF config.servers = <<>> THEN None ELSE FormatEntries(config.servers))
    \o SelectionLines(config)
    \o <<"ui_auto_refresh", "=">> \o Flag(config.refresh) \o <<Newline>>
    \o <<"ui_refresh_interval_secs", "=">> \o config.interval \o <<Newline>>

\* One setting of parse_preferences.
WithServers(config, servers) ==
  IF servers = Invalid THEN Invalid ELSE [config EXCEPT !.servers = servers]
Setting(config, key, value) ==
  CASE key = <<"room">>           -> [config EXCEPT !.room = value]
    [] key = <<"signaling_addr">> -> [config EXCEPT !.addr = value]
    [] key = <<"source_label">>   -> [config EXCEPT !.label = value]
    [] key = <<"ice_servers">>    -> WithServers(config, ParseEntries(value))
    [] key = <<"selected_source_id">> -> [config EXCEPT !.source = value]
    [] key = <<"selected_source_audio">> ->
         IF value \in Flags THEN [config EXCEPT !.audio = value = Flag(TRUE)] ELSE Invalid
    [] key = <<"ui_auto_refresh">> ->
         IF value \in Flags THEN [config EXCEPT !.refresh = value = Flag(TRUE)] ELSE Invalid
    [] key = <<"ui_refresh_interval_secs">> ->
         IF value \in Intervals THEN [config EXCEPT !.interval = value] ELSE Invalid
    [] OTHER -> config

\* One line of parse_preferences: what is read so far, and the line.
ParseSetting(config, line) ==
  LET halves == SplitN(line, {"="}, 2)
  IN IF config = Invalid \/ line = <<>> THEN config
     ELSE IF Len(halves) = 1 THEN Invalid
     ELSE Setting(config, halves[1], UnescapeValue(halves[2]))

\* parse_preferences: the audio flag counts with a source only.
Settled(config) ==
  IF config = Invalid THEN Invalid ELSE [config EXCEPT !.audio = @ /\ config.source # None]
ParseLines(lines) ==
  IF lines = <<>> THEN Invalid
  ELSE IF lines[1] # Header THEN Invalid
  ELSE Settled(FoldLeft(ParseSetting, DefaultConfig, Tail(lines)))
ParsePreferences(content) == ParseLines(Trimmed(LinesOf(content)))
=============================================================================
