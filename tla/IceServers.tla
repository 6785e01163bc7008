------------------------------- MODULE IceServers -------------------------------
(***************************************************************************)
(* ICE servers as the user writes them, one entry per line:                  *)
(* crates/app-core/src/ice_servers.rs.                                      *)
(***************************************************************************)
EXTENDS Texts

CONSTANTS None, Invalid

Schemes == {"stun:", "stuns:", "turn:", "turns:"}

\* to_spec_line: a username is followed by the credential.
SpecLine(entry) ==
  Joined(entry.urls, <<",">>)
    \o IF entry.username = None THEN <<>>
       ELSE <<"|">> \o entry.username \o <<"|">>
              \o IF entry.credential = None THEN <<>> ELSE entry.credential

\* format_ice_server_entries
FormatEntries(entries) == Joined([i \in DOMAIN entries |-> SpecLine(entries[i])], <<Newline>>)

\* is_supported_ice_url
Supported(url) == Head(url) \in Schemes

\* One entry of parse_ice_server_line: an empty field is none.
Given(text) == IF text = <<>> THEN None ELSE text
Field(parts, i) == IF i \in DOMAIN parts THEN Given(Trim(parts[i])) ELSE None
Entry(urls, username, credential) ==
  IF urls # <<>> /\ (\A i \in DOMAIN urls : Supported(urls[i])) /\ (username = None <=> credential = None)
    THEN [urls |-> urls, username |-> username, credential |-> credential] ELSE Invalid

\* parse_ice_server_line
ParseLine(line) ==
  LET parts == Split(line, {"|"})
  IN IF Len(parts) > 3 THEN Invalid
     ELSE Entry(NotEmpty(Trimmed(Split(parts[1], {","}))), Field(parts, 2), Field(parts, 3))

\* parse_ice_server_entries: one line that is no entry spoils the whole input.
AddEntry(entries, entry) ==
  IF entries = Invalid \/ entry = Invalid THEN Invalid ELSE Append(entries, entry)
ParseEntries(text) ==
  FoldLeft(LAMBDA entries, line : AddEntry(entries, ParseLine(line)), <<>>,
           NotEmpty(Trimmed(LinesOf(text))))
=============================================================================
