------------------------------- MODULE SourceIds -------------------------------
(***************************************************************************)
(* How capture sources get their ids, and how an id finds its source again: *)
(* crates/capture-linux/src/lib.rs and crates/capture-macos/src/native.rs.  *)
(***************************************************************************)
EXTENDS Texts

CONSTANTS
  Letters,  \* the tokens that are ASCII letters or digits
  Numerals, \* the texts that parse as a u32 above zero
  None

\* The text of an id is a text of its own, made of words and dashes.
Dashes == {"-"}

\* slugify; upper case is left out.
Slugify(text) ==
  LET words == NotEmpty(Split([i \in DOMAIN text |-> IF text[i] \in Letters THEN text[i] ELSE "-"],
                              Dashes))
  IN IF words = <<>> THEN <<"unnamed">> ELSE Joined(words, <<"-">>)

\* make_source_id.  Mistake: without the window's own id.
FaultyWindowId(window, app, title) ==
  <<"linux-window", "-">> \o Slugify(app) \o <<"-">> \o Slugify(title)

WindowId(window, app, title) ==
  <<"linux-window", "-">> \o window \o <<"-">> \o Slugify(app) \o <<"-">> \o Slugify(title)

\* parse_window_row: a row has a source if words are left for a title; "apps"
\* says which process a pid belongs to, if ps knows it.
IsTitled(line) == Len(Words(line)) > 4
ParseRow(line, apps) ==
  LET words == Words(line)
      title == Joined(SubSeq(words, 5, Len(words)), <<" ">>)
      app   == IF words[3] \in DOMAIN apps THEN apps[words[3]] ELSE <<"unknown-app">>
  IN [id |-> WindowId(words[1], app, title), title |-> title]

\* parse_window_listing: of two windows with one id the first is kept.
NextSource(sources, line, apps) ==
  LET source == ParseRow(line, apps)
  IN IF IsTitled(line) /\ \A i \in 1..Len(sources) : sources[i].id # source.id
     THEN Append(sources, source) ELSE sources
ParseListing(raw, apps) ==
  LET lines == LinesOf(raw)
      sources[i \in 0..Len(lines)] ==
        IF i = 0 THEN <<>> ELSE NextSource(sources[i - 1], lines[i], apps)
  IN sources[Len(lines)]

\* The ids the ScreenCaptureKit catalog gives out, and NativeTarget::parse.
MacKinds == {"window", "application", "display"}
Prefix(kind) == <<"macos", "-", kind, "-">>
MacId(target) ==
  Prefix(target.kind) \o target.identifier
    \o IF target.kind = "application" THEN <<"-">> \o target.display ELSE <<>>

ParseTarget(id, kind) ==
  LET fields == Split(SubSeq(id, Len(Prefix(kind)) + 1, Len(id)), Dashes)
      wanted == IF kind = "application" THEN 2 ELSE 1
  IN IF /\ IsPrefix(Prefix(kind), id) /\ Len(fields) = wanted
        /\ \A i \in DOMAIN fields : fields[i] \in Numerals
       THEN [kind |-> kind, identifier |-> fields[1],
             display |-> IF wanted = 2 THEN fields[2] ELSE None]
       ELSE None
=============================================================================
