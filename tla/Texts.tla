--------------------------------- MODULE Texts ---------------------------------
(***************************************************************************)
(* The methods of Rust's str that the codecs of this repository use.  A     *)
(* text is a sequence of tokens: characters where a conversion looks at     *)
(* them, whole words, such as "SIG", where nothing takes them apart.        *)
(***************************************************************************)
EXTENDS Integers, Sequences, FiniteSetsExt, SequencesExt, Retain

Newline == "nl"
Blanks  == {" ", "cr", Newline}

\* split, with n parts at most: splitn.  A separator begins a part, any other
\* token goes to the last one.
NextPart(parts, c, separators, n) ==
  IF c \in separators /\ Len(parts) < n THEN Append(parts, <<>>)
  ELSE [parts EXCEPT ![Len(parts)] = Append(@, c)]
SplitN(text, separators, n) ==
  LET parts[i \in 0..Len(text)] ==
        IF i = 0 THEN << <<>> >> ELSE NextPart(parts[i - 1], text[i], separators, n)
  IN parts[Len(text)]
Split(text, separators) == SplitN(text, separators, Len(text) + 1)

NotEmpty(texts) == Retain(texts, {i \in 1..Len(texts) : texts[i] # <<>>})

\* split_whitespace
Words(text) == NotEmpty(Split(text, Blanks))

\* lines: a carriage return before the newline goes with it.
Chomped(line) == IF line # <<>> /\ Last(line) = "cr" THEN Front(line) ELSE line
Terminated(parts) ==
  [i \in 1..(Len(parts) - 1) |-> Chomped(parts[i])] \o NotEmpty(<<Last(parts)>>)
LinesOf(text) == Terminated(Split(text, {Newline}))

Solid(text) == {i \in 1..Len(text) : text[i] \notin Blanks}
Cut(text, from, to) == IF to = {} THEN <<>> ELSE SubSeq(text, Min(from), Max(to))
TrimEnd(text) == Cut(text, {1}, Solid(text))
Trim(text) == Cut(text, Solid(text), Solid(text))
Trimmed(texts) == [i \in DOMAIN texts |-> Trim(texts[i])]

\* join
NextJoined(joined, text, separator) ==
  IF joined = <<>> THEN text ELSE joined \o separator \o text
Joined(texts, separator) ==
  LET joined[i \in 0..Len(texts)] ==
        IF i = 0 THEN <<>> ELSE NextJoined(joined[i - 1], texts[i], separator)
  IN joined[Len(texts)]

\* replace, from left to right
Replace(text, pattern, by) ==
  LET from[i \in 1..(Len(text) + 1)] ==
        IF i > Len(text) THEN <<>>
        ELSE IF IsPrefix(pattern, SubSeq(text, i, Len(text))) THEN by \o from[i + Len(pattern)]
        ELSE <<text[i]>> \o from[i + 1]
  IN from[1]

\* A character as a percent sign and two more, and back.
Escape(text, c, x, y)   == Replace(text, <<c>>, <<"%", x, y>>)
Unescape(text, c, x, y) == Replace(text, <<"%", x, y>>, <<c>>)
=============================================================================
