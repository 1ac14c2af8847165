----------------------------- MODULE MCEntryBody -----------------------------
(* Small entries for EntryBody, over the symbols a and b.                    *)
EXTENDS EntryBody, TLC

\* A pattern that is a prefix of another, a replacement that contains a pattern
\* again, and one that fills the pipe of the replacement.
Grows == (<<"a">> :> <<"b", "a">>) @@ (<<"a", "a", "b">> :> <<"c">>)
           @@ (<<"b", "b">> :> [i \in 1 .. 11 |-> "c"])

Make(declared, stream, header, marker, trusted, listed, attempts) ==
  [declared |-> declared, stream |-> stream, header |-> header, marker |-> marker,
   trusted |-> trusted, listed |-> listed, attempts |-> attempts]

\* What the archive may decode to when aba is declared: that, another content
\* with its CRC32, one with another CRC32, and a shorter and a longer one, each
\* streamed at once.
Streams == {<<"a", "b", "a">>, <<"b", "a", "a">>, <<"a", "a", "a">>,
            <<"b", "a">>, <<"a", "b", "a", "a">>}

Plain == {Make(<<"a", "b", "a">>, s, TRUE, FALSE, t, "None", 2) : s \in Streams, t \in BOOLEAN}

\* One that is compared, and one whose comparison fails.
Compared == {Make(<<"a", "b", "a">>, s, TRUE, FALSE, FALSE, "Same", 1) :
               s \in {<<"b", "a", "a">>, <<"a", "a", "a">>}}

\* bab is tried twice; of the others, the second fills the pipe and the last is
\* too long for a PUT.
Markers == {Make(<<"a", "b">>, <<"a", "b">>, TRUE, TRUE, TRUE, "Other", 2)}
           \cup {Make(s, s, TRUE, TRUE, TRUE, "Other", 1) :
                    s \in {<<"a", "a", "a", "b">>, <<"b", "b">>, <<"b", "b", "a">>}}

\* Declared empty, a local header that does not agree, and two that are spooled.
Odd == {Make(<<>>, <<>>, TRUE, FALSE, TRUE, "None", 2),
        Make(<<>>, <<"a">>, TRUE, FALSE, TRUE, "None", 2),
        Make(<<"a">>, <<"a">>, FALSE, FALSE, TRUE, "None", 2),
        Make(<<"a">>, <<"a">>, TRUE, FALSE, FALSE, "Same", 2),
        Make(<<"a", "a", "b">>, <<"a", "a", "b">>, TRUE, TRUE, FALSE, "Other", 2)}

\* Empty files, with a catalog and without one.
EmptyFiles == {Make(<<>>, <<>>, TRUE, FALSE, t, "None", 1) : t \in BOOLEAN}

Entries == Plain \cup Compared \cup Markers \cup Odd

=============================================================================
