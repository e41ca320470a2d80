---------------------------- MODULE MC_Tokenizer ----------------------------
EXTENDS Tokenizer

\* Update contents: plain words, words ending in a delimiter, and two that
\* FileText's kinds do not describe (a delimiter inside a word, a
\* delimiter first).
MCContents == {<<"a">>, <<"a", ".">>, <<".">>, <<"a", " ", "a", ".">>,
               <<"a", ".", "a">>, <<".", " ", "a">>}

\* A file's bytes: a letter, a space, a newline and a delimiter.
MCChars == {"a", " ", ".", "\n"}

\* Word indices: one below the range, and the indices of short sentences.
MCWordIdx == -1..2

\* With the byte 0xFF as well.
MCCharsFF == {"a", " ", ".", ByteFF}

====
