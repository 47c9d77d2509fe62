------------------------------- MODULE MCRelay -------------------------------
(* Pages of at most three rows and three grains of eight bytes; bodies of up  *)
(* to four bytes, whose literals take up to 26, more than a page on their own. *)
EXTENDS Relay

\* Out of range on both sides, one row, and the most that is allowed.
MCLimits == {-1, 0, 1, 2, 3}

\* What is escaped, surrogates alone and in the wrong order, and the longest body,
\* which is also the one with the longest literal.
MCTexts == {<<"high", "a">>, <<"a", "low">>, <<"high", "low">>, <<"pair">>,
            <<"quote", "backslash">>, <<"control", "control", "control", "control">>}

\* One digit, two, and the largest number of all.
MCRevs == {1, 10, MaxUint64}

Plain == ClientOp(<<"a">>, <<"quote", "a", "quote">>, 1)

\* Each check of ParseOp, failed.
MCJunk ==
  {[Plain EXCEPT !.wrapper = FALSE], [Plain EXCEPT !.valid = FALSE], [Plain EXCEPT !.fields = FALSE],
   [Plain EXCEPT !.literal = <<"quote", "quote", "quote">>],
   [Plain EXCEPT !.literal = <<"quote", "control", "quote">>],
   [Plain EXCEPT !.literal = <<"quote", "backslash", "quote">>],
   [Plain EXCEPT !.literal = <<"quote", "backslash", "u", "quote">>],
   [Plain EXCEPT !.literal = <<"a">>], [Plain EXCEPT !.digest = <<>>],
   [Plain EXCEPT !.kind = "other"], [Plain EXCEPT !.id = ""],
   [Plain EXCEPT !.rev = <<0>>], [Plain EXCEPT !.rev = <<0, 1>>], [Plain EXCEPT !.rev = <<NoDigit>>],
   [Plain EXCEPT !.rev = DecString(MaxUint64 + 1)], [Plain EXCEPT !.rev = <<>>],
   [Plain EXCEPT !.dev = 0], [Plain EXCEPT !.dev = MaxDeviceIDLen + 1],
   [Plain EXCEPT !.local = <<0, 0>>]}
=============================================================================
