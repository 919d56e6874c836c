---------------------------- MODULE Subsequences ----------------------------
(***************************************************************************)
(* The loops of the extension that copy the elements of a list which pass  *)
(* a test: SelectSeq with a set for its test, as a recursive function over *)
(* the length of what has been read, which proofs can reason about.        *)
(***************************************************************************)
LOCAL INSTANCE Naturals
LOCAL INSTANCE Sequences

Keep(s, K) ==
  LET kept[n \in 0 .. Len(s)] ==
        IF n = 0 THEN <<>>
        ELSE IF s[n] \in K THEN Append(kept[n - 1], s[n]) ELSE kept[n - 1]
  IN  kept[Len(s)]

=============================================================================
