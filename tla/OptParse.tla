------------------------------ MODULE OptParse -------------------------------
(***************************************************************************)
(* sbma_parse_optstr: the string of options given to sbma_init and to      *)
(* sbma_mallopt, as the sequence of its tokens.  An option is a bit of     *)
(* vmm.opts; a token decides one or several bits.                          *)
(***************************************************************************)
EXTENDS Integers, Sequences, FiniteSetsExt

CONSTANT MaxTokens  \* bound on the tokens of a string

ASSUME OptAssumption == MaxTokens \in Nat

OptBits == {"RSDNT", "LZYRD", "ADMITD", "AGGCH", "GHOST", "MERGE", "METACH", "MLOCK",
            "CHECK", "EXTRA", "OSVMM"}
INVLD == {"INVLD"}

\* The bits that "default" is taken to decide: all but ADMITD.
all == OptBits \ {"ADMITD"}

\* What each token decides, and which of that it turns on.  A token that is
\* none of these is refused.
Token(name, mask, on) == [name |-> name, mask |-> mask, on |-> on]
Tokens ==
  { Token("evict", {"RSDNT"}, {}),      Token("rsdnt", {"RSDNT"}, {"RSDNT"}),
    Token("aggrd", {"LZYRD"}, {}),      Token("lzyrd", {"LZYRD"}, {"LZYRD"}),
    Token("admitr", {"ADMITD"}, {}),    Token("admitd", {"ADMITD"}, {"ADMITD"}),
    Token("noaggch", {"AGGCH"}, {}),    Token("aggch", {"AGGCH"}, {"AGGCH"}),
    Token("noghost", {"GHOST"}, {}),    Token("ghost", {"GHOST"}, {"GHOST"}),
    Token("nomerge", {"MERGE"}, {}),    Token("merge", {"MERGE"}, {"MERGE"}),
    Token("nometach", {"METACH"}, {}),  Token("metach", {"METACH"}, {"METACH"}),
    Token("nomlock", {"MLOCK"}, {}),    Token("mlock", {"MLOCK"}, {"MLOCK"}),
    Token("nocheck", {"CHECK", "EXTRA"}, {}),
    Token("check", {"CHECK", "EXTRA"}, {"CHECK"}),
    Token("extra", {"CHECK", "EXTRA"}, {"CHECK", "EXTRA"}),
    Token("noosvmm", {"OSVMM"}, {}),    Token("osvmm", {"OSVMM"}, {"OSVMM"}),
    Token("default", all, {"LZYRD", "MERGE"}) }
Unknown == Token("other", {}, {})

VARIABLES given,  \* the tokens read so far
          seen,   \* the bits the macro toggles
          opts    \* the options collected, or the result
VARIABLE parse    \* "more", "done"

optvars == <<given, seen, opts, parse>>

OptInit == given = <<>> /\ seen = {} /\ opts = {} /\ parse = "more"

\* SBMA_OPTCMP's side effect and its verdict for the token whose name matched.
\* The mutant collects the bits instead of toggling them.
ToggledOr(mask) == seen \union mask
Toggled(mask) == SymDiff(seen, mask)

\* One round of the loop: the token is taken, or the string is refused.
ParseToken(t) ==
  /\ parse = "more" /\ Len(given) < MaxTokens
  /\ given' = Append(given, t)
  /\ seen' = Toggled(t.mask)
  /\ IF t # Unknown /\ t.mask \subseteq seen'
     THEN opts' = opts \union t.on /\ UNCHANGED parse
     ELSE opts' = INVLD /\ parse' = "done"

\* The combinations refused after the loop.
Refused ==
  \/ "OSVMM" \in opts /\ opts # {"OSVMM"}
  \/ "AGGCH" \in opts /\ "LZYRD" \notin opts
  \/ "EXTRA" \in opts /\ "CHECK" \notin opts

ParseEnd ==
  /\ parse = "more"
  /\ parse' = "done"
  /\ opts' = IF Refused THEN INVLD ELSE opts
  /\ UNCHANGED <<given, seen>>

OptNext == (\E t \in Tokens \union {Unknown} : ParseToken(t)) \/ ParseEnd

OptSpec == OptInit /\ [][OptNext]_optvars

------------------------------------------------------------------------------
\* What a list of tokens means, whatever their order, in the words of sbma.h:
\* every option is given at most once, default gives one for each of them
\* (sbma.h:175), aggressive charging needs lazy reading and the system's own
\* virtual memory excludes the rest.
Decided(i, b) == b \in given[i].mask \/ given[i].name = "default"
Clash(i, j) == i # j /\ \E b \in OptBits : Decided(i, b) /\ Decided(j, b)

\* The one clash the code lets pass: default besides admitr or admitd.
Besides(i, j) == given[i].name = "default" /\ given[j].name \in {"admitr", "admitd"}
Contradicts == \E i, j \in DOMAIN given : Clash(i, j) /\ ~ Besides(i, j) /\ ~ Besides(j, i)
Wanted == UNION {given[i].on : i \in DOMAIN given}
Meaning ==
  IF \/ Unknown \in {given[i] : i \in DOMAIN given}
     \/ Contradicts
     \/ "AGGCH" \in Wanted /\ "LZYRD" \notin Wanted
     \/ "OSVMM" \in Wanted /\ Wanted # {"OSVMM"}
  THEN INVLD ELSE Wanted

\* sbma_parse_optstr returns the meaning of its string: the toggling of seen
\* ("check if the option has been seen before") refuses exactly the strings that
\* decide an option twice, also when one token decides two options or all of
\* them, but for admitr or admitd besides default, which is not refused.
OptMeaning == parse = "done" => opts = Meaning

\* sbma.h at its word: default, which "evict,lzyrd,admitr,..." spells out, leaves
\* admission by dirty memory off.
DefaultDecides ==
  parse = "done" /\ (\E i \in DOMAIN given : given[i].name = "default") => "ADMITD" \notin opts

\* The comment in parse_optstr.c ("VMM_AGGCH is only valid without VMM_LZYRD")
\* taken at its word: an accepted string never has both.
AggchAlone == parse = "done" => ~ {"AGGCH", "LZYRD"} \subseteq opts

==============================================================================
