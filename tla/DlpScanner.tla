----------------------------- MODULE DlpScanner -----------------------------
(***************************************************************************)
(* The masking half of the content scanner (risk.rs), and the key          *)
(* redaction (policy/redact.rs) that runs before it on server frames.      *)
(*                                                                         *)
(* A text is a sequence of tokens.  A digit, "-" and " " are themselves;   *)
(* "a" is any other word character and "." any other character.  A secret  *)
(* token is a whole match of one of the seven secret patterns, "db://" the *)
(* scheme of a database URL.  The two marks are what masking writes.       *)
(*                                                                         *)
(* A body, or a frame, is a record                                         *)
(*   utf8    whether the bytes are UTF-8;                                  *)
(*   json    whether they parse as JSON;                                   *)
(*   leaves  the scalars of the JSON tree, each with the key it stands     *)
(*           under; one leaf for a body that is not JSON.                  *)
(*                                                                         *)
(* Left out: the score and the flags a scan reports (RiskStage takes them  *)
(* as input), and the entropy windows, which only mask more.               *)
(***************************************************************************)
EXTENDS Integers, Sequences, SequencesExt

Digits == <<"0", "1", "2", "3", "4", "5", "6", "7", "8", "9">>

SecretPattern == {"openai", "google", "aws", "github", "slack", "pem", "jwt"}

MASK_TOKEN == "[PII]"
SECRET_MASK_TOKEN == "[SECRET]"

IsDigit(token) == token \in ToSet(Digits)
IsWord(token) == IsDigit(token) \/ token = "a"

\* \b in front of, and behind, the n tokens from i.
Bounded(text, i, n) ==
  /\ i > 1 => ~IsWord(text[i - 1])
  /\ i + n <= Len(text) => ~IsWord(text[i + n])

\* Regex::replace_all and the loop of mask_luhn_sequences: from the left, the
\* match[i] tokens of a match at i become one mark, a match of 0 tokens is none.
SubstituteAll(text, match, mark) ==
  LET from[i \in 1 .. Len(text) + 1] ==
        IF i > Len(text) THEN << >>
        ELSE LET n == match[i]
             IN  IF n = 0 THEN <<text[i]>> \o from[i + 1]
                 ELSE <<mark>> \o from[i + n]
  IN  from[1]

-----------------------------------------------------------------------------
(* The patterns. *)

SecretAt(text, i) == IF text[i] \in SecretPattern THEN 1 ELSE 0

\* SSN_RE: three, two and four digits joined by hyphens.
SsnAt(text, i) ==
  IF /\ i + 10 <= Len(text)
     /\ \A k \in 0 .. 10 : IF k \in {3, 6} THEN text[i + k] = "-" ELSE IsDigit(text[i + k])
     /\ Bounded(text, i, 11)
  THEN 11
  ELSE 0

\* DB_URL_RE: the scheme and everything up to a blank, at least one character.
DbUrlAt(text, i) ==
  LET blanks == {j \in i + 1 .. Len(text) : text[j] = " "}
      end == IF blanks = {} THEN Len(text) + 1 ELSE CHOOSE j \in blanks : \A k \in blanks : j <= k
  IN  IF text[i] = "db://" /\ end > i + 1 THEN end - i ELSE 0

-----------------------------------------------------------------------------
(* Card numbers. *)

luhn_checksum(digits) ==
  LET value(i) == (CHOOSE n \in 1 .. 10 : Digits[n] = digits[i]) - 1
      doubled(i) == IF value(i) > 4 THEN 2 * value(i) - 9 ELSE 2 * value(i)
      term(i) == IF (Len(digits) - i) % 2 = 1 THEN doubled(i) ELSE value(i)
  IN  FoldLeft(LAMBDA sum, i : sum + term(i), 0, [i \in DOMAIN digits |-> i]) % 10 = 0

is_luhn_valid(digits) == Len(digits) \in 13 .. 16 /\ luhn_checksum(digits)

\* A digit, or one separator that a digit follows, carries a candidate on.
Continues(text, i) ==
  \/ IsDigit(text[i])
  \/ text[i] \in {"-", " "} /\ i < Len(text) /\ IsDigit(text[i + 1])

\* Mutant of read_card_candidate: separators end a candidate.
read_card_candidate_unbroken(text, i) ==
  (CHOOSE n \in 0 .. Len(text) + 1 - i :
     /\ \A k \in 0 .. n - 1 : IsDigit(text[i + k])
     /\ i + n <= Len(text) => ~IsDigit(text[i + n]))

\* How many tokens the candidate that starts at i has.
read_card_candidate(text, i) ==
  (CHOOSE n \in 0 .. Len(text) + 1 - i :
     /\ \A k \in 0 .. n - 1 : Continues(text, i + k)
     /\ i + n <= Len(text) => ~Continues(text, i + n))

CardAt(text, i) ==
  LET n == read_card_candidate(text, i)
  IN  IF is_luhn_valid(SelectSeq(SubSeq(text, i, i + n - 1), IsDigit)) THEN n ELSE 0

mask_luhn_sequences(text) == SubstituteAll(text, [i \in DOMAIN text |-> CardAt(text, i)], MASK_TOKEN)

-----------------------------------------------------------------------------
(* Texts, bodies and frames. *)

\* How many characters a token has, at least.
Width(token) ==
  IF token \in SecretPattern \cup {MASK_TOKEN, SECRET_MASK_TOKEN} THEN 20
  ELSE IF token = "db://" THEN 8
  ELSE 1

\* Texts of at least 8 characters that hold a digit, a hyphen, a scheme or a prefix
\* of a secret, or that have 16 characters.
string_needs_scan(text) ==
  LET length == FoldLeft(LAMBDA n, token : n + Width(token), 0, text)
  IN  /\ length >= 8
      /\ \/ length >= 16
         \/ \E i \in DOMAIN text : IsDigit(text[i]) \/ text[i] = "-" \/ Width(text[i]) > 1

mask_secret_patterns(text) == SubstituteAll(text, [i \in DOMAIN text |-> SecretAt(text, i)], SECRET_MASK_TOKEN)

MaskSsn(text) == SubstituteAll(text, [i \in DOMAIN text |-> SsnAt(text, i)], MASK_TOKEN)
MaskDbUrl(text) == SubstituteAll(text, [i \in DOMAIN text |-> DbUrlAt(text, i)], MASK_TOKEN)

\* The text after every pass, in the order of the code.
scan_string(text) ==
  IF string_needs_scan(text)
  THEN mask_luhn_sequences(MaskDbUrl(MaskSsn(mask_secret_patterns(text))))
  ELSE text

\* scan_value: strings only; keys, numbers and the other scalars stay.
scan_value(leaves) ==
  [i \in DOMAIN leaves |->
     IF leaves[i].string THEN [leaves[i] EXCEPT !.text = scan_string(@)] ELSE leaves[i]]

\* Bytes that are not UTF-8 are left alone; text that is not JSON is masked for
\* secrets only.
mask_secrets_in_frame(body) ==
  IF ~body.utf8 THEN body
  ELSE IF body.json THEN [body EXCEPT !.leaves = scan_value(@)]
  ELSE [body EXCEPT !.leaves = <<[@[1] EXCEPT !.text = mask_secret_patterns(@)]>>]

\* try_redact_global_secrets: the value under a redacted key becomes a string of its own;
\* a frame that is not JSON keeps its bytes, and only the report differs.
redact_value(body, keys) ==
  IF body.utf8 /\ body.json
  THEN [body EXCEPT !.leaves =
          [i \in DOMAIN @ |->
             IF @[i].key \in keys
             THEN [key |-> @[i].key, string |-> TRUE, text |-> <<"[REDACTED]">>]
             ELSE @[i]]]
  ELSE body

\* Mutant of sanitize_server_frame: where the keys can be applied nothing else is.
sanitize_by_keys_or_patterns(keys, frame) ==
  IF frame.utf8 /\ frame.json THEN redact_value(frame, keys) ELSE mask_secrets_in_frame(frame)

\* The policy's keys, then the patterns: on a frame the keys could not be applied to,
\* the patterns still are.  Without a policy keys is empty.
sanitize_server_frame(keys, frame) == mask_secrets_in_frame(redact_value(frame, keys))

-----------------------------------------------------------------------------
(* What the properties of the modules that mask mean by a masked body.     *)

\* A reading of "card number" that is not the scanner's loop: a stretch of digits, in
\* which single separators may stand, with 13 to 16 digits that pass the checksum up to
\* its end.
Stretches(text) ==
  {s \in (DOMAIN text) \X (DOMAIN text) :
     /\ s[1] <= s[2] /\ IsDigit(text[s[1]]) /\ IsDigit(text[s[2]])
     /\ \A i \in s[1] .. s[2] : ~IsDigit(text[i]) =>
          text[i] \in {"-", " "} /\ IsDigit(text[i + 1])
     /\ s[2] < Len(text) => ~IsDigit(text[s[2] + 1])
     /\ s[2] + 1 < Len(text) => ~(text[s[2] + 1] \in {"-", " "} /\ IsDigit(text[s[2] + 2]))}

EndsInCard(text, s) == is_luhn_valid(SelectSeq(SubSeq(text, s[1], s[2]), IsDigit))

\* What stands right behind position i was masked.
MarkFollows(text, i) ==
  \E j \in i + 1 .. i + 2 :
    /\ j <= Len(text) /\ text[j] = MASK_TOKEN
    /\ j = i + 2 => text[i + 1] \in {"-", " "}

SecretFree(text) == \A i \in DOMAIN text : text[i] \notin SecretPattern

Masked(text) ==
  /\ SecretFree(text)
  /\ \A i \in DOMAIN text : text[i] = "db://" => i = Len(text) \/ text[i + 1] \in {" ", MASK_TOKEN}
  /\ \A s \in Stretches(text) : EndsInCard(text, s) => MarkFollows(text, s[2])
  /\ \A i \in DOMAIN text : SsnAt(text, i) > 0 => MarkFollows(text, i + 10)

MaskedBody(body) ==
  body.utf8 =>
    \A i \in DOMAIN body.leaves :
      IF ~body.json THEN SecretFree(body.leaves[i].text)
      ELSE body.leaves[i].string => Masked(body.leaves[i].text)
=============================================================================
