------------------------------- MODULE ApiTokens -------------------------------
(***************************************************************************)
(* The text of an API key (packages/postgres: api-keys.ts).  A token holds  *)
(* an id and a secret, each in base32; create writes it, authenticate takes *)
(* it apart again.  A character is its place in the alphabet, and a         *)
(* character outside it is 32.                                              *)
(***************************************************************************)
EXTENDS Naturals, SequencesExt

CONSTANTS
  IdBytes, SecretBytes, \* their lengths; 5 and 2 leave as many bits over as 10 and 32
  IdsIssued, SecretsIssued, \* byte sequences randomBytes may give
  MaxPresented          \* bound: tokens presented

VARIABLES
  keyRow,    \* the row of the key: [made, id, secret, active], its id as text
  issued,    \* the token create returned
  presented, \* the last token a request carried
  principal, \* the key authenticate found for it, or not
  asked      \* tokens presented

tokenVars == <<keyRow, issued, presented, principal, asked>>

\* Eight bits in, five out for as long as there are five; the rest is padded.
\* Only the low twelve bits of the value are ever read again.
Base32(bytes) ==
  LET step(acc, byte) ==
        LET value == acc.value * 256 + byte
            bits  == acc.bits + 8
            n     == bits \div 5
        IN  [out   |-> acc.out \o [i \in 1..n |-> (value \div 2^(bits - 5 * i)) % 32],
             bits  |-> bits % 5,
             value |-> value % 4096]
      end == FoldLeft(step, [out |-> <<>>, bits |-> 0, value |-> 0], bytes)
  IN  IF end.bits = 0 THEN end.out ELSE Append(end.out, (end.value * 2^(5 - end.bits)) % 32)

Refused == [made |-> FALSE]

TextLength(length) == (8 * length + 4) \div 5

\* Slip: the bits left over may be anything.
LeftoverAny(end) == TRUE

Leftover(end) == end.value % 2^end.bits = 0

\* The exact inverse of Base32 for length bytes, and no other spelling.
Unbase32(text, length) ==
  LET step(acc, digit) ==
        LET value == (acc.value * 32 + digit) % 4096
            bits  == acc.bits + 5
        IN  IF bits >= 8
            THEN [out |-> Append(acc.out, (value \div 2^(bits - 8)) % 256), bits |-> bits - 8, value |-> value]
            ELSE [out |-> acc.out, bits |-> bits, value |-> value]
      end == FoldLeft(step, [out |-> <<>>, bits |-> 0, value |-> 0], text)
  IN  IF Len(text) # TextLength(length) \/ 32 \in Range(text) \/ ~Leftover(end) THEN Refused
      ELSE [made |-> TRUE, bytes |-> end.out]

\* The public id is looked up as it is spelled, the secret by its bytes.
ParseApiKeyToken(token) ==
  LET secret == Unbase32(token.secret, SecretBytes) IN
  IF ~secret.made \/ ~Unbase32(token.id, IdBytes).made THEN Refused
  ELSE [made |-> TRUE, id |-> token.id, secret |-> secret.bytes]

Create(id, secret) ==
  /\ ~keyRow.made
  /\ keyRow' = [made |-> TRUE, id |-> Base32(id), secret |-> secret, active |-> TRUE]
  /\ issued' = [id |-> Base32(id), secret |-> Base32(secret)]
  /\ UNCHANGED <<presented, principal, asked>>

Deactivate ==
  /\ keyRow.made /\ keyRow.active
  /\ keyRow' = [keyRow EXCEPT !.active = FALSE]
  /\ UNCHANGED <<issued, presented, principal, asked>>

Authenticate(token) ==
  /\ asked < MaxPresented /\ asked' = asked + 1
  /\ presented' = token
  /\ principal' = LET parsed == ParseApiKeyToken(token) IN
                  parsed.made /\ keyRow.made /\ keyRow.id = parsed.id
                    /\ keyRow.secret = parsed.secret /\ keyRow.active
  /\ UNCHANGED <<keyRow, issued>>

\* What a text becomes when its end is mistyped, cut off or run on.
Misspellings(text) ==
  {text, Front(text), Append(text, 0)} \cup {[text EXCEPT ![Len(text)] = d] : d \in 0..32}

TokensInit ==
  /\ keyRow = Refused /\ issued = Refused /\ presented = Refused
  /\ principal = FALSE /\ asked = 0

TokensNext ==
  \/ \E id \in IdsIssued, secret \in SecretsIssued : Create(id, secret)
  \/ Deactivate
  \/ /\ keyRow.made
     /\ \E id \in Misspellings(issued.id), secret \in Misspellings(issued.secret) :
          Authenticate([id |-> id, secret |-> secret])

--------------------------------------------------------------------------------
(* Properties *)

\* A key is found for the token create returned while it is active, and for no
\* other text: what parseApiKeyToken accepts is what base32 writes, "or two
\* spellings would name one key" (api-keys.ts).
OneSpelling ==
  [][asked' # asked => (principal' <=> keyRow.active /\ presented' = issued)]_tokenVars
===============================================================================
