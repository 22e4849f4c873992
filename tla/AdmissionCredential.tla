------------------------ MODULE AdmissionCredential ------------------------
(***************************************************************************)
(* Lumio.Game.EntityChat.Protocol: TryVerify reads an admission credential *)
(* with LumioBinReader, field by field, and checks signature, expiry and   *)
(* the namespace of bot names.                                             *)
(*                                                                         *)
(* A state is one call.  The wire is what the account server issued, with  *)
(* at most one byte damaged, missing or added on the way.  Numbers are one *)
(* byte wide; in a name, Prefix is "Bot", Digit any digit.                 *)
(***************************************************************************)
EXTENDS Integers, Sequences

CONSTANTS
  Key,      \* key ids
  Expected, \* the key id the verifier knows
  Name,     \* account and login names, sequences of bytes
  MaxTime   \* bound: times are 0..MaxTime

ASSUME KeyAssumption == Key \subseteq Nat /\ Expected \in Key
ASSUME TimeAssumption == MaxTime \in 0..127

VARIABLES
  signed, \* payload, nonce and trust domain that were signed
  bytes,  \* payload bytes of the wire
  offset, \* bytes consumed by the reader
  values, \* fields read so far
  now,    \* unixSeconds of the call
  result  \* "reading", "ok" or the error code

vars == <<signed, bytes, offset, values, now, result>>

Digit == 0
Prefix == 1
NonAscii == 128
Byte == 0..2 \cup {NonAscii}
Nonce == {0, 1}

\* The writer takes ASCII only.
ASSUME NameAssumption == \A n \in Name : n \in Seq(Nat) /\ \A i \in 1..Len(n) : n[i] <= 127

Time == 0..MaxTime
Payload ==
  [keyId : Key, account : Name, login : Name, bot : {0, 1}, issued : {0}, expires : Time]

Ascii(name) == <<Len(name)>> \o name

\* The account server's layout: version, keyId, account, login, bot flag, issuedAt,
\* expiresAt and nonce, without padding.  The nonce is no part of the payload.
Encode(p, nonce) ==
  <<1, p.keyId>> \o Ascii(p.account) \o Ascii(p.login)
    \o <<p.bot, p.issued, p.expires, nonce>>

Layout == <<"version", "keyId", "account", "login", "bot", "issued", "expires", "nonce">>

\* The wire as issued, or with one byte cut off, added or changed.
Arrived(s) ==
  {s, SubSeq(s, 1, Len(s) - 1)}
    \cup {Append(s, b) : b \in Byte}
    \cup {[s EXCEPT ![i] = b] : i \in DOMAIN s, b \in Byte}

Init ==
  /\ \E p \in Payload, n \in Nonce, d \in {"account-admission", "bot-tool"} :
       /\ signed = [payload |-> p, nonce |-> n, domain |-> d]
       /\ bytes \in Arrived(Encode(p, n))
  /\ now \in Time
  /\ offset = 0 /\ values = <<>> /\ result = "reading"
-----------------------------------------------------------------------------
(* LumioBinReader *)

Remaining == Len(bytes) - offset

\* TryReadAscii: the (unsigned) length is there, and so are that many bytes.
AsciiFits == Remaining >= 1 /\ bytes[offset + 1] <= Remaining - 1

Field == Layout[Len(values) + 1]

\* The checks on single fields in TryDecode.
Legal(value) ==
  /\ Field = "version" => value = 1
  /\ Field = "bot" => value \in {0, 1}

Malformed ==
  /\ result' = "admission_credential_malformed"
  /\ UNCHANGED <<offset, values>>

Take(value, width) ==
  IF Legal(value)
  THEN /\ values' = Append(values, value)
       /\ offset' = offset + width
       /\ UNCHANGED result
  ELSE Malformed

ReadNumber ==
  /\ Field \notin {"account", "login"}
  /\ IF Remaining < 1 THEN Malformed ELSE Take(bytes[offset + 1], 1)

ReadAscii ==
  /\ Field \in {"account", "login"}
  /\ IF ~AsciiFits THEN Malformed
     ELSE LET n == bytes[offset + 1]
              name == SubSeq(bytes, offset + 2, offset + 1 + n)
          IN IF \E i \in DOMAIN name : name[i] > 127 THEN Malformed
             ELSE Take(name, n + 1)

Read ==
  /\ result = "reading" /\ Len(values) < Len(Layout)
  /\ ReadNumber \/ ReadAscii
  /\ UNCHANGED <<signed, bytes, now>>
-----------------------------------------------------------------------------
(* TryVerify *)

\* Variant: account id and login name change places.
DecodedCrossed ==
  [keyId |-> values[2], account |-> values[4], login |-> values[3],
   bot |-> values[5], issued |-> values[6], expires |-> values[7]]

\* The nonce was read (values[8]) and is dropped.
Decoded ==
  [keyId |-> values[2], account |-> values[3], login |-> values[4],
   bot |-> values[5], issued |-> values[6], expires |-> values[7]]

\* BotLaunchNames.IsBotNamespace: "Bot" and digits, at least one.
IsBotNamespace(name) ==
  /\ Len(name) >= 2 /\ name[1] = Prefix
  /\ \A i \in 2..Len(name) : name[i] = Digit

\* LumioSignature.Verify: over these very bytes, in the admission domain.
SignatureOk ==
  /\ Decoded.keyId = Expected
  /\ signed.payload.keyId = Expected
  /\ signed.domain = "account-admission"
  /\ Encode(signed.payload, signed.nonce) = bytes

\* Variant: bytes after the nonce are ignored.
AnyRest == TRUE

NothingRemains == Remaining = 0

\* Variant: the last second is lost.
ExpiredAtOnce == now >= Decoded.expires

Expired == now > Decoded.expires

Verdict ==
  IF ~NothingRemains THEN "admission_credential_malformed"
  ELSE IF ~SignatureOk THEN "admission_credential_invalid_signature"
  ELSE IF Expired THEN "admission_credential_expired"
  ELSE IF IsBotNamespace(Decoded.login) /\ Decoded.bot = 0 THEN "bot_namespace_admission_forbidden"
  ELSE "ok"

Verify ==
  /\ result = "reading" /\ Len(values) = Len(Layout)
  /\ result' = Verdict
  /\ UNCHANGED <<signed, bytes, offset, values, now>>

Next == Read \/ Verify

Spec == Init /\ [][Next]_vars
-----------------------------------------------------------------------------
(* Properties *)

\* Canonical: bytes the decoder reads to the end are laid out as the writer lays
\* out the fields read from them; only the nonce, their last byte, is not among
\* those fields.
DecodedIsEncoded ==
  result \notin {"reading", "admission_credential_malformed"} =>
    bytes = Encode(Decoded, bytes[Len(bytes)])

\* What is accepted was signed, field for field, for admission, and is in time;
\* a bot's name among the signed fields was signed with the bot-tool context.
AcceptedAsSigned ==
  result = "ok" =>
    LET p == signed.payload
    IN /\ Decoded = p /\ signed.domain = "account-admission" /\ now <= p.expires
       /\ IsBotNamespace(p.login) => p.bot = 1

\* A credential that arrives as issued is accepted up to and including its last
\* second, unless a bot's name comes without the bot-tool context.
IntactIsAccepted ==
  LET p == signed.payload
  IN /\ bytes = Encode(p, signed.nonce)
     /\ signed.domain = "account-admission" /\ p.keyId = Expected
     /\ now <= p.expires /\ ~(IsBotNamespace(p.login) /\ p.bot = 0)
     => result \in {"reading", "ok"}
=============================================================================
