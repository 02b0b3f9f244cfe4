---------------------------------- MODULE Keys ----------------------------------
(***************************************************************************)
(* core/src/auth.rs: the private key of a PEM file and the algorithm that   *)
(* signs with it.                                                          *)
(*                                                                         *)
(* A file is a sequence of PEM blocks; what a block encodes (the algorithm  *)
(* and the curve of its key, the passphrase that opens it) is in its        *)
(* fields, since reading DER and decrypting are the libraries' work.       *)
(***************************************************************************)
EXTENDS Integers, Sequences, FiniteSets, SequencesExt, TLC

\* secret: the passphrase of an encrypted block, <<>> otherwise.
Block(tag, kind, curve, secret) == [tag |-> tag, kind |-> kind, curve |-> curve, secret |-> secret]

Error(what) == [error |-> what]
IsError(result) == "error" \in DOMAIN result

\* strip_line_ending: one line ending, of one or two characters.
StripLineEnding(text) ==
  IF text = <<>> \/ Last(text) # "\n" THEN text
  ELSE IF Len(text) > 1 /\ text[Len(text) - 1] = "\r" THEN Front(Front(text))
  ELSE Front(text)

\* parse_pem_block, for a tag of the file.
Tags(blocks) == {blocks[i].tag : i \in DOMAIN blocks}
PemBlock(blocks, tag) == SelectSeq(blocks, LAMBDA b : b.tag = tag)[1]

Key(block, algorithm) == [block |-> block, algorithm |-> algorithm]

\* ec_curve_oid_to_algorithm, and the same choice of parse_sec1_ec_pem: explicit
\* parameters and other curves are refused.
EcKey(block) ==
  IF block.curve = "P-256" THEN Key(block, "ES256")
  ELSE IF block.curve = "P-384" THEN Key(block, "ES384")
  ELSE Error("curve")

\* The key of a PKCS#8 block, by its object identifier.
Pkcs8Key(block) ==
  CASE block.kind = "RSA" -> Key(block, "RS256")
    [] block.kind = "EC" -> EcKey(block)
    [] block.kind = "Ed25519" -> Key(block, "EdDSA")
    [] OTHER -> Error("algorithm")

\* parse_encrypted_key.
EncryptedKey(block, passphrase) ==
  IF block.secret # passphrase THEN Error("decrypt") ELSE Pkcs8Key(block)

\* parse_unencrypted_key: PKCS#1 before SEC1 before PKCS#8, wherever they stand.
UnencryptedKey(blocks) ==
  CASE "RSA PRIVATE KEY" \in Tags(blocks) -> Key(PemBlock(blocks, "RSA PRIVATE KEY"), "RS256")
    [] "EC PRIVATE KEY" \in Tags(blocks) -> EcKey(PemBlock(blocks, "EC PRIVATE KEY"))
    [] "PRIVATE KEY" \in Tags(blocks) -> Pkcs8Key(PemBlock(blocks, "PRIVATE KEY"))
    [] OTHER -> Error("no key")

\* parse_private_key and KeyPairAuth::new: `files` are the readable files; there is a
\* passphrase exactly when a file is named for it.
ReadKey(files, keyFile, passphraseFile) ==
  IF keyFile \notin DOMAIN files \/ passphraseFile \notin DOMAIN files \cup {"none"}
  THEN Error("file")
  ELSE IF passphraseFile = "none" THEN UnencryptedKey(files[keyFile])
  ELSE IF "ENCRYPTED PRIVATE KEY" \notin Tags(files[keyFile]) THEN Error("not encrypted")
  ELSE EncryptedKey(PemBlock(files[keyFile], "ENCRYPTED PRIVATE KEY"),
                    StripLineEnding(files[passphraseFile]))

=============================================================================
