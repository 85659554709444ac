-------------------------- MODULE Authentication --------------------------
(***************************************************************************)
(* Signed payloads and the checks the Nios makes of them.                  *)
(*                                                                         *)
(* A payload is [b0, b1, pc]: Block 0 describes the protected content pc,  *)
(* Block 1 holds the signature chain from the root key over a code signing *)
(* key (CSK) to Block 0.  A signature is [form, key, over]; a key stands   *)
(* for its public part and for its hash, a content for its digest.  What   *)
(* is compared with a fixed word (magic numbers, reserved fields, the      *)
(* curve) is one Boolean per block, form.                                  *)
(***************************************************************************)
EXTENDS UfmPage

\* b0.length, as far as the checks tell lengths apart: under 128 bytes or
\* no multiple of it, 128, that of a CPLD capsule, another one, and one
\* beyond the staging region
Lengths == {"short", "one", "cpld", "firmware", "long"}

IsCert(b0)         == "cert" \in b0.flags
IsDecommission(b0) == "decommission" \in b0.flags
IsPlain(b0, type)  == b0.type = type /\ b0.flags = {}

\* verify_ecdsa_and_sha
Signs(sig, key, content) == sig.key = key /\ sig.over = content

\* get_required_perm: no key may sign an unknown type
PermitsType(csk, type) == type \in csk.permissions /\ type \in PcTypes

LengthFits(b0) ==
  /\ b0.length # "short"
  /\ IF b0.flags # {} THEN b0.length = "one"
     ELSE IF b0.type = "cpld" THEN b0.length = "cpld" ELSE b0.length # "long"

is_block0_valid(b0, pc) ==
  /\ b0.form
  /\ b0.type \in PcTypes
  /\ LengthFits(b0)
  /\ b0.hash = pc

is_root_entry_valid(page, root) == root.form /\ root.key = page.data["rootKey"]

CskContent(csk) == [permissions |-> csk.permissions, id |-> csk.id, key |-> csk.key]

is_csk_entry_valid(page, root, csk, type) ==
  /\ csk.form
  /\ PermitsType(csk, type)
  /\ KeyValid(page, type, csk.id)
  /\ Signs(csk.sig, root.key, CskContent(csk))

is_b0_entry_valid(key, sig, b0) == sig.form /\ Signs(sig, key, b0)

\* the chain of a key cancellation certificate has no CSK
is_block1_valid(page, b0, b1) ==
  /\ b1.form
  /\ is_root_entry_valid(page, b1.root)
  /\ IF IsCert(b0) THEN is_b0_entry_valid(b1.root.key, b1.sig, b0)
     ELSE /\ is_csk_entry_valid(page, b1.root, b1.csk, b0.type)
          /\ is_b0_entry_valid(b1.csk.key, b1.sig, b0)

is_key_can_cert_valid(cert) == cert.form /\ cert.csk_id \in KeyIds

is_signature_valid(page, payload) ==
  /\ IsCert(payload.b0) => is_key_can_cert_valid(payload.pc)
  /\ is_block1_valid(page, payload.b0, payload.b1)
  /\ is_block0_valid(payload.b0, payload.pc)

(***************************************************************************)
(* The checks of an update capsule.  The content of a firmware capsule is  *)
(* [pfm, pbc]: a signed PFM, whose own content holds the SVN, and whether  *)
(* the compression header is well-formed.                                  *)
(***************************************************************************)
does_pc_type_match_update_intent(b0, intent) ==
  \/ IsCert(b0)
  \/ intent = "bmc" /\ IsPlain(b0, "bmcCapsule")
  \/ intent = "pch" /\ IsPlain(b0, "pchCapsule")
  \/ intent = "cpld" /\ (IsPlain(b0, "cpld") \/ IsDecommission(b0))

IsFirmware(payload) == "pfm" \in DOMAIN payload.pc
IsSvn(pc)           == "svn" \in DOMAIN pc

\* the SVN the code reads from the place of a PFM's, which in a payload that
\* is no firmware holds anything
PfmSvns(payload) == IF IsFirmware(payload) THEN {payload.pc.pfm.pc.svn} ELSE 0 .. MaxSvn + 1

\* are_signatures_in_capsule_valid and is_pbc_valid
is_capsule_valid(page, capsule) ==
  /\ is_signature_valid(page, capsule)
  /\ IsFirmware(capsule)
  /\ is_signature_valid(page, capsule.pc.pfm)
  /\ capsule.pc.pbc

\* mutant of FirmwareAccepted: the SVN of the recovery image does not matter
FirmwareAcceptedAnySvn(page, capsule, flash, forRecovery, mbSvn) ==
  /\ is_capsule_valid(page, capsule)
  /\ \A n \in PfmSvns(capsule) : SvnAllowed(page, flash, n)

FirmwareAccepted(page, capsule, flash, forRecovery, mbSvn) ==
  /\ is_capsule_valid(page, capsule)
  /\ \A n \in PfmSvns(capsule) :
        SvnAllowed(page, flash, n) /\ (forRecovery \/ mbSvn = n)

\* the SVN of a CPLD capsule as is_svn_valid gets it: 32 bits in the capsule,
\* of which its parameter keeps 8
CpldSvn(pc) == pc.svn % 256

\* check_capsule_before_update: what becomes of a staged payload
Verdict(page, payload, intent, forRecovery, mbSvn) ==
  LET b0 == payload.b0
  IN  IF ~ /\ does_pc_type_match_update_intent(b0, intent)
           /\ is_signature_valid(page, payload)
        THEN "reject"
      ELSE IF IsCert(b0) THEN "cancel"
      ELSE IF IsDecommission(b0) THEN "decommission"
      ELSE IF intent = "cpld"
        THEN IF IsSvn(payload.pc) /\ SvnAllowed(page, "cpld", CpldSvn(payload.pc))
               THEN "accept" ELSE "reject"
      ELSE IF FirmwareAccepted(page, payload, intent, forRecovery, mbSvn)
        THEN "accept" ELSE "reject"
=============================================================================
