------------------------------ MODULE UfmPage ------------------------------
(***************************************************************************)
(* The page of the user flash memory that holds UFM_PFR_DATA: the status   *)
(* bits, what a platform is provisioned with, the Protect-in-Transit       *)
(* hashes, the SVN policies and the key cancellation policies.             *)
(*                                                                         *)
(* An erased bit is 1 and a write can only take it to 0.  A status bit is  *)
(* in page.status once it reads 0; an SVN policy and a key cancellation    *)
(* policy are the sets of bits that still read 1.                          *)
(***************************************************************************)
EXTENDS Integers
CONSTANTS WordBits,  \* bits of a UFM word: 32
          KeyIds,    \* the key IDs a certificate can cancel: 0 .. 127
          Values     \* what the hosts may provision, as opaque values

ASSUME UfmAssumption == WordBits \in Nat \ {0}

Blank == "blank"  \* erased
Part  == "part"   \* only the first words were written
Blend == "blend"  \* two different values written over each other
ASSUME ValueAssumption == {Blank, Part, Blend} \intersect Values = {}

Fields   == {"rootKey", "pch", "bmc", "pitId"}
PitBits  == {"l1", "l2", "hashStored", "passed"}
Bits     == Fields \union PitBits \union {"lock"}
Flashes  == {"bmc", "pch"}
PcTypes  == {"cpld", "pchPfm", "pchCapsule", "bmcPfm", "bmcCapsule"}
Policies == {"cpld", "pch", "bmc"}

MaxSvn     == 2 * WordBits
FirstWord  == 0 .. WordBits - 1
SecondWord == WordBits .. MaxSvn - 1
SvnBits    == FirstWord \union SecondWord

ErasedPage ==
  [status |-> {},
   data   |-> [f \in Fields |-> Blank],
   hash   |-> [f \in Flashes |-> Blank],
   svn    |-> [p \in Policies |-> SvnBits],
   csk    |-> [t \in PcTypes |-> KeyIds]]

\* the values of an SVN policy: nothing but the top bits
SvnPatterns == {{i \in SvnBits : n <= i} : n \in 0 .. MaxSvn}

PageType(Hashes) ==
  [status : SUBSET Bits,
   data   : [Fields -> Values \union {Blank, Part, Blend}],
   hash   : [Flashes -> Hashes \union {Blank, Blend}],
   svn    : [Policies -> SvnPatterns],
   csk    : [PcTypes -> SUBSET KeyIds]]

\* set_ufm_status, check_ufm_status, is_ufm_provisioned, is_ufm_locked
SetStatus(page, bits)   == [page EXCEPT !.status = @ \union bits]
CheckStatus(page, bits) == bits \subseteq page.status
Provisioned(page)       == CheckStatus(page, {"rootKey", "pch", "bmc"})
Locked(page)            == CheckStatus(page, {"lock"})

\* what an area reads after a write: old & new
Over(old, new) == IF old \in {Blank, new} THEN new ELSE Blend
\* ... after a write of its first words, and of its last ones
OverFirst(old)     == IF old = Blank THEN Part ELSE Blend
OverLast(old, new) == IF old = Part THEN new ELSE Blend

\* get_ufm_svn: the lowest bit that is still 1
Svn(bits) == IF bits = {} THEN MaxSvn
             ELSE CHOOSE i \in bits : \A j \in bits : i <= j

SvnAllowed(page, policy, n) == n >= Svn(page.svn[policy]) /\ n <= MaxSvn

\* mutant of WriteFirst: the pattern of the second word goes to both words
WriteFirstLikeSecond(bits, n) ==
  bits \intersect (SecondWord \union {i \in FirstWord : n % WordBits <= i})

\* write_ufm_svn, one operator for each of the two words it writes; beyond
\* MaxSvn the second word is left alone
WriteFirst(bits, n) ==
  bits \intersect (SecondWord \union {i \in FirstWord : n <= i})
WriteSecond(bits, n) ==
  bits \intersect (FirstWord \union {i \in SecondWord : n <= i \/ n > MaxSvn})

\* cancel_key; a capsule of an unknown type is looked up like a BMC capsule
Policy(type) == IF type \in PcTypes THEN type ELSE "bmcCapsule"
CancelKey(page, type, id) == [page EXCEPT !.csk[Policy(type)] = @ \ {id}]
KeyValid(page, type, id)  == id \in page.csk[Policy(type)]
=============================================================================
