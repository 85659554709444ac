------------------------------- MODULE MCUfm -------------------------------
(* Ufm on small sets: two bits to a UFM word, two key IDs, two values a     *)
(* host may provision, and a few signed payloads.                          *)
EXTENDS Ufm, TLC
CONSTANTS v1, v2, c1, c2

Csk(id, key, permissions, signer) ==
  LET csk == [permissions |-> permissions, id |-> id, key |-> key]
  IN  csk @@ [form |-> TRUE, sig |-> [form |-> TRUE, key |-> signer, over |-> csk]]

(* a well-formed payload under root key v1 *)
Signed(type, flags, length, pc, csk) ==
  LET b0 == [form |-> TRUE, type |-> type, flags |-> flags, length |-> length, hash |-> pc]
      signer == IF "cert" \in flags THEN v1 ELSE csk.key
  IN  [b0 |-> b0, pc |-> pc,
       b1 |-> [form |-> TRUE, root |-> [form |-> TRUE, key |-> v1], csk |-> csk,
               sig |-> [form |-> TRUE, key |-> signer, over |-> b0]]]

BmcKey(id) == Csk(id, "key", {"bmcPfm", "bmcCapsule"}, v1)
CpldKey    == Csk(0, "key", {"cpld"}, v1)
Pfm(n)     == Signed("bmcPfm", {}, "firmware", [svn |-> n], BmcKey(0))
Capsule(n, id) ==
  Signed("bmcCapsule", {}, "firmware", [pfm |-> Pfm(n), pbc |-> TRUE], BmcKey(id))
Cert(type, id) ==
  Signed(type, {"cert"}, "one", [form |-> TRUE, csk_id |-> id], BmcKey(0))
Decommission == Signed("cpld", {"decommission"}, "one", [form |-> TRUE], CpldKey)
CpldCapsule(n) == Signed("cpld", {}, "cpld", [svn |-> n], CpldKey)

MCFactory == Capsule(1, 0)

ProvisionedPage ==
  [ErasedPage EXCEPT !.status = {"rootKey", "pch", "bmc"},
                     !.data = [f \in Fields |-> IF f = "pitId" THEN Blank ELSE v1]]
PitPage ==
  [ProvisionedPage EXCEPT !.status = @ \union {"pitId"}, !.data["pitId"] = v1]

To(slot, payload, ask) == [slot |-> slot, payload |-> payload, ask |-> ask]
Plain(c) == <<c, Blank>>

Scenario(pg, sends, transit, stages) ==
  [page |-> pg, content |-> [f \in Flashes |-> c1], sends |-> sends, transit |-> transit,
   stages |-> stages]

\* provisioning from a blank page
Blanks ==
  Scenario(ErasedPage,
    {<<"rootKey", v1>>, <<"rootKey", v2>>, <<"pch", v1>>, <<"bmc", v1>>}
      \union {Plain(c) : c \in {"erase", "end", "reconfig", "readRootKey"}},
    FALSE, {})

\* Protect-in-Transit
Pit  == Scenario(PitPage, {Plain(c) : c \in {"l1", "l2", "erase"}}, TRUE, {})
PitPending == Scenario(ProvisionedPage, {<<"pitId", v1>>, Plain("l1"), Plain("end")}, FALSE, {})

\* under another root key, with another content, by a key that may not sign it
Forgeries ==
  { [Capsule(3, 0) EXCEPT !.b1.root.key = v2], [Capsule(3, 0) EXCEPT !.pc = Capsule(1, 0).pc],
    Signed("bmcCapsule", {}, "firmware", Capsule(3, 0).pc, CpldKey) }

\* updates of two SVNs under two keys, one of which is cancelled
Updates ==
  Scenario(ProvisionedPage, {}, FALSE,
    {To("bmc", c, {a}) : c \in {Capsule(3, 0), Capsule(1, 1), Capsule(3, 1)},
                         a \in {"active", "recovery"}}
      \union {To("pch", Cert("bmcCapsule", 0), {"pch"}),
              To("bmc", Cert("bmcCapsule", 1), {"active"})})

\* what replaces images whose PFM key is cancelled
Recoveries ==
  Scenario(ProvisionedPage, {}, FALSE,
    { To("bmc", Capsule(MaxSvn + 1, 1), {}), To("cpld", Cert("bmcPfm", 0), {"cpld"}),
      To("bmc", Cert("bmcCapsule", 1), {"active"}), To("cpld", CpldCapsule(256), {"cpld"}) }
      \union {To("bmc", c, {"active"}) : c \in Forgeries})

\* a page that is locked, and decommissioned
Lockings ==
  Scenario(ProvisionedPage, {Plain("end"), Plain("erase")}, FALSE,
    {To("bmc", Capsule(3, 1), {"recovery"}), To("cpld", Decommission, {"cpld"})})

(* the last step of provisioning, and an update before the next T-1 *)
Late ==
  Scenario([ProvisionedPage EXCEPT !.status = @ \ {"bmc"}, !.data["bmc"] = Blank],
    {<<"bmc", v1>>, Plain("end")}, FALSE, {To("bmc", Capsule(0, 0), {"active"})})

MCScenarios == {Blanks, Late, Pit, PitPending, Updates, Recoveries, Lockings}

MCPayloads == {s.payload : s \in UNION {x.stages : x \in MCScenarios}}
=============================================================================
