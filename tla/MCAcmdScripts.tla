--------------------------- MODULE MCAcmdScripts ---------------------------
(* Small instances of AcmdScripts for TLC. *)
EXTENDS AcmdScripts, TLC

CONSTANTS game, mario, luigi, s1, m1, m2, res, dev, allAgents,
          native, resLow, resHigh, devLow, devHigh, devCommon

Export(m, share, hashes, fn) ==
  [module |-> m, category |-> game, share |-> share, hashes |-> hashes,
   native |-> (s1 :> fn)]

\* One fighter, whose weapons' shared agents lack the script.
OneFighter == {Export(m1, FALSE, {mario}, native), Export(m1, TRUE, {mario}, Null)}

\* A second fighter whose shared agents serve the first one's hash as well.
TwoFighters ==
  {Export(m1, FALSE, {mario}, native), Export(m2, TRUE, {mario, luigi}, Null)}

Req(p, h, low, f) ==
  [plugin |-> p, agent |-> h, script |-> s1, category |-> game,
   low |-> low, fn |-> f]

\* Every way in which two plugins can want the same script.
AllRequests ==
  {Req(res, mario, TRUE, resLow), Req(res, mario, FALSE, resHigh),
   Req(dev, mario, TRUE, devLow), Req(dev, mario, FALSE, devHigh),
   Req(dev, allAgents, FALSE, devCommon)}

\* Fewer, for the runs in which every step of every thread interleaves.
FewRequests ==
  {Req(res, mario, FALSE, resHigh), Req(dev, mario, TRUE, devLow)}
=============================================================================
