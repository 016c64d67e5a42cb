--------------------------- MODULE PicturePromise ---------------------------
(***************************************************************************)
(* What the media endpoints promise of a picture, whatever uploads,        *)
(* repeated confirms, the queue and its attempts make of it: it is         *)
(* registered once; it is verified at most once, by the ETag of what was   *)
(* found; one derivation is then scheduled for it; its tiers appear one    *)
(* after the other, once it has the group they share; and when the         *)
(* derivation is done, all of them are there and nothing changes any more. *)
(***************************************************************************)
EXTENDS Naturals

CONSTANTS Media, Groups, NoGroup

VARIABLE picture  \* per original: whether it is there and confirmed, the ETag
                  \* it was verified by (0: it was not), its group, the tiers
                  \* derived, and what has become of its derivation

Tiers == {"web", "thumb"}

Unknown == [phase |-> "none", etag |-> 0, group |-> NoGroup, tiers |-> {},
            derivation |-> "none"]

Init == picture = [m \in Media |-> Unknown]

-----------------------------------------------------------------------------
(* The steps of one picture, from what it was to what it is then.          *)

\* A device may sync what it calls confirmed: that verifies nothing.
Register(old, new) ==
    /\ old = Unknown
    /\ \E p \in {"waiting", "confirmed"}, g \in Groups \cup {NoGroup} :
          new = [Unknown EXCEPT !.phase = p, !.group = g]

Verify(old, new) ==
    /\ old.phase = "waiting"
    /\ new.etag \in Nat \ {0}
    /\ new = [old EXCEPT !.phase = "confirmed", !.etag = new.etag]

Schedule(old, new) ==
    /\ old.etag # 0
    /\ old.derivation = "none"
    /\ new = [old EXCEPT !.derivation = "pending"]

JoinGroup(old, new) ==
    /\ old.derivation # "none"
    /\ old.group = NoGroup
    /\ new.group \in Groups
    /\ new = [old EXCEPT !.group = new.group]

\* An attempt that was given up may still come to its end.
Derive(old, new) ==
    /\ old.derivation # "none"
    /\ old.group # NoGroup
    /\ \E t \in Tiers \ old.tiers :
          /\ t = "thumb" => "web" \in old.tiers
          /\ new = [old EXCEPT !.tiers = @ \cup {t}]

Settle(old, new) ==
    /\ old.derivation = "pending"
    /\ \E d \in {"done", "gaveUp"} :
          /\ d = "done" => old.tiers = Tiers
          /\ new = [old EXCEPT !.derivation = d]

Step(old, new) ==
    \/ Register(old, new) \/ Verify(old, new) \/ Schedule(old, new)
    \/ JoinGroup(old, new) \/ Derive(old, new) \/ Settle(old, new)

-----------------------------------------------------------------------------
Next == \E m \in Media : /\ Step(picture[m], picture'[m])
                         /\ picture' = [picture EXCEPT ![m] = picture'[m]]

Spec == Init /\ [][Next]_picture
=============================================================================
