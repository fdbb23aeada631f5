------------------------------- MODULE Pricing -------------------------------
(***************************************************************************)
(* The price of a cart, by the menu it is ordered from.  Menus are kept in *)
(* whole cents (DECIMAL(10, 2)), so rounding a price changes nothing and   *)
(* is left out.                                                            *)
(*                                                                         *)
(* A menu is a function from items to                                      *)
(*     [price, available, groups : group -> [least, most, extra]],         *)
(* extra being a function from options to surcharges, and a cart is a      *)
(* sequence of [item, quantity, chosen : group -> sequence of options].    *)
(***************************************************************************)
EXTENDS Integers, SequencesExt

SumOf(seq) == FoldSeq(LAMBDA x, sum : x + sum, 0, seq)

\* _apply_customizations: as much is chosen of a group as it asks for, of what
\* it offers, and a group that asks for something is not left out.
Offered(group, options) ==
    /\ Len(options) \in group.least..group.most
    /\ ToSet(options) \subseteq DOMAIN group.extra

Accepts(item, line) ==
    /\ item.available
    /\ DOMAIN line.chosen \subseteq DOMAIN item.groups
    /\ \A g \in DOMAIN item.groups :
          IF g \in DOMAIN line.chosen THEN Offered(item.groups[g], line.chosen[g])
                                      ELSE item.groups[g].least = 0

\* An option chosen twice is paid for twice.
Extras(group, options) == SumOf([i \in DOMAIN options |-> group.extra[options[i]]])
Surcharge(item, line) ==
    MapThenSumSet(LAMBDA g : Extras(item.groups[g], line.chosen[g]), DOMAIN line.chosen)

\* price_line
UnitPrice(menu, line) == menu[line.item].price + Surcharge(menu[line.item], line)
LineTotal(menu, line) == UnitPrice(menu, line) * line.quantity

\* build_order_snapshot
CanBeOrdered(menu, cart) ==
    \A i \in DOMAIN cart : cart[i].item \in DOMAIN menu /\ Accepts(menu[cart[i].item], cart[i])

Total(menu, cart) == SumOf([i \in DOMAIN cart |-> LineTotal(menu, cart[i])])
=============================================================================
