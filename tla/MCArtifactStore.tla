-------------------------- MODULE MCArtifactStore --------------------------
(* Instances of ArtifactStore for TLC.                                        *)
EXTENDS ArtifactStore

Envelope(id, type, status, hash, expires, rank) ==
    [id |-> id, type |-> type, status |-> status, hash |-> hash, sound |-> TRUE,
     expires |-> expires, rank |-> rank]

Old == Envelope("g1", "market_guidance", "published", "h1", 0, 1)
New == Envelope("g2", "market_guidance", "product_grade", "h2", 1, 2)
Tampered == [Old EXCEPT !.sound = FALSE]
MCContent == {Old, New, Tampered}

Line(c, n) == [id |-> c.id, type |-> c.type, hash |-> c.hash, name |-> n]
MCManifests == {{Line(Old, "a")}, {Line(Old, "a"), Line(New, "b")}}

MCExports == {<<"a", Old>>, <<"a", Tampered>>, <<"a", Torn>>, <<"b", New>>, <<"b", Missing>>}

MCTargets == {[type |-> "market_guidance", id |-> Latest],
              [type |-> "market_guidance", id |-> Unsafe]}
=============================================================================
