----------------------- MODULE MCDestinationLifecycle -----------------------
(***************************************************************************)
(* Instances of DestinationLifecycle: one bucket whose root, site/ and     *)
(* site/docs/ are namespaces inside each other, with wiki/ beside site/.   *)
(***************************************************************************)
EXTENDS DestinationLifecycle

Root == <<"b">>
Site == <<"b", "site">>
Docs == <<"b", "site", "docs">>
Wiki == <<"b", "wiki">>

\* In the listing order of their texts: the root marker of site/, an object of
\* docs/, one of site/ and one of wiki/.
Marker == Append(Site, "")
InDocs == Append(Docs, "j")
InSite == Append(Site, "k")
InWiki == Append(Wiki, "t")

FourKeys  == <<Marker, InDocs, InSite, InWiki>>
AllPlaces == {Root, Site, Docs, Wiki}
FewPlans == [ns \in AllPlaces |-> CASE ns \in {Root, Wiki} -> {{InWiki}}
                                     [] ns = Site -> {{InSite}}
                                     [] ns = Docs -> {{InDocs}}]
NoKeys == {}

=============================================================================
