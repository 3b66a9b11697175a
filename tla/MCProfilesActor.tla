-------------------------- MODULE MCProfilesActor --------------------------
(* Small instances of ProfilesActor. *)
EXTENDS ProfilesActor

CONSTANTS c1, c2, t1, u1, u2

Item(kind, source, url, every, base, transforms, stamp) ==
  [kind |-> kind, source |-> source, url |-> url, every |-> every, base |-> base,
   extend |-> {}, transforms |-> transforms, stamp |-> stamp, name |-> "derived"]

Remote(url) == Item("file", "remote", url, 1, NoUid, {}, 0)
Mirror == Item("file", "mirror", "none", 0, NoUid, {}, 0)
Symlink == Item("file", "symlink", "none", 0, NoUid, {t1}, 0)
Overlay == Item("overlay", "managed", "none", 0, NoUid, {}, 0)
Script == Item("script", "managed", "none", 0, NoUid, {}, 0)
Composed == Item("composition", "none", "none", 0, c1, {}, 0)

MCDefinitions == {Remote(u2), Mirror, Symlink, Script}

Document(current, items, order) ==
  [current |-> current, global |-> {}, valid |-> FALSE, items |-> items,
   order |-> order, revision |-> 1]

\* A subscription with a transform, composed and selected; and a mirror nobody
\* has selected.
MCDocuments ==
  {Document(c2, c1 :> [Remote(u1) EXCEPT !.transforms = {t1}, !.stamp = 1]
                  @@ c2 :> Composed @@ t1 :> Overlay, <<c1, t1, c2>>),
   Document(NoUid, c1 :> Mirror @@ c2 :> NoItem @@ t1 :> NoItem, <<c1>>)}

\* A managed profile the user is editing.
MCManaged ==
  {Document(NoUid, c1 :> Item("file", "managed", "none", 0, NoUid, {}, 0)
                     @@ c2 :> NoItem @@ t1 :> NoItem, <<c1>>)}
=============================================================================
