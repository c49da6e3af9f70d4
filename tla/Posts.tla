-------------------------------- MODULE Posts --------------------------------
(***************************************************************************)
(* One post with its likes and comments: PostsService.                     *)
(*                                                                         *)
(* Likes and comments are rows, and the post carries a counter of each; the*)
(* row and the counter are changed by separate statements.  Counters move  *)
(* by UPDATE ... SET n = n + 1, except that update saves the whole entity  *)
(* it loaded: the save writes every column that differs by then, counters  *)
(* and deletedAt included.  Texts, photos and visibility are left out.     *)
(***************************************************************************)
EXTENDS Server, Integers, FiniteSets

CONSTANTS
  PostUsers,     \* who may like
  PostReq,       \* handlers of the service that can be in flight together
  DoubleToggles,    \* may a user toggle while a toggle of his is under way?
  MaxLikes,      \* bound: likes ever inserted
  MaxComments,   \* bound: comments ever inserted
  MaxShares      \* bound: shares ever asked for

ASSUME PostsAssumption ==
  /\ MaxLikes \in Nat /\ MaxComments \in Nat /\ MaxShares \in Nat
  /\ DoubleToggles \in BOOLEAN

VARIABLES
  post,        \* the row of posts
  like,        \* post_likes: the id of each user's row, 0 without one
  nextLike,    \* id of the next row of post_likes
  comments,    \* number of rows in post_comments
  shares,      \* history: shares asked for
  disturbed,   \* history: a counter was overwritten, or its statement never ran
  preq         \* what each handler holds

postVars == <<post, like, nextLike, comments, shares, disturbed, preq>>

Counters == {"likesCount", "commentsCount", "sharesCount"}
PostColumns == Counters \cup {"deleted"}

PostRow ==
  [likesCount : Int, commentsCount : Nat, sharesCount : Nat, deleted : BOOLEAN]

PostIdle == [pc |-> "idle"]

PostFrame ==
  [pc : {"idle", "insertComment", "countComment", "countShare", "softDelete"}]
    \cup [pc : {"findLike", "insertLike", "countLike", "countUnlike"}, user : PostUsers]
    \cup [pc : {"deleteLike"}, user : PostUsers, id : 1 .. MaxLikes]
    \cup [pc : {"post", "postWrite"}, row : PostRow, diff : SUBSET PostColumns]

PostsTypeOK ==
  /\ post \in PostRow
  /\ like \in [PostUsers -> 0 .. MaxLikes]
  /\ nextLike \in 1 .. MaxLikes + 1
  /\ comments \in Nat /\ shares \in Nat
  /\ disturbed \in BOOLEAN
  /\ preq \in [PostReq -> PostFrame]

\* A post just created.
PostsInit ==
  /\ post = [likesCount |-> 0, commentsCount |-> 0, sharesCount |-> 0, deleted |-> FALSE]
  /\ like = [u \in PostUsers |-> 0] /\ nextLike = 1
  /\ comments = 0 /\ shares = 0
  /\ disturbed = FALSE
  /\ preq = [r \in PostReq |-> PostIdle]

-----------------------------------------------------------------------------
PostGoto(r, frame) == preq' = [preq EXCEPT ![r] = frame]

\* Every handler first finds the post, which must not be deleted.
FindPost(r, frame) ==
  /\ preq[r].pc = "idle"
  /\ ~post.deleted
  /\ PostGoto(r, frame)
  /\ UNCHANGED <<post, like, nextLike, comments, disturbed>>

Toggling(u) ==
  \E r \in PostReq :
    preq[r].pc \in {"findLike", "insertLike", "countLike", "deleteLike", "countUnlike"}
      /\ preq[r].user = u

BeginToggle(r, u) ==
  /\ DoubleToggles \/ ~Toggling(u)
  /\ FindPost(r, [pc |-> "findLike", user |-> u])
  /\ UNCHANGED shares

FindLike(r) ==
  /\ preq[r].pc = "findLike"
  /\ LET u == preq[r].user IN
     PostGoto(r, IF like[u] = 0 THEN [pc |-> "insertLike", user |-> u]
                 ELSE [pc |-> "deleteLike", user |-> u, id |-> like[u]])
  /\ UNCHANGED <<post, like, nextLike, comments, shares, disturbed>>

\* The unique key refuses a second like; the request fails without counting.
InsertLike(r) ==
  /\ preq[r].pc = "insertLike"
  /\ nextLike <= MaxLikes
  /\ LET u == preq[r].user IN
     IF like[u] = 0
       THEN /\ like' = [like EXCEPT ![u] = nextLike]
            /\ nextLike' = nextLike + 1
            /\ PostGoto(r, [pc |-> "countLike", user |-> u])
       ELSE PostGoto(r, PostIdle) /\ UNCHANGED <<like, nextLike>>
  /\ UNCHANGED <<post, comments, shares, disturbed>>

\* Wrong on purpose: the statement that counts down is forgotten.
DeleteLikeOnly(r) ==
  /\ preq[r].pc = "deleteLike"
  /\ LET q == preq[r] IN like' = [like EXCEPT ![q.user] = IF @ = q.id THEN 0 ELSE @]
  /\ PostGoto(r, PostIdle)
  /\ UNCHANGED <<post, nextLike, comments, shares, disturbed>>

\* The row with the id, if it is still there; the counter goes down anyway.
DeleteLike(r) ==
  /\ preq[r].pc = "deleteLike"
  /\ LET q == preq[r] IN
     /\ like' = [like EXCEPT ![q.user] = IF @ = q.id THEN 0 ELSE @]
     /\ PostGoto(r, [pc |-> "countUnlike", user |-> q.user])
  /\ UNCHANGED <<post, nextLike, comments, shares, disturbed>>

BeginShare(r) ==
  /\ shares < MaxShares
  /\ FindPost(r, [pc |-> "countShare"])
  /\ shares' = shares + 1

BeginComment(r) == FindPost(r, [pc |-> "insertComment"]) /\ UNCHANGED shares

InsertComment(r) ==
  /\ preq[r].pc = "insertComment"
  /\ comments < MaxComments
  /\ comments' = comments + 1
  /\ PostGoto(r, [pc |-> "countComment"])
  /\ UNCHANGED <<post, like, nextLike, shares, disturbed>>

\* increment and decrement of a counter: one statement on the row as it is.
Count(r) ==
  /\ preq[r].pc \in {"countLike", "countUnlike", "countComment", "countShare"}
  /\ post' =
       CASE preq[r].pc = "countLike" -> [post EXCEPT !.likesCount = @ + 1]
         [] preq[r].pc = "countUnlike" -> [post EXCEPT !.likesCount = @ - 1]
         [] preq[r].pc = "countComment" -> [post EXCEPT !.commentsCount = @ + 1]
         [] preq[r].pc = "countShare" -> [post EXCEPT !.sharesCount = @ + 1]
  /\ PostGoto(r, PostIdle)
  /\ UNCHANGED <<like, nextLike, comments, shares, disturbed>>

-----------------------------------------------------------------------------
BeginDelete(r) == FindPost(r, [pc |-> "softDelete"]) /\ UNCHANGED shares

SoftDelete(r) ==
  /\ preq[r].pc = "softDelete"
  /\ post' = [post EXCEPT !.deleted = TRUE]
  /\ PostGoto(r, PostIdle)
  /\ UNCHANGED <<like, nextLike, comments, shares, disturbed>>

BeginEditPost(r) ==
  FindPost(r, [pc |-> "post", row |-> post, diff |-> {}]) /\ UNCHANGED shares

SaveReadPost(r) ==
  /\ preq[r].pc = "post"
  /\ LET q == preq[r] IN
     PostGoto(r, [q EXCEPT !.pc = "postWrite",
                           !.diff = {c \in PostColumns : q.row[c] # post[c]}])
  /\ UNCHANGED <<post, like, nextLike, comments, shares, disturbed>>

SaveWritePost(r) ==
  /\ preq[r].pc = "postWrite"
  /\ LET q == preq[r] IN
     /\ post' = [c \in PostColumns |-> IF c \in q.diff THEN q.row[c] ELSE post[c]]
     /\ disturbed' = (disturbed \/ q.diff \cap Counters # {})
  /\ PostGoto(r, PostIdle)
  /\ UNCHANGED <<like, nextLike, comments, shares>>

\* A repository call rejects, or the process dies.
AbortPost(r) ==
  /\ Faults
  /\ preq[r].pc # "idle"
  /\ disturbed' = (disturbed \/ preq[r].pc \in {"countLike", "countUnlike", "countComment"})
  /\ PostGoto(r, PostIdle)
  /\ UNCHANGED <<post, like, nextLike, comments, shares>>

PostArrives(r) ==
  \/ \E u \in PostUsers : BeginToggle(r, u)
  \/ BeginShare(r) \/ BeginComment(r) \/ BeginDelete(r) \/ BeginEditPost(r)

PostContinues(r) ==
  \/ FindLike(r) \/ InsertLike(r) \/ DeleteLike(r) \/ InsertComment(r) \/ Count(r)
  \/ SoftDelete(r) \/ SaveReadPost(r) \/ SaveWritePost(r)

PostsNext == \E r \in PostReq : PostArrives(r) \/ PostContinues(r) \/ AbortPost(r)

PostsSpec == PostsInit /\ [][PostsNext]_postVars

-----------------------------------------------------------------------------
At(pc) == {r \in PostReq : preq[r].pc = pc}

\* The counters of comments and shares never claim more than there is, though
\* edits write old values back and handlers die between row and counter.
CountsInventNothing ==
  /\ post.commentsCount <= comments
  /\ post.sharesCount <= shares

\* Besides, as long as every counting statement runs and no edit writes an old
\* counter back, the counters are the rows but for the handlers between the two,
\* for users who toggle one at a time.
CountersAddUp ==
  /\ CountsInventNothing
  /\ ~DoubleToggles /\ ~disturbed =>
       /\ post.likesCount + Cardinality(At("countLike")) - Cardinality(At("countUnlike"))
            = Cardinality({u \in PostUsers : like[u] # 0})
       /\ post.commentsCount + Cardinality(At("countComment")) = comments
=============================================================================
