------------------------------- MODULE Embedding -------------------------------
(***************************************************************************)
(* Chunks turned into vectors (lib.rs, embed_chunks): batch after batch through       *)
(* a provider, which is the HTTP endpoint (embedding/http.rs), the bundled model       *)
(* (embedding/bundled.rs), or the endpoint with the model behind it                    *)
(* (embedding/mod.rs, FallbackProvider).                                          *)
(*                                                                         *)
(* The vector of chunk c is the number c.  The endpoint may answer in any order and    *)
(* number its answers or not; what it numbers it numbers rightly.                     *)
(***************************************************************************)
EXTENDS Naturals, Sequences, FiniteSets, SequencesExt, FiniteSetsExt, TLC

CONSTANTS
  Items,       \* chunks to embed
  BatchSize,   \* embedding.batch_size
  Attempts,    \* MAX_RETRY_ATTEMPTS
  TokenBudget, \* EMBED_TOKEN_BUDGET
  Longest      \* tokens of the longest text

ASSUME EmbeddingAssumption ==
  /\ Items \in Nat /\ BatchSize \in Nat \ {0} /\ Attempts \in Nat \ {0}
  /\ TokenBudget \in Nat /\ Longest \in Nat \ {0}

Text == 1..Items

VARIABLES
  provider,  \* the provider build_provider made
  tokens,    \* tokens of each text
  embedded,  \* the vectors so far, as embed_chunks pairs them with its chunks
  requests,  \* what came of each request sent for this batch
  embedding, \* what is being done
  groups     \* the sub-batches the model has run: the tokens of each text of each

embedVars == <<provider, tokens, embedded, requests, embedding, groups>>

(* What a request may come to.  Of the answers with a payload, "wrong" has too many,     *)
(* too few, or ill-numbered items, and "narrow" vectors of another width.                *)
Retryable == {"server_error", "too_many_requests", "timeout", "connect"}
Hopeless == {"client_error", "unauthorized", "broken_off"}
Unusable == {"not_json", "wrong", "not_finite"}
Outcome == Retryable \union Hopeless \union Unusable \union {"narrow", "answered"}

EmbedTypeOK ==
  /\ provider \in {"http", "bundled", "http_or_bundled"}
  /\ tokens \in [Text -> 1..Longest]
  /\ embedded \in Seq(Text) /\ Len(embedded) <= Items
  /\ requests \in Seq(Outcome)
  /\ embedding \in {"batch", "request", "model", "done", "failed"}
  /\ groups \in Seq(Seq(1..Longest))

EmbedInit ==
  /\ provider \in {"http", "bundled", "http_or_bundled"}
  /\ tokens \in [Text -> 1..Longest]
  /\ embedded = <<>> /\ requests = <<>> /\ groups = <<>>
  /\ embedding = "batch"

(* chunks.chunks(batch_size)                                                      *)
Batch == SubSeq([i \in Text |-> i], Len(embedded) + 1, Min({Len(embedded) + BatchSize, Items}))

NextBatch ==
  /\ embedding = "batch"
  /\ embedding' = IF Batch = <<>> THEN "done"
                  ELSE IF provider = "bundled" THEN "model" ELSE "request"
  /\ requests' = <<>> /\ groups' = <<>>
  /\ UNCHANGED <<provider, tokens, embedded>>

-----------------------------------------------------------------------------
(* HttpProvider.                                                                  *)
(* An item of the payload: the text it is of, and its index when it gives one.          *)
Payload ==
  {p \in [1..Len(Batch) -> [of : 1..Len(Batch), numbered : BOOLEAN]] :
     /\ \A i, j \in DOMAIN p : i # j => p[i].of # p[j].of
     /\ \A i \in DOMAIN p : ~p[i].numbered => p[i].of = i}

Index(p, position) == IF p[position].numbered THEN p[position].of ELSE position

(* items.sort_unstable_by_key over indices that are all different.                     *)
InOrder(p) ==
  [i \in 1..Len(Batch) |->
     Batch[p[CHOOSE position \in DOMAIN p : Index(p, position) = i].of]]

Answered(p) ==
  /\ embedding = "request"
  /\ requests' = Append(requests, "answered")
  /\ embedded' = embedded \o InOrder(p)
  /\ embedding' = "batch"
  /\ UNCHANGED <<provider, tokens, groups>>

(* Any error is tried again.                                                       *)
SendAgainAny(outcome) ==
  /\ embedding = "request"
  /\ outcome # "answered" /\ Len(requests) + 1 < Attempts
  /\ requests' = Append(requests, outcome)
  /\ UNCHANGED <<provider, tokens, embedded, embedding, groups>>

SendAgain(outcome) ==
  /\ embedding = "request"
  /\ outcome \in Retryable
  /\ Len(requests) + 1 < Attempts
  /\ requests' = Append(requests, outcome)
  /\ UNCHANGED <<provider, tokens, embedded, embedding, groups>>

(* is_endpoint_unavailable; a dimension mismatch is not.                             *)
Unavailable(outcome) == outcome \in Retryable \union Hopeless \union Unusable

GiveUp(outcome) ==
  /\ embedding = "request"
  /\ outcome \in Retryable => Len(requests) + 1 = Attempts
  /\ outcome # "answered"
  /\ requests' = Append(requests, outcome)
  /\ embedding' = IF provider = "http_or_bundled" /\ Unavailable(outcome) THEN "model" ELSE "failed"
  /\ UNCHANGED <<provider, tokens, embedded, groups>>

-----------------------------------------------------------------------------
(* BundledProvider::embed_blocking.                                                *)
Indices == 1..Len(Batch)
TokensOf(i) == tokens[Batch[i]]

(* order.sort_by_key: stable.                                                      *)
RunBefore(i) ==
  {j \in Indices : TokensOf(j) < TokensOf(i) \/ (TokensOf(j) = TokensOf(i) /\ j < i)}
ShortestFirst ==
  [n \in Indices |-> CHOOSE i \in Indices : Cardinality(RunBefore(i)) = n - 1]

Widest(group) == Max({TokensOf(i) : i \in Range(group)})

(* plan_sub_batches: the plan for the n shortest.                                        *)
Join(plan, i) ==
  IF plan # <<>> /\ Widest(Append(Last(plan), i)) * (Len(Last(plan)) + 1) <= TokenBudget
  THEN [plan EXCEPT ![Len(plan)] = Append(@, i)]
  ELSE Append(plan, <<i>>)

Plans[n \in 0..Len(Batch)] == IF n = 0 THEN <<>> ELSE Join(Plans[n - 1], ShortestFirst[n])
PlanSubBatches == Plans[Len(Batch)]

(* Vectors in the order the model ran them in.                                       *)
ReassembledAsRun(plan) == [n \in Indices |-> Batch[ShortestFirst[n]]]

(* run_sub_batch: a vector for each text of the group.  The one in place k of group g goes     *)
(* to the index in place k of group g.                                              *)
Vectors(group) == [k \in DOMAIN group |-> Batch[group[k]]]
At(plan, i) ==
  {place \in UNION {{g} \X DOMAIN plan[g] : g \in DOMAIN plan} : plan[place[1]][place[2]] = i}
Reassembled(plan) ==
  [i \in Indices |-> LET place == CHOOSE place \in At(plan, i) : TRUE
                     IN  Vectors(plan[place[1]])[place[2]]]

(* A plan without one of the indices is an error.                                      *)
RunModel ==
  /\ embedding = "model"
  /\ LET plan == PlanSubBatches
     IN  /\ groups' = [g \in DOMAIN plan |-> [k \in DOMAIN plan[g] |-> TokensOf(plan[g][k])]]
         /\ IF \A i \in Indices : At(plan, i) # {}
            THEN embedded' = embedded \o Reassembled(plan) /\ embedding' = "batch"
            ELSE embedded' = embedded /\ embedding' = "failed"
  /\ UNCHANGED <<provider, tokens, requests>>

EmbedNext ==
  \/ NextBatch \/ RunModel
  \/ \E p \in Payload : Answered(p)
  \/ \E outcome \in Outcome : SendAgain(outcome) \/ GiveUp(outcome)

EmbedSpec == EmbedInit /\ [][EmbedNext]_embedVars

-----------------------------------------------------------------------------
(* lib.rs:881, embedding/http.rs:152-166, bundled.rs:676.  Whatever order the endpoint       *)
(* answers in and the model works in, and wherever one takes over from the other, each     *)
(* chunk gets the vector of its own text, and none is left out.                        *)
VectorsFollowTexts ==
  /\ embedded = [i \in 1..Len(embedded) |-> i]
  /\ embedding = "done" => Len(embedded) = Items

(* embedding/http.rs:91.  No batch is sent more than Attempts times, nothing is sent         *)
(* again after an error that cannot pass, and neither trouble with the endpoint nor the     *)
(* planning of sub-batches (bundled.rs:281) fails an index that has the model to turn to.    *)
RetriesStop ==
  /\ Len(requests) <= Attempts
  /\ \A i \in 1..(Len(requests) - 1) : requests[i] \in Retryable
  /\ (embedding = "failed" /\ provider = "http_or_bundled") => Last(requests) = "narrow"
  /\ provider = "bundled" => embedding # "failed"

(* embedding/bundled.rs:667-669.  A sub-batch of several texts stays within the budget when       *)
(* each is padded to the longest of them; only a text that is longer by itself exceeds it.        *)
SubBatchesFit ==
  \A g \in DOMAIN groups :
    Len(groups[g]) > 1 => Max(Range(groups[g])) * Len(groups[g]) <= TokenBudget
=============================================================================
