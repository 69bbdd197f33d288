----------------------------- MODULE Strategies -----------------------------
(***************************************************************************)
(* The four arms of src/wapas/strategies and the playbooks two of them     *)
(* follow, as functions of what StrategyContext shows them.                *)
(***************************************************************************)
EXTENDS Domain, ShippedPolicy

-----------------------------------------------------------------------------
(* Playbooks: for each cause, the steps with their offsets from the open.  *)

Retry(at)            == Propose("retry_payment", "none", NoRung, at)
Link(at)             == Propose("create_payment_link", "none", NoRung, at)
Send(channel, rung, at) == Propose("send_message", channel, rung, at)
Escalate(at)         == Propose("escalate_to_human", "none", NoRung, at)
CloseIt(at)          == Propose("close_episode", "none", NoRung, at)
Verify(at)           == Propose("verify_payment_claim", "none", NoRung, at)
Reauth(channel, at)  == Propose("request_mandate_reauth", channel, NoRung, at)
Concede(pct, amount, at) ==
  [Propose("offer_concession", "none", NoRung, at)
     EXCEPT !.value = (amount * pct) \div 100]

Playbook(cause, amount, o) ==
  CASE cause = "insufficient_funds" ->
         << Send("whatsapp", 1, o + 2 * H), Retry(o + 3 * D), Retry(o + 5 * D),
            Link(o + 6 * D) >>
    [] cause = "authentication_failed" ->
         << Link(o + 1 * H), Send("whatsapp", 1, o + 6 * H) >>
    [] cause = "issuer_down" ->
         << Retry(o + 2 * H), Retry(o + 8 * H), Retry(o + 1 * D) >>
    [] cause = "gateway_error" -> << Retry(o + 1 * H) >>
    [] cause = "technical_timeout" ->
         << Verify(o + 1), Retry(o + 2 * H), Retry(o + 1 * D) >>
    [] cause = "card_expired_or_invalid" ->
         << Send("whatsapp", 1, o + 1 * H), Link(o + 2 * H) >>
    [] cause = "limit_exceeded" ->
         << Link(o + 1 * H), Send("whatsapp", 1, o + 1 * D) >>
    [] cause = "risk_declined" -> << CloseIt(o) >>
    [] cause = "customer_cancelled" -> << Send("whatsapp", 1, o + 4 * H) >>
    [] cause = "mandate_revoked" ->
         << Reauth("whatsapp", o + 2 * H), Link(o + 2 * D) >>
    [] cause = "mandate_insufficient" ->
         << Send("whatsapp", 1, o + 2 * H), Retry(o + 4 * D), Retry(o + 6 * D) >>
    [] cause = "invoice_forgotten" ->
         << Send("email", 1, o + 1 * H), Send("whatsapp", 2, o + 4 * D),
            Send("email", 3, o + 10 * D), Escalate(o + 20 * D) >>
    [] cause = "invoice_cash_crunch" ->
         << Send("email", 1, o + 1 * H), Concede(8, amount, o + 5 * D),
            Send("whatsapp", 2, o + 12 * D), Escalate(o + 25 * D) >>
    [] cause = "invoice_disputed" -> << Escalate(o) >>
    [] cause = "unknown" ->
         << Send("email", 1, o + 4 * H), Retry(o + 1 * D), Retry(o + 3 * D),
            CloseIt(o + 5 * D) >>

-----------------------------------------------------------------------------
(* The arms.                                                               *)

\* Mutation of StepOf: steps are counted from one.
StepOf_FromOne(steps, step) ==
  IF step + 1 < Len(steps) THEN steps[step + 2] ELSE NoProposal

(* The step-th (from 0) of a list of proposals, or None past its end. *)
StepOf(steps, step) ==
  IF step < Len(steps) THEN steps[step + 1] ELSE NoProposal

(* RulesOnly and LLMAgent plan alike; only their diagnosis differs. *)
PlaybookArm(e, d, step) == StepOf(Playbook(d.cause, e.amount, e.opened), step)

NaiveRetry(e, step) ==
  StepOf(<< Retry(e.opened + 1 * H), Retry(e.opened + 24 * H),
            Retry(e.opened + 72 * H), Send("email", 1, e.opened + 96 * H) >>, step)

BlastChannels ==
  << "whatsapp", "sms", "email", "whatsapp", "sms", "email", "voice", "whatsapp" >>

BlastArm(step, now, contacts) ==
  IF step >= Len(BlastChannels) THEN NoProposal
  ELSE IF step % 3 = 2 THEN Retry(now + 2)
  ELSE Send(BlastChannels[step + 1],
            IF contacts + 1 < 5 THEN contacts + 1 ELSE 5, now + 2)

NextAction(e, d, step, now, contacts) ==
  { CASE e.arm = "do_nothing"  -> NoProposal
      [] e.arm = "naive_retry" -> NaiveRetry(e, step)
      [] e.arm = "blast"       -> BlastArm(step, now, contacts)
      [] OTHER                 -> PlaybookArm(e, d, step) }
=============================================================================
