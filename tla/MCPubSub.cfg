CONSTANTS
  t1 = t1
  t2 = t2
  m1 = m1
  m2 = m2
  s1 = s1
  s2 = s2
  r1 = r1
  r2 = r2
  Topic = {t1, t2}
  Payload = {m1, m2}
  Stream = {s1, s2}
  StreamTopic <- MCStreamTopic
  Request = {r1, r2}
  RequestTopic <- MCRequestTopic
  RequestPayload <- MCRequestPayload
  RequestEcho <- MCRequestEcho
  StartTopics = {t1}
  Capacity = 1
SPECIFICATION Spec
INVARIANTS
  NothingMissedAfterJoin
  OneDeliveryPerPayload
