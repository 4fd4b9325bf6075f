------------------------- MODULE MCRedisConnection -------------------------
EXTENDS RedisConnection

MCKeys == {"app:k", "other"}
MCOwn  == {"app:k"}
MCMixed == {"get", "set", "hset", "lpush", "flushall"}
=============================================================================
